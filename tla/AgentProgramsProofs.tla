------------------------ MODULE AgentProgramsProofs ------------------------
(***************************************************************************)
(* Proofs about AgentPrograms, for every number of calls, every pool and   *)
(* every bound.                                                            *)
(*                                                                         *)
(* The inductive invariant IInv says of the agents and the calls: whoever  *)
(* has an agent in hand and was not disturbed has it for itself, with the  *)
(* tracker that counts its tokens (Own); an agent that is busy is in the   *)
(* hands of a call that is as far (Manned); and the locals of a coroutine  *)
(* are what its place in the code says (Course).  Of what the last step    *)
(* returned it says the three properties themselves, which every end of a  *)
(* call has to establish from the rest.                                    *)
(***************************************************************************)
EXTENDS AgentPrograms, FiniteSetTheorems, TLAPS

AgentRecords ==
    [type : Types \cup {None}, state : {"IDLE", "ACCEPTING", "EXECUTING"},
     tracker : BOOLEAN, used : 0..Budget, adapter : BOOLEAN,
     left : BOOLEAN]

CallRecords ==
    [pc : {"idle", "acquired", "accepted", "asking", "executing", "polling"},
     type : Types \cup {None}, agent : AgentIds \cup {NoOne},
     attempt : 1..MAX_SELF_CORRECTIONS, total : Nat,
     plan : Seq(Operations), actions : Seq(Operations),
     polls : 0..MaxPolls, job : Terminal \cup {"RUNNING", None},
     spent : Nat, created : Seq(Operations)]

ResultRecords ==
    [result : Results \cup {None}, reported : Nat,
     actions : Seq(Operations), spent : Nat, created : Seq(Operations),
     job : Terminal \cup {"RUNNING", None}, disturbed : BOOLEAN]

\* The pool holds no agent twice.
Injective(s) == \A i, j \in DOMAIN s : s[i] = s[j] => i = j

Typed ==
    /\ pool \in Seq(AgentIds) /\ Len(pool) <= MaxPoolSize /\ Injective(pool)
    /\ agent \in [AgentIds -> AgentRecords]
    /\ call \in [Calls -> CallRecords]
    /\ disturbed \subseteq Calls
    /\ returned \in ResultRecords

\* The locals of a coroutine at every place in the code.
Fits(k) ==
    /\ k.total = k.spent
    /\ k.pc = "idle" => k = Idle
    /\ k.pc # "idle" => k.agent \in AgentIds /\ k.type \in Types
    /\ k.pc \in {"acquired", "accepted"} => k.spent = 0
    /\ k.pc = "asking" => k.actions = <<>> /\ k.created = <<>>
    /\ k.pc \in {"executing", "polling"} => k.actions = k.created
    /\ k.pc = "executing" =>
          /\ k.plan # <<>>
          /\ \/ k.plan = <<"submit_job">> /\ k.created = <<>>
             \/ \A i \in DOMAIN k.plan : k.plan[i] # "submit_job"
    /\ k.pc = "polling" => Len(k.created) = 1

Course == \A c \in Calls : Fits(call[c])

\* An agent in hand has the type it was asked for.
Held == \A c \in Calls : ~Ended(c) => agent[call[c].agent].type = call[c].type

\* A call that has begun and was not disturbed has its agent for itself.
Owns(c) ==
    LET a == call[c].agent IN
      /\ agent[a].tracker
      /\ call[c].pc = "accepted" =>
            agent[a].state = "ACCEPTING" /\ agent[a].used = 0
      /\ Executing(c) =>
            agent[a].state = "EXECUTING" /\ agent[a].used = call[c].total
      /\ \A d \in Calls \ {c} : d \notin Hurt(a)

Own ==
    \A c \in Calls \ disturbed :
        call[c].pc \notin {"idle", "acquired"} => Owns(c)

\* An agent that is not idle is in the hands of a call that is as far, or was
\* left by one that had it accept.
Manned ==
    \A a \in AgentIds :
        /\ agent[a].state = "EXECUTING" =>
              \E c \in Calls : Executing(c) /\ call[c].agent = a
        /\ agent[a].state = "ACCEPTING" /\ ~agent[a].left =>
              \E c \in Calls : call[c].pc = "accepted" /\ call[c].agent = a

\* What the properties ask of a result.
Honest(r) ==
    /\ r.spent > Budget /\ ~r.disturbed => r.result = "escalated"
    /\ r.result \in {"success", "escalated", "failed"} /\ ~r.disturbed =>
          r.reported = r.spent
    /\ r.result = "success" => r.actions = r.created
    /\ r.result = "failed" =>
          \E n \in {Len(r.created), Len(r.created) - 1} :
              r.actions = SubSeq(r.created, 1, n)

IInv == Typed /\ Course /\ Held /\ Own /\ Manned /\ Honest(returned)

-----------------------------------------------------------------------------
(****************************** Sequences **********************************)

LEMMA Appends ==
    ASSUME NEW S, NEW s \in Seq(S), NEW e \in S
    PROVE  /\ Append(s, e) \in Seq(S) /\ Len(Append(s, e)) = Len(s) + 1
           /\ \A i \in DOMAIN s : Append(s, e)[i] = s[i]
           /\ Append(s, e)[Len(s) + 1] = e
           /\ SubSeq(Append(s, e), 1, Len(s)) = s
OBVIOUS

LEMMA WholeSeq == ASSUME NEW S, NEW s \in Seq(S) PROVE SubSeq(s, 1, Len(s)) = s
OBVIOUS

LEMMA Tails ==
    ASSUME NEW S, NEW s \in Seq(S), s # <<>>
    PROVE  /\ Head(s) \in S /\ Head(s) = s[1] /\ Len(s) \in Nat \ {0}
           /\ Tail(s) \in Seq(S) /\ Len(Tail(s)) = Len(s) - 1
           /\ \A i \in DOMAIN Tail(s) : i + 1 \in DOMAIN s /\ Tail(s)[i] = s[i + 1]
           /\ Len(s) > 1 => Tail(s) # <<>>
<1>1. Len(s) \in Nat \ {0} /\ Head(s) \in S /\ Head(s) = s[1]
  OBVIOUS
<1>2. Tail(s) \in Seq(S) /\ Len(Tail(s)) = Len(s) - 1
  OBVIOUS
<1>3. \A i \in DOMAIN Tail(s) : i + 1 \in DOMAIN s /\ Tail(s)[i] = s[i + 1]
  BY <1>1, <1>2
<1>4. ASSUME Len(s) > 1, Tail(s) = <<>> PROVE FALSE
  <2>1. Len(Tail(s)) = 0
    BY <1>4, SMTT(30)
  <2> QED BY <2>1, <1>1, <1>2, <1>4
<1> QED BY <1>1, <1>2, <1>3, <1>4

LEMMA Joined ==
    ASSUME NEW S, NEW l \in Seq(S), NEW r \in Seq(S),
           NEW j \in 1..(Len(l) + Len(r))
    PROVE  (l \o r)[j] = IF j <= Len(l) THEN l[j] ELSE r[j - Len(l)]
OBVIOUS

LEMMA RemovedAt ==
    ASSUME NEW S, NEW s \in Seq(S), NEW i \in DOMAIN s
    PROVE  /\ RemoveAt(s, i) \in Seq(S)
           /\ Len(RemoveAt(s, i)) = Len(s) - 1
           /\ \A j \in 1..(Len(s) - 1) :
                 RemoveAt(s, i)[j] = IF j < i THEN s[j] ELSE s[j + 1]
<1> DEFINE l == SubSeq(s, 1, i - 1)
           r == SubSeq(s, i + 1, Len(s))
<1>0. i \in Nat \ {0} /\ i <= Len(s) /\ Len(s) \in Nat
  OBVIOUS
<1>1. l \in Seq(S) /\ Len(l) = i - 1 /\ \A j \in 1..(i - 1) : l[j] = s[j]
  BY <1>0
<1>2. r \in Seq(S) /\ Len(r) = Len(s) - i
      /\ \A j \in 1..(Len(s) - i) : r[j] = s[i + j]
  BY <1>0
<1> HIDE DEF l, r
<1>3. l \o r \in Seq(S) /\ Len(l \o r) = Len(s) - 1
  BY <1>0, <1>1, <1>2
<1>4. ASSUME NEW j \in 1..(Len(s) - 1)
      PROVE  (l \o r)[j] = IF j < i THEN s[j] ELSE s[j + 1]
  <2>1. CASE j < i
    BY <2>1, <1>0, <1>1, <1>2
  <2>2. CASE ~ (j < i)
    <3>1. (l \o r)[j] = r[j - (i - 1)]
      <4>1. Len(l) = i - 1 /\ j \in 1..(Len(l) + Len(r)) /\ ~ (j <= Len(l))
        BY <2>2, <1>0, <1>1, <1>2
      <4>2. (l \o r)[j] = r[j - Len(l)]
        BY <4>1, <1>1, <1>2, Joined
      <4> QED BY <4>1, <4>2
    <3>2. j - (i - 1) \in 1..(Len(s) - i) /\ i + (j - (i - 1)) = j + 1
      BY <2>2, <1>0
    <3> QED BY <3>1, <3>2, <2>2, <1>2
  <2> QED BY <2>1, <2>2
<1> QED BY <1>3, <1>4 DEF RemoveAt, l, r

LEMMA RemovedInjective ==
    ASSUME NEW S, NEW s \in Seq(S), NEW i \in DOMAIN s, Injective(s)
    PROVE  Injective(RemoveAt(s, i))
<1> DEFINE t == RemoveAt(s, i)
<1>0. i \in Nat \ {0} /\ i <= Len(s) /\ Len(s) \in Nat
  OBVIOUS
<1>1. /\ t \in Seq(S) /\ Len(t) = Len(s) - 1
      /\ \A j \in 1..(Len(s) - 1) : t[j] = IF j < i THEN s[j] ELSE s[j + 1]
  BY RemovedAt
<1> HIDE DEF t
<1>2. ASSUME NEW j \in DOMAIN t, NEW k \in DOMAIN t, t[j] = t[k]
      PROVE  j = k
  <2> DEFINE At(n) == IF n < i THEN n ELSE n + 1
  <2>1. j \in 1..(Len(s) - 1) /\ k \in 1..(Len(s) - 1)
    BY <1>1
  <2>2. At(j) \in DOMAIN s /\ At(k) \in DOMAIN s
    BY <2>1, <1>0
  <2>3. t[j] = s[At(j)] /\ t[k] = s[At(k)]
    BY <2>1, <1>1
  <2>4. At(j) = At(k)
    BY <2>2, <2>3, <1>2 DEF Injective
  <2> QED BY <2>1, <2>4, <1>0
<1> QED BY <1>2 DEF Injective, t

LEMMA AppendedInjective ==
    ASSUME NEW S, NEW s \in Seq(S), NEW e \in S, Injective(s),
           \A i \in DOMAIN s : s[i] # e
    PROVE  Injective(Append(s, e))
<1>1. /\ \A i \in DOMAIN s : Append(s, e)[i] = s[i]
      /\ Append(s, e)[Len(s) + 1] = e
      /\ DOMAIN Append(s, e) = DOMAIN s \cup {Len(s) + 1}
  OBVIOUS
<1> QED BY <1>1 DEF Injective

\* The agents of a pool are as many as its places.
LEMMA MembersCounted ==
    ASSUME NEW S, NEW s \in Seq(S), Injective(s)
    PROVE  LET R == {s[i] : i \in DOMAIN s}
           IN  IsFiniteSet(R) /\ Cardinality(R) = Len(s)
<1> DEFINE R == {s[i] : i \in DOMAIN s}
           n == Len(s)
           f == [i \in 1..n |-> s[i]]
<1>1. n \in Nat /\ DOMAIN s = 1..n
  OBVIOUS
<1>2. f \in Bijection(1..n, R)
  <2>1. f \in [1..n -> R]
    BY <1>1
  <2>2. \A x, y \in 1..n : f[x] = f[y] => x = y
    BY <1>1 DEF Injective
  <2>3. \A y \in R : \E x \in 1..n : f[x] = y
    BY <1>1
  <2> HIDE DEF f, R
  <2> QED BY <2>1, <2>2, <2>3 DEF Bijection, Injection, Surjection, IsInjective
<1>3. ExistsBijection(1..n, R)
  BY <1>2 DEF ExistsBijection
<1>4. IsFiniteSet(1..n) /\ Cardinality(1..n) = n
  BY <1>1, FS_Interval, SMTT(30)
<1> QED BY <1>1, <1>3, <1>4, FS_Bijection

-----------------------------------------------------------------------------
(***************************** Fresh agents ********************************)

\* As long as those who may have an agent in hand leave room, there is one
\* that nobody has.
LEMMA FreshAmong ==
    ASSUME Typed, NEW D \in SUBSET Calls, \A c \in Calls : ~Ended(c) => c \in D,
           Len(pool) + Cardinality(D) < MaxPoolSize + Cardinality(Calls)
    PROVE  Fresh \in AgentIds /\ Fresh \notin Members
           /\ \A c \in Calls : ~Holds(c, Fresh)
<1> DEFINE H == {call[c].agent : c \in D}
           f == [c \in D |-> call[c].agent]
<1>1. IsFiniteSet(Members) /\ Cardinality(Members) = Len(pool)
  BY MembersCounted DEF Typed, Members
<1>2. IsFiniteSet(D) /\ Cardinality(D) \in Nat
  BY FS_Subset, FS_CardinalityType, AgentRuntimeAssumption
<1>3. f \in Surjection(D, H)
  <2>1. f \in [D -> H] /\ \A h \in H : \E c \in D : f[c] = h
    OBVIOUS
  <2> HIDE DEF f, H
  <2> QED BY <2>1 DEF Surjection
<1>4. IsFiniteSet(H) /\ Cardinality(H) <= Cardinality(D)
  <2> HIDE DEF f, H
  <2> QED BY <1>2, <1>3, FS_Surjection
<1>5. IsFiniteSet(Members \cup H)
      /\ Cardinality(Members \cup H) < Cardinality(AgentIds)
  <2> HIDE DEF H
  <2>1. /\ IsFiniteSet(Members \cup H)
        /\ Cardinality(Members \cup H) =
              Cardinality(Members) + Cardinality(H) - Cardinality(Members \cap H)
    BY <1>1, <1>4, FS_Union
  <2>2. Cardinality(Members \cap H) \in Nat
    BY <1>1, FS_Intersection, FS_CardinalityType
  <2>3. /\ Cardinality(H) \in Nat /\ Cardinality(Calls) \in Nat
        /\ Cardinality(AgentIds) \in Nat /\ MaxPoolSize \in Nat
        /\ Len(pool) \in Nat
        /\ Cardinality(AgentIds) >= MaxPoolSize + Cardinality(Calls)
    BY <1>4, FS_CardinalityType, AgentRuntimeAssumption DEF Typed
  <2> QED BY <2>1, <2>2, <2>3, <1>1, <1>2, <1>4
<1>6. ~ (AgentIds \subseteq Members \cup H)
  <2> HIDE DEF H
  <2>1. ASSUME AgentIds \subseteq Members \cup H PROVE FALSE
    <3>1. Cardinality(AgentIds) <= Cardinality(Members \cup H)
      BY <2>1, <1>5, FS_Subset
    <3>2. Cardinality(AgentIds) \in Nat /\ Cardinality(Members \cup H) \in Nat
      BY <1>5, FS_CardinalityType, AgentRuntimeAssumption
    <3> QED BY <3>1, <3>2, <1>5
  <2> QED BY <2>1
<1>7. PICK a \in AgentIds : a \notin Members \cup H
  BY <1>6
<1>8. a \notin Members /\ \A c \in Calls : ~Holds(c, a)
  BY <1>7 DEF Holds
<1> QED BY <1>7, <1>8 DEF Fresh

LEMMA FreshForPool ==
    ASSUME Typed, ~Full
    PROVE  Fresh \in AgentIds /\ Fresh \notin Members
           /\ \A c \in Calls : ~Holds(c, Fresh)
<1>1. Len(pool) + Cardinality(Calls) < MaxPoolSize + Cardinality(Calls)
  BY FS_CardinalityType, AgentRuntimeAssumption DEF Typed, Full
<1> QED BY <1>1, FreshAmong

LEMMA FreshForCall ==
    ASSUME Typed, NEW c \in Calls, Ended(c)
    PROVE  Fresh \in AgentIds /\ Fresh \notin Members
           /\ \A d \in Calls : ~Holds(d, Fresh)
<1> DEFINE D == Calls \ {c}
<1>1. Cardinality(D) = Cardinality(Calls) - 1
  BY FS_RemoveElement, AgentRuntimeAssumption
<1>2. Cardinality(Calls) \in Nat /\ MaxPoolSize \in Nat /\ Len(pool) \in Nat
  BY FS_CardinalityType, AgentRuntimeAssumption DEF Typed
<1>3. Len(pool) + Cardinality(D) < MaxPoolSize + Cardinality(Calls)
  BY <1>1, <1>2 DEF Typed
<1>4. \A d \in Calls : ~Ended(d) => d \in D
  OBVIOUS
<1> HIDE DEF D
<1> QED BY <1>3, <1>4, FreshAmong DEF D

\* The least of a set of numbers.
LEMMA LeastOf ==
    ASSUME NEW T, T \subseteq Nat, T # {}
    PROVE  \E x \in T : \A y \in T : x <= y
<1> DEFINE R == {ss \in Nat \X Nat : ss[1] < ss[2]}
<1>1. IsWellFoundedOn(R, Nat)
  BY NatLessThanWellFounded, Zenon DEF OpToRel
<1>2. \A x, y \in Nat : <<y, x>> \in R <=> y < x
  OBVIOUS
<1> HIDE DEF R
<1>3. PICK x \in T : \A y \in T : ~ (<<y, x>> \in R)
  BY <1>1, WFMin
<1>4. \A y \in T : ~ (y < x)
  BY <1>2, <1>3
<1> QED BY <1>4

LEMMA OldestIsAvailable ==
    ASSUME Typed, NEW t, Available(t) # {}
    PROVE  /\ Oldest(t) \in Members /\ Oldest(t) \in AgentIds
           /\ agent[Oldest(t)].state = "IDLE" /\ agent[Oldest(t)].type = t
<1>1. Available(t) \subseteq Nat
  BY DEF Available, Typed
<1>2. PICK i \in Available(t) : \A j \in Available(t) : i <= j
  BY <1>1, LeastOf
<1> DEFINE k == CHOOSE x \in Available(t) : \A j \in Available(t) : x <= j
<1>3. k \in Available(t)
  BY <1>2
<1>4. Oldest(t) = pool[k]
  BY DEF Oldest
<1> HIDE DEF k
<1> QED BY <1>3, <1>4 DEF Available, Members, Typed

-----------------------------------------------------------------------------
(************************ The shapes of a step *****************************)

LEMMA Domains ==
    /\ MaxPoolSize \in Nat \ {0} /\ Budget \in Nat /\ MaxTokens \in Nat
    /\ MAX_SELF_CORRECTIONS \in Nat \ {0} /\ MaxPolls \in Nat
    /\ MaxStatements \in Nat /\ NoOne \notin AgentIds
    /\ None \notin Types /\ \A c \in Calls : Wants[c] \subseteq Types
<1>1. None \notin Types
  BY DEF None, Types, FactoryTypes
<1> QED BY <1>1, AgentRuntimeAssumption DEF NoOne

LEMMA NewCallFits ==
    ASSUME NEW t \in Types, NEW a \in AgentIds
    PROVE  /\ NewCall(t, a) \in CallRecords /\ Fits(NewCall(t, a))
           /\ NewCall(t, a).pc = "asking" /\ NewCall(t, a).agent = a
           /\ NewCall(t, a).type = t /\ NewCall(t, a).total = 0
           /\ NewCall(t, a).attempt = 1
BY Domains DEF NewCall, CallRecords, Fits

LEMMA IdleFits ==
    /\ Idle \in CallRecords /\ Fits(Idle) /\ Idle.pc = "idle"
    /\ Idle.spent = 0 /\ Idle.actions = <<>> /\ Idle.created = <<>>
<1>1. /\ Idle \in CallRecords /\ Idle.pc = "idle" /\ Idle.total = Idle.spent
      /\ Idle.spent = 0 /\ Idle.actions = <<>> /\ Idle.created = <<>>
  <2> DEFINE n == NewCall(None, NoOne)
  <2>1. /\ n \in CallRecords /\ n.total = 0 /\ n.spent = 0
        /\ n.actions = <<>> /\ n.created = <<>>
    BY Domains DEF NewCall, CallRecords
  <2>2. Idle = [n EXCEPT !.pc = "idle"]
    BY DEF Idle
  <2> HIDE DEF n
  <2> QED BY <2>1, <2>2 DEF CallRecords
<1> QED BY <1>1 DEF Fits

LEMMA NoAgentTyped == NoAgent \in AgentRecords
BY Domains DEF NoAgent, AgentRecords

LEMMA ResetTyped ==
    ASSUME NEW m \in AgentRecords
    PROVE  LET x == [m EXCEPT !.state = "IDLE", !.tracker = FALSE, !.used = 0,
                              !.left = FALSE]
           IN  /\ x \in AgentRecords /\ x.type = m.type /\ x.state = "IDLE"
               /\ ~x.tracker /\ x.used = 0
<1> DEFINE y(n) == [m EXCEPT !.state = "IDLE", !.tracker = FALSE, !.used = n,
                             !.left = FALSE]
<1>1. ASSUME NEW n \in 0..Budget PROVE y(n) \in AgentRecords
  BY DEF AgentRecords
<1>2. ASSUME NEW n
      PROVE  /\ y(n).type = m.type /\ y(n).state = "IDLE"
             /\ y(n).used = n
  BY DEF AgentRecords
<1>3. ~y(0).tracker
  BY DEF AgentRecords
<1>4. 0 \in 0..Budget
  BY Domains
<1> HIDE DEF y
<1>5. /\ y(0) \in AgentRecords /\ y(0).type = m.type /\ y(0).state = "IDLE"
      /\ ~y(0).tracker /\ y(0).used = 0
  BY <1>1, <1>2, <1>3, <1>4
<1> QED BY <1>5 DEF y

LEMMA BegunTyped ==
    ASSUME NEW m \in AgentRecords, NEW st \in {"ACCEPTING", "EXECUTING"}
    PROVE  LET x == [m EXCEPT !.state = st, !.tracker = TRUE, !.used = 0]
           IN  /\ x \in AgentRecords /\ x.type = m.type /\ x.state = st
               /\ x.tracker /\ x.used = 0
<1> DEFINE y(n) == [m EXCEPT !.state = st, !.tracker = TRUE, !.used = n]
<1>1. ASSUME NEW n \in 0..Budget PROVE y(n) \in AgentRecords
  BY DEF AgentRecords
<1>2. ASSUME NEW n
      PROVE  /\ y(n).type = m.type /\ y(n).state = st
             /\ y(n).used = n
  BY DEF AgentRecords
<1>3. y(0).tracker
  BY DEF AgentRecords
<1>4. 0 \in 0..Budget
  BY Domains
<1> HIDE DEF y
<1>5. /\ y(0) \in AgentRecords /\ y(0).type = m.type /\ y(0).state = st
      /\ y(0).tracker /\ y(0).used = 0
  BY <1>1, <1>2, <1>3, <1>4
<1> QED BY <1>5 DEF y

LEMMA NothingHonest == Nothing \in ResultRecords /\ Honest(Nothing)
<1> DEFINE n == Nothing
<1>1. n.result = "NONE" /\ n.spent = 0
  BY DEF Nothing, Result, Idle, NewCall, None
<1>2. n \in ResultRecords
  BY DEF Nothing, Result, Idle, NewCall, None, ResultRecords
<1> QED BY <1>1, <1>2, Domains DEF Honest

\* One call, and the agent it has in hand, are rewritten.
LEMMA CallRewritten ==
    ASSUME IInv, NEW c \in Calls, NEW k \in CallRecords, Fits(k),
           call' = [call EXCEPT ![c] = k]
    PROVE  /\ call' \in [Calls -> CallRecords] /\ Course'
           /\ call'[c] = k /\ \A d \in Calls \ {c} : call'[d] = call[d]
BY DEF IInv, Typed, Course

\* Facts of a call whose agent is busy.
LEMMA InHand ==
    ASSUME IInv, NEW c \in Calls, ~Ended(c)
    PROVE  /\ call[c].agent \in AgentIds /\ call[c].type \in Types
           /\ agent[call[c].agent] \in AgentRecords /\ call[c] \in CallRecords
           /\ agent[call[c].agent].type = call[c].type
           /\ Fits(call[c])
BY DEF IInv, Typed, Course, Fits, Held, Ended

LEMMA EndsKeeps ==
    ASSUME IInv, NEW c \in Calls, Executing(c),
           NEW result \in Results, NEW reported \in Nat, NEW new \in CallRecords,
           Ends(c, result, reported, new),
           Honest(Result(result, reported, new, c \in disturbed))
    PROVE  IInv'
<1> DEFINE a == call[c].agent
           kept == KeptWithout(c, a)
           x == IF kept THEN [agent[a] EXCEPT !.state = "IDLE", !.tracker = FALSE,
                                              !.used = 0, !.left = FALSE]
                        ELSE NoAgent
<1>0. /\ a \in AgentIds /\ agent[a] \in AgentRecords /\ ~Ended(c)
  BY InHand DEF Executing, Ended
<1>1. /\ call' \in [Calls -> CallRecords] /\ Course'
      /\ call'[c] = Idle /\ \A d \in Calls \ {c} : call'[d] = call[d]
  BY CallRewritten, IdleFits DEF Ends
<1>2. /\ agent' = [agent EXCEPT ![a] = x]
  BY DEF Ends, Reset
<1>3. x \in AgentRecords /\ x.state = "IDLE" /\ (kept => x.type = agent[a].type)
  <2>1. CASE kept
    <3>1. x = [agent[a] EXCEPT !.state = "IDLE", !.tracker = FALSE, !.used = 0,
                               !.left = FALSE]
      BY <2>1
    <3> HIDE DEF x, kept, a
    <3> QED BY <3>1, <1>0, ResetTyped
  <2>2. CASE ~kept
    BY <2>2, NoAgentTyped DEF NoAgent
  <2> QED BY <2>1, <2>2
<1>4. /\ agent' \in [AgentIds -> AgentRecords] /\ agent'[a] = x
      /\ \A b \in AgentIds \ {a} : agent'[b] = agent[b]
  BY <1>0, <1>2, <1>3 DEF IInv, Typed
<1>5. \A d \in Calls \ {c} : Holds(d, a) => kept
  BY DEF KeptWithout
<1>6. /\ disturbed' = (disturbed \cup Hurt(a)) \ {c} /\ pool' = pool
      /\ returned' = Result(result, reported, new, c \in disturbed)
  BY DEF Ends
<1> HIDE DEF kept, x
<1>7. Typed'
  <2>1. returned' \in ResultRecords
    BY <1>6 DEF Result, ResultRecords, CallRecords
  <2>2. disturbed' \subseteq Calls
    BY <1>6 DEF Hurt, IInv, Typed
  <2> QED BY <1>1, <1>4, <1>6, <2>1, <2>2 DEF IInv, Typed
<1>8. Held'
  <2> SUFFICES ASSUME NEW d \in Calls, ~Ended(d)'
               PROVE  agent'[call'[d].agent].type = call'[d].type
    BY DEF Held
  <2>1. d # c
    BY <1>1, IdleFits DEF Ended
  <2>2. call'[d] = call[d] /\ ~Ended(d) /\ call[d].agent \in AgentIds
    BY <2>1, <1>1, InHand DEF Ended
  <2>3. CASE call[d].agent = a
    BY <2>1, <2>2, <2>3, <1>3, <1>4, <1>5 DEF IInv, Held, Holds
  <2>4. CASE call[d].agent # a
    BY <2>2, <2>4, <1>4 DEF IInv, Held
  <2> QED BY <2>3, <2>4
<1>9. Own'
  <2> SUFFICES ASSUME NEW d \in Calls, d \notin disturbed',
                      call'[d].pc \notin {"idle", "acquired"}
               PROVE  Owns(d)'
    BY DEF Own
  <2>1. d # c /\ call'[d] = call[d]
    BY <1>1, IdleFits
  <2>2. ~Ended(d) /\ call[d].agent \in AgentIds
    BY <2>1, InHand DEF Ended
  <2>3. d \notin disturbed /\ call[d].agent # a
    BY <2>1, <2>2, <1>6 DEF Hurt, Holds
  <2>4. Owns(d)
    BY <2>1, <2>3 DEF IInv, Own
  <2>5. agent'[call'[d].agent] = agent[call[d].agent]
    BY <2>1, <2>2, <2>3, <1>4
  <2> QED BY <2>1, <2>4, <2>5, <1>1, IdleFits
          DEF Owns, Executing, Hurt, Holds, Ended
<1>10. Manned'
  <2> SUFFICES ASSUME NEW b \in AgentIds, agent'[b].state # "IDLE"
               PROVE  /\ agent'[b].state = "EXECUTING" =>
                           \E d \in Calls : Executing(d)' /\ call'[d].agent = b
                      /\ agent'[b].state = "ACCEPTING" /\ ~agent'[b].left =>
                           \E d \in Calls :
                              call'[d].pc = "accepted" /\ call'[d].agent = b
    BY DEF Manned
  <2>1. b # a /\ agent'[b] = agent[b]
    BY <1>3, <1>4
  <2>2. \A d \in Calls : call[d].agent = b => call'[d] = call[d]
    BY <2>1, <1>1
  <2> QED BY <2>1, <2>2 DEF IInv, Manned, Executing
<1> QED BY <1>1, <1>6, <1>7, <1>8, <1>9, <1>10 DEF IInv

\* A call that gives up an agent it does not run on, or never had one.
LEMMA EndsWithoutKeeps ==
    ASSUME IInv, NEW c \in Calls, NEW result \in Results,
           EndsWithout(c, result),
           result \notin {"success", "escalated", "failed"},
           \/ call[c].pc \in {"idle", "acquired"}
           \/ call[c].pc = "accepted" /\ agent[call[c].agent].state # "ACCEPTING"
    PROVE  IInv'
<1>1. /\ call' \in [Calls -> CallRecords] /\ Course'
      /\ call'[c] = Idle /\ \A d \in Calls \ {c} : call'[d] = call[d]
  BY CallRewritten, IdleFits DEF EndsWithout
<1>2. /\ pool' = pool /\ agent' = agent /\ disturbed' = disturbed \ {c}
      /\ returned' = Result(result, 0, Idle, FALSE)
  BY DEF EndsWithout
<1>3. returned' \in ResultRecords /\ Honest(returned')
  <2> DEFINE r == Result(result, 0, Idle, FALSE)
  <2>1. r \in ResultRecords
    BY IdleFits DEF Result, ResultRecords, CallRecords
  <2>2. r.result = result /\ r.spent = 0
    BY IdleFits DEF Result
  <2>3. returned' = r
    BY <1>2
  <2> HIDE DEF r
  <2>4. ~ (r.spent > Budget) /\ r.result \notin {"success", "escalated", "failed"}
        /\ r.result # "success" /\ r.result # "failed"
    BY <2>2, Domains
  <2>5. Honest(r)
    BY <2>4 DEF Honest
  <2> QED BY <2>1, <2>3, <2>5
<1>4. Typed'
  BY <1>1, <1>2, <1>3 DEF IInv, Typed
<1>5. Held'
  BY <1>1, <1>2, IdleFits DEF IInv, Held, Ended
<1>6. Own'
  <2> SUFFICES ASSUME NEW d \in Calls, d \notin disturbed',
                      call'[d].pc \notin {"idle", "acquired"}
               PROVE  Owns(d)'
    BY DEF Own
  <2>1. d # c /\ call'[d] = call[d] /\ d \notin disturbed
    BY <1>1, <1>2, IdleFits
  <2>2. Owns(d)
    BY <2>1 DEF IInv, Own
  <2> QED BY <2>1, <2>2, <1>1, <1>2, IdleFits
          DEF Owns, Executing, Hurt, Holds, Ended
<1>7. Manned'
  <2> SUFFICES ASSUME NEW b \in AgentIds
               PROVE  /\ agent[b].state = "EXECUTING" =>
                           \E d \in Calls : Executing(d)' /\ call'[d].agent = b
                      /\ agent[b].state = "ACCEPTING" /\ ~agent[b].left =>
                           \E d \in Calls :
                              call'[d].pc = "accepted" /\ call'[d].agent = b
    BY <1>2 DEF Manned
  <2>1. CASE agent[b].state = "EXECUTING"
    <3>1. PICK d \in Calls : Executing(d) /\ call[d].agent = b
      BY <2>1 DEF IInv, Manned
    <3>2. d # c
      BY <3>1 DEF Executing
    <3> QED BY <2>1, <3>1, <3>2, <1>1 DEF Executing
  <2>2. CASE agent[b].state = "ACCEPTING" /\ ~agent[b].left
    <3>1. PICK d \in Calls : call[d].pc = "accepted" /\ call[d].agent = b
      BY <2>2 DEF IInv, Manned
    <3>2. d # c
      BY <2>2, <3>1
    <3> QED BY <2>2, <3>1, <3>2, <1>1
  <2> QED BY <2>1, <2>2
<1> QED BY <1>1, <1>2, <1>3, <1>4, <1>5, <1>6, <1>7 DEF IInv

\* A call begins on an agent that is idle or that nobody has.
LEMMA BeginKeeps ==
    ASSUME IInv, NEW c \in Calls, Ended(c), NEW t \in Types, NEW a \in AgentIds,
           NEW new \in AgentRecords, new.type = t, Begin(c, t, a, new),
           \/ agent[a].state = "IDLE" /\ agent[a].type = t
           \/ \A d \in Calls : ~Holds(d, a),
           \/ pool' = pool
           \/ ~Full /\ a \notin Members /\ pool' = Append(pool, a)
    PROVE  IInv'
<1> DEFINE x == [new EXCEPT !.state = "EXECUTING", !.tracker = TRUE, !.used = 0]
           k == NewCall(t, a)
<1>1. /\ x \in AgentRecords /\ x.type = t /\ x.state = "EXECUTING"
      /\ x.tracker /\ x.used = 0
  BY BegunTyped
<1>2. agent' = [agent EXCEPT ![a] = x] /\ call' = [call EXCEPT ![c] = k]
      /\ returned' = Nothing
  BY DEF Begin
<1>3. disturbed' = IF \E d \in Calls \ {c} : d \in Hurt(a)
                     THEN disturbed \cup {c} ELSE disturbed \ {c}
  BY DEF Begin
<1> HIDE DEF x
<1>4. /\ k \in CallRecords /\ Fits(k) /\ k.pc = "asking" /\ k.agent = a
      /\ k.type = t /\ k.total = 0
  BY NewCallFits
<1> HIDE DEF k
<1>5. /\ call' \in [Calls -> CallRecords] /\ Course'
      /\ call'[c] = k /\ \A d \in Calls \ {c} : call'[d] = call[d]
  BY <1>2, <1>4, CallRewritten
<1>6. /\ agent' \in [AgentIds -> AgentRecords] /\ agent'[a] = x
      /\ \A b \in AgentIds \ {a} : agent'[b] = agent[b]
  BY <1>1, <1>2 DEF IInv, Typed
<1>7. pool' \in Seq(AgentIds) /\ Len(pool') <= MaxPoolSize /\ Injective(pool')
  <2>1. CASE pool' = pool
    BY <2>1 DEF IInv, Typed
  <2>2. CASE ~Full /\ a \notin Members /\ pool' = Append(pool, a)
    <3>1. pool \in Seq(AgentIds) /\ Injective(pool)
      BY DEF IInv, Typed
    <3>2. \A i \in DOMAIN pool : pool[i] # a
      BY <2>2 DEF Members
    <3>3. pool' \in Seq(AgentIds) /\ Len(pool') = Len(pool) + 1
      BY <2>2, <3>1, Appends
    <3>4. Len(pool) + 1 <= MaxPoolSize
      BY <2>2, <3>1, Domains DEF Full
    <3> QED BY <2>2, <3>1, <3>2, <3>3, <3>4, AppendedInjective
  <2> QED BY <2>1, <2>2
<1>8. Typed'
  BY <1>2, <1>3, <1>5, <1>6, <1>7, NothingHonest DEF IInv, Typed
<1>9. Held'
  <2> SUFFICES ASSUME NEW d \in Calls, ~Ended(d)'
               PROVE  agent'[call'[d].agent].type = call'[d].type
    BY DEF Held
  <2>1. CASE d = c
    BY <2>1, <1>1, <1>4, <1>5, <1>6
  <2>2. CASE d # c
    <3>1. call'[d] = call[d] /\ ~Ended(d) /\ call[d].agent \in AgentIds
          /\ agent[call[d].agent].type = call[d].type
      BY <2>2, <1>5, InHand DEF Ended
    <3>2. CASE call[d].agent = a
      <4>1. agent[a].type = t
        BY <3>1, <3>2 DEF Holds
      <4> QED BY <3>1, <3>2, <4>1, <1>1, <1>6
    <3>3. CASE call[d].agent # a
      BY <3>1, <3>3, <1>6
    <3> QED BY <3>2, <3>3
  <2> QED BY <2>1, <2>2
<1>10. Own'
  <2> SUFFICES ASSUME NEW d \in Calls, d \notin disturbed',
                      call'[d].pc \notin {"idle", "acquired"}
               PROVE  Owns(d)'
    BY DEF Own
  <2>1. CASE d = c
    <3>1. \A e \in Calls \ {c} : e \notin Hurt(a)
      BY <2>1, <1>3
    <3>2. \A e \in Calls \ {c} : e \notin Hurt(a)'
      BY <3>1, <1>5 DEF Hurt, Holds, Ended
    <3> QED BY <2>1, <3>2, <1>1, <1>4, <1>5, <1>6 DEF Owns, Executing
  <2>2. CASE d # c
    <3>1. call'[d] = call[d] /\ ~Ended(d) /\ call[d].agent \in AgentIds
          /\ d \notin disturbed
      BY <2>2, <1>3, <1>5, InHand DEF Ended
    <3>2. Owns(d)
      BY <2>2, <3>1 DEF IInv, Own
    <3>3. call[d].agent # a
      <4>1. ASSUME call[d].agent = a PROVE FALSE
        <5>1. Holds(d, a)
          BY <3>1, <4>1 DEF Holds
        <5>2. agent[a].state = "IDLE"
          BY <5>1
        <5>3. call[d].pc \in {"accepted", "asking", "executing", "polling"}
          BY <3>1, <2>2 DEF IInv, Typed, CallRecords
        <5> QED BY <4>1, <5>2, <5>3, <3>2 DEF Owns, Executing
      <4> QED BY <4>1
    <3>4. agent'[call'[d].agent] = agent[call[d].agent]
      BY <3>1, <3>3, <1>6
    <3>5. \A e \in Calls \ {d} : e \notin Hurt(call[d].agent)'
      BY <3>1, <3>2, <3>3, <1>4, <1>5 DEF Owns, Hurt, Holds, Ended
    <3> QED BY <3>1, <3>2, <3>4, <3>5 DEF Owns, Executing
  <2> QED BY <2>1, <2>2
<1>11. Manned'
  <2> SUFFICES ASSUME NEW b \in AgentIds
               PROVE  /\ agent'[b].state = "EXECUTING" =>
                           \E d \in Calls : Executing(d)' /\ call'[d].agent = b
                      /\ agent'[b].state = "ACCEPTING" /\ ~agent'[b].left =>
                           \E d \in Calls :
                              call'[d].pc = "accepted" /\ call'[d].agent = b
    BY DEF Manned
  <2>1. CASE b = a
    BY <2>1, <1>1, <1>4, <1>5, <1>6 DEF Executing
  <2>2. CASE b # a
    <3>1. agent'[b] = agent[b]
      BY <2>2, <1>6
    <3>2. \A d \in Calls : ~Ended(d) => call'[d] = call[d]
      BY <1>5
    <3>3. \A d \in Calls : Executing(d) \/ call[d].pc = "accepted" => ~Ended(d)
      BY DEF Executing, Ended
    <3> QED BY <3>1, <3>2, <3>3 DEF IInv, Manned, Executing
  <2> QED BY <2>1, <2>2
<1> QED BY <1>2, <1>5, <1>8, <1>9, <1>10, <1>11, NothingHonest, SMTT(30) DEF IInv

\* A call has counted a response and goes on, in what state k whatever.
LEMMA CountingKeeps ==
    ASSUME IInv, NEW c \in Calls, call[c].pc = "asking", NEW r \in Responses,
           NEW k \in CallRecords, Fits(k), k.pc \in {"asking", "executing"},
           k.agent = call[c].agent, k.type = call[c].type,
           k.total = call[c].total + r.tokens,
           Tracked(c) => Used(c) + r.tokens <= Budget,
           call' = [call EXCEPT ![c] = k],
           agent' = [agent EXCEPT ![call[c].agent].used = UsedAfter(c, r)],
           returned' = Nothing, UNCHANGED <<pool, disturbed>>
    PROVE  IInv'
<1> DEFINE a == call[c].agent
           u == UsedAfter(c, r)
           x == [agent[a] EXCEPT !.used = u]
<1>1. a \in AgentIds /\ agent[a] \in AgentRecords /\ call[c] \in CallRecords
      /\ r.tokens \in Nat /\ ~Ended(c)
  <2>1. ~Ended(c)
    BY DEF Ended
  <2>2. r.tokens \in Nat
    BY Domains DEF Responses
  <2> QED BY <2>1, <2>2, InHand
<1>2. u \in 0..Budget /\ (agent[a].tracker => u = agent[a].used + r.tokens)
  <2>1. agent[a].used \in 0..Budget
    BY <1>1 DEF AgentRecords
  <2> HIDE DEF a
  <2> QED BY <1>1, <2>1, Domains DEF UsedAfter, Tracked, Used, a
<1> HIDE DEF u
<1>3. /\ x \in AgentRecords /\ x.type = agent[a].type /\ x.used = u
      /\ x.state = agent[a].state /\ x.tracker = agent[a].tracker
  BY <1>1, <1>2 DEF AgentRecords
<1>4. agent' = [agent EXCEPT ![a] = x]
  BY DEF u
<1> HIDE DEF x
<1>5. /\ agent' \in [AgentIds -> AgentRecords] /\ agent'[a] = x
      /\ \A b \in AgentIds \ {a} : agent'[b] = agent[b]
  BY <1>1, <1>3, <1>4 DEF IInv, Typed
<1>6. /\ call' \in [Calls -> CallRecords] /\ Course'
      /\ call'[c] = k /\ \A d \in Calls \ {c} : call'[d] = call[d]
  BY CallRewritten
<1>7. \A d \in Calls : call'[d].agent = call[d].agent
      /\ call'[d].type = call[d].type /\ Ended(d)' = Ended(d)
      /\ Executing(d)' = Executing(d) /\ (call'[d].pc = "accepted" <=> call[d].pc = "accepted")
      /\ (call'[d].pc = "acquired" <=> call[d].pc = "acquired")
  BY <1>6 DEF Ended, Executing
<1>8. \A b \in AgentIds : agent'[b].type = agent[b].type
      /\ agent'[b].state = agent[b].state /\ agent'[b].tracker = agent[b].tracker
  BY <1>3, <1>5
<1>9. Typed'
  BY <1>5, <1>6, NothingHonest DEF IInv, Typed
<1>10. Held'
  BY <1>7, <1>8, InHand DEF IInv, Held
<1>11. Own'
  <2> SUFFICES ASSUME NEW d \in Calls, d \notin disturbed',
                      call'[d].pc \notin {"idle", "acquired"}
               PROVE  Owns(d)'
    BY DEF Own
  <2>1. ~Ended(d) /\ call[d].agent \in AgentIds /\ Owns(d)
    BY <1>7, InHand DEF IInv, Own, Ended
  <2>2. \A e \in Calls \ {d} : e \notin Hurt(call[d].agent)'
    BY <2>1, <1>7 DEF Owns, Hurt, Holds
  <2>3. CASE d = c
    <3>1. x.state = "EXECUTING" /\ x.tracker /\ x.used = k.total
      BY <2>1, <2>3, <1>2, <1>3 DEF Owns, Executing
    <3> QED BY <2>2, <2>3, <3>1, <1>5, <1>6 DEF Owns, Executing
  <2>4. CASE d # c
    <3>1. call[d].agent # a
      <4>1. c \in Hurt(a)
        BY <1>1 DEF Hurt, Holds
      <4> QED BY <2>1, <2>4, <4>1 DEF Owns
    <3>2. agent'[call'[d].agent] = agent[call[d].agent] /\ call'[d] = call[d]
      BY <2>1, <2>4, <3>1, <1>5, <1>6
    <3> QED BY <2>1, <2>2, <3>2 DEF Owns, Executing
  <2> QED BY <2>3, <2>4
<1>12. Manned'
  BY <1>7, <1>8 DEF IInv, Manned
<1> QED BY <1>6, <1>9, <1>10, <1>11, <1>12, NothingHonest DEF IInv

\* A call goes on without its agent being touched.
LEMMA LocalKeeps ==
    ASSUME IInv, NEW c \in Calls, ~Ended(c),
           NEW k \in CallRecords, Fits(k),
           \/ Executing(c) /\ k.pc \in {"executing", "polling"}
           \/ k.pc = call[c].pc,
           k.agent = call[c].agent, k.type = call[c].type,
           k.total = call[c].total,
           call' = [call EXCEPT ![c] = k],
           returned' = Nothing, UNCHANGED <<pool, agent, disturbed>>
    PROVE  IInv'
<1>6. /\ call' \in [Calls -> CallRecords] /\ Course'
      /\ call'[c] = k /\ \A d \in Calls \ {c} : call'[d] = call[d]
  BY CallRewritten
<1>7. \A d \in Calls : call'[d].agent = call[d].agent
      /\ call'[d].type = call[d].type /\ call'[d].total = call[d].total
      /\ Ended(d)' = Ended(d)
      /\ Executing(d)' = Executing(d) /\ (call'[d].pc = "accepted" <=> call[d].pc = "accepted")
      /\ (call'[d].pc = "acquired" <=> call[d].pc = "acquired")
  BY <1>6 DEF Ended, Executing
<1>9. Typed'
  BY <1>6, NothingHonest DEF IInv, Typed
<1>10. Held'
  BY <1>7 DEF IInv, Held
<1>11. Own'
  <2> SUFFICES ASSUME NEW d \in Calls, d \notin disturbed',
                      call'[d].pc \notin {"idle", "acquired"}
               PROVE  Owns(d)'
    BY DEF Own
  <2>1. Owns(d)
    BY <1>7 DEF IInv, Own, Ended
  <2>2. \A e \in Calls \ {d} : e \notin Hurt(call[d].agent)'
    BY <2>1, <1>7 DEF Owns, Hurt, Holds
  <2> QED BY <2>1, <2>2, <1>7 DEF Owns
<1>12. Manned'
  BY <1>7 DEF IInv, Manned
<1> QED BY <1>6, <1>9, <1>10, <1>11, <1>12, NothingHonest DEF IInv

-----------------------------------------------------------------------------
(******************** The pool and the users by hand ***********************)

LEMMA AcquireKeeps ==
    ASSUME IInv, NEW c \in Calls, NEW t \in Types, Acquire(c, t) PROVE IInv'
<1> DEFINE k == [Idle EXCEPT !.pc = "acquired", !.type = t, !.agent = Oldest(t)]
<1>1. Ended(c) /\ call' = [call EXCEPT ![c] = k] /\ returned' = Nothing
      /\ pool' = pool /\ agent' = agent /\ disturbed' = disturbed
  BY DEF Acquire
<1>2. Oldest(t) \in AgentIds /\ agent[Oldest(t)].type = t
  BY OldestIsAvailable DEF Acquire, IInv
<1>3. /\ k \in CallRecords /\ k.pc = "acquired" /\ k.type = t
      /\ k.agent = Oldest(t) /\ k.spent = 0 /\ k.total = 0
  <2>1. Idle.total = 0
    BY DEF Idle, NewCall
  <2> QED BY <1>2, <2>1, IdleFits DEF CallRecords
<1> HIDE DEF k
<1>4. Fits(k)
  BY <1>2, <1>3 DEF Fits
<1>5. /\ call' \in [Calls -> CallRecords] /\ Course'
      /\ call'[c] = k /\ \A d \in Calls \ {c} : call'[d] = call[d]
  BY <1>1, <1>3, <1>4, CallRewritten
<1>6. Typed'
  BY <1>1, <1>5, NothingHonest DEF IInv, Typed
<1>7. Held'
  BY <1>1, <1>2, <1>3, <1>5 DEF IInv, Held, Ended
<1>8. Own'
  <2> SUFFICES ASSUME NEW d \in Calls, d \notin disturbed',
                      call'[d].pc \notin {"idle", "acquired"}
               PROVE  Owns(d)'
    BY DEF Own
  <2>1. d # c /\ call'[d] = call[d] /\ Owns(d)
    BY <1>1, <1>3, <1>5 DEF IInv, Own
  <2>2. \A e \in Calls \ {d} : e \notin Hurt(call[d].agent)'
    BY <2>1, <1>3, <1>5 DEF Owns, Hurt, Holds, Ended
  <2> QED BY <2>1, <2>2, <1>1 DEF Owns, Executing
<1>9. Manned'
  <2>1. \A d \in Calls : Executing(d) \/ call[d].pc = "accepted" => call'[d] = call[d]
    BY <1>1, <1>5 DEF Executing, Ended
  <2> QED BY <2>1, <1>1 DEF IInv, Manned, Executing
<1> QED BY <1>1, <1>5, <1>6, <1>7, <1>8, <1>9, NothingHonest DEF IInv

LEMMA AcceptKeeps ==
    ASSUME IInv, NEW c \in Calls, Accept(c) PROVE IInv'
<1> DEFINE a == call[c].agent
<1>0. call[c].pc = "acquired" /\ ~Ended(c)
  BY DEF Accept, Ended
<1>1. CASE agent[a].state # "IDLE" /\ EndsWithout(c, "lifecycle_error")
  BY <1>0, <1>1, EndsWithoutKeeps DEF Results
<1>2. CASE ~ (agent[a].state # "IDLE" /\ EndsWithout(c, "lifecycle_error"))
  <2> DEFINE x == [agent[a] EXCEPT !.state = "ACCEPTING", !.tracker = TRUE,
                                   !.used = 0]
             k == [call[c] EXCEPT !.pc = "accepted"]
  <2>1. /\ agent[a].state = "IDLE" /\ call' = [call EXCEPT ![c] = k]
        /\ returned' = Nothing /\ pool' = pool
        /\ disturbed' = IF \E d \in Calls \ {c} : d \in Hurt(a)
                           THEN disturbed \cup {c} ELSE disturbed
    BY <1>2 DEF Accept
  <2>2. /\ a \in AgentIds /\ agent[a] \in AgentRecords /\ call[c] \in CallRecords
        /\ agent[a].type = call[c].type /\ Fits(call[c]) /\ call[c].type \in Types
    BY <1>0, InHand
  <2>3. agent' = [agent EXCEPT ![a] = x]
    BY <1>2, <2>2 DEF Accept, IInv, Typed
  <2>4. /\ x \in AgentRecords /\ x.type = agent[a].type /\ x.state = "ACCEPTING"
        /\ x.tracker /\ x.used = 0
    <3> HIDE DEF a
    <3> QED BY <2>2, BegunTyped
  <2> HIDE DEF x
  <2>5. k \in CallRecords /\ k.pc = "accepted" /\ k.agent = a
        /\ k.type = call[c].type /\ k.total = call[c].total /\ k.spent = call[c].spent
    BY <2>2 DEF CallRecords
  <2> HIDE DEF k
  <2>6. Fits(k)
    BY <1>0, <2>2, <2>5 DEF Fits
  <2>7. /\ call' \in [Calls -> CallRecords] /\ Course'
        /\ call'[c] = k /\ \A d \in Calls \ {c} : call'[d] = call[d]
    BY <2>1, <2>5, <2>6, CallRewritten
  <2>8. /\ agent' \in [AgentIds -> AgentRecords] /\ agent'[a] = x
        /\ \A b \in AgentIds \ {a} : agent'[b] = agent[b]
    BY <2>2, <2>3, <2>4 DEF IInv, Typed
  <2>9. Typed'
    BY <2>1, <2>7, <2>8, NothingHonest DEF IInv, Typed
  <2>10. Held'
    <3>1. \A b \in AgentIds : agent'[b].type = agent[b].type
      BY <2>4, <2>8
    <3>2. \A d \in Calls : call'[d].agent = call[d].agent
          /\ call'[d].type = call[d].type /\ (~Ended(d)' => ~Ended(d))
      BY <1>0, <2>5, <2>7 DEF Ended
    <3> QED BY <3>1, <3>2, InHand DEF IInv, Held
  <2>11. Own'
    <3> SUFFICES ASSUME NEW d \in Calls, d \notin disturbed',
                        call'[d].pc \notin {"idle", "acquired"}
                 PROVE  Owns(d)'
      BY DEF Own
    <3>1. CASE d = c
      <4>1. \A e \in Calls \ {c} : e \notin Hurt(a)
        BY <3>1, <2>1
      <4>2. \A e \in Calls \ {c} : e \notin Hurt(a)'
        BY <4>1, <2>5, <2>7 DEF Hurt, Holds, Ended
      <4> QED BY <3>1, <4>2, <2>4, <2>5, <2>7, <2>8 DEF Owns, Executing
    <3>2. CASE d # c
      <4>1. call'[d] = call[d] /\ ~Ended(d) /\ call[d].agent \in AgentIds
            /\ Owns(d) /\ call[d].pc \notin {"idle", "acquired"}
        BY <3>2, <2>1, <2>7, InHand DEF IInv, Own, Ended
      <4>2. call[d].agent # a
        <5>1. call[d].pc \in {"accepted", "asking", "executing", "polling"}
          BY <4>1 DEF IInv, Typed, CallRecords
        <5> QED BY <5>1, <4>1, <2>1 DEF Owns, Executing
      <4>3. agent'[call'[d].agent] = agent[call[d].agent]
        BY <4>1, <4>2, <2>8
      <4>4. \A e \in Calls \ {d} : e \notin Hurt(call[d].agent)'
        BY <4>1, <4>2, <2>5, <2>7 DEF Owns, Hurt, Holds, Ended
      <4> QED BY <4>1, <4>3, <4>4 DEF Owns, Executing
    <3> QED BY <3>1, <3>2
  <2>12. Manned'
    <3> SUFFICES ASSUME NEW b \in AgentIds
                 PROVE  /\ agent'[b].state = "EXECUTING" =>
                             \E d \in Calls : Executing(d)' /\ call'[d].agent = b
                        /\ agent'[b].state = "ACCEPTING" /\ ~agent'[b].left =>
                             \E d \in Calls :
                                call'[d].pc = "accepted" /\ call'[d].agent = b
      BY DEF Manned
    <3>1. CASE b = a
      BY <3>1, <2>4, <2>5, <2>7, <2>8
    <3>2. CASE b # a
      <4>1. \A d \in Calls : Executing(d) \/ call[d].pc = "accepted"
                => call'[d] = call[d]
        BY <1>0, <2>7 DEF Executing
      <4> QED BY <3>2, <4>1, <2>8 DEF IInv, Manned, Executing
    <3> QED BY <3>1, <3>2
  <2> QED BY <2>1, <2>7, <2>9, <2>10, <2>11, <2>12, NothingHonest DEF IInv
<1> QED BY <1>1, <1>2

LEMMA ExecuteKeeps ==
    ASSUME IInv, NEW c \in Calls, Execute(c) PROVE IInv'
<1> DEFINE a == call[c].agent
<1>0. call[c].pc = "accepted" /\ ~Ended(c)
  BY DEF Execute, Ended
<1>1. CASE agent[a].state # "ACCEPTING" /\ EndsWithout(c, "lifecycle_error")
  BY <1>0, <1>1, EndsWithoutKeeps DEF Results
<1>2. CASE ~ (agent[a].state # "ACCEPTING" /\ EndsWithout(c, "lifecycle_error"))
  <2> DEFINE x == [agent[a] EXCEPT !.state = "EXECUTING"]
             k == NewCall(call[c].type, a)
  <2>1. /\ agent[a].state = "ACCEPTING" /\ call' = [call EXCEPT ![c] = k]
        /\ returned' = Nothing /\ pool' = pool /\ disturbed' = disturbed
    BY <1>2 DEF Execute
  <2>2. /\ a \in AgentIds /\ agent[a] \in AgentRecords /\ call[c] \in CallRecords
        /\ agent[a].type = call[c].type /\ Fits(call[c]) /\ call[c].type \in Types
    BY <1>0, InHand
  <2>3. agent' = [agent EXCEPT ![a] = x]
    BY <1>2, <2>2 DEF Execute, IInv, Typed
  <2>4. /\ x \in AgentRecords /\ x.type = agent[a].type /\ x.state = "EXECUTING"
        /\ x.tracker = agent[a].tracker /\ x.used = agent[a].used
    <3> HIDE DEF a
    <3> QED BY <2>2 DEF AgentRecords
  <2> HIDE DEF x
  <2>5. k \in CallRecords /\ Fits(k) /\ k.pc = "asking" /\ k.agent = a
        /\ k.type = call[c].type /\ k.total = 0
    <3> HIDE DEF a
    <3> QED BY <2>2, NewCallFits
  <2> HIDE DEF k
  <2>7. /\ call' \in [Calls -> CallRecords] /\ Course'
        /\ call'[c] = k /\ \A d \in Calls \ {c} : call'[d] = call[d]
    BY <2>1, <2>5, CallRewritten
  <2>8. /\ agent' \in [AgentIds -> AgentRecords] /\ agent'[a] = x
        /\ \A b \in AgentIds \ {a} : agent'[b] = agent[b]
    BY <2>2, <2>3, <2>4 DEF IInv, Typed
  <2>9. Typed'
    BY <2>1, <2>7, <2>8, NothingHonest DEF IInv, Typed
  <2>6. \A d \in Calls : call'[d].agent = call[d].agent
        /\ call'[d].type = call[d].type /\ (Ended(d)' <=> Ended(d))
        /\ (call'[d].pc = "acquired" <=> call[d].pc = "acquired")
    BY <1>0, <2>5, <2>7 DEF Ended
  <2>10. Held'
    <3>1. \A b \in AgentIds : agent'[b].type = agent[b].type
      BY <2>4, <2>8
    <3> QED BY <3>1, <2>6, InHand DEF IInv, Held
  <2>11. Own'
    <3> SUFFICES ASSUME NEW d \in Calls, d \notin disturbed',
                        call'[d].pc \notin {"idle", "acquired"}
                 PROVE  Owns(d)'
      BY DEF Own
    <3>1. Owns(d) /\ ~Ended(d) /\ call[d].agent \in AgentIds
      BY <2>1, <2>6, InHand DEF IInv, Own, Ended
    <3>2. \A e \in Calls \ {d} : e \notin Hurt(call[d].agent)'
      BY <3>1, <2>6 DEF Owns, Hurt, Holds
    <3>3. CASE d = c
      BY <3>1, <3>2, <3>3, <1>0, <2>4, <2>5, <2>7, <2>8 DEF Owns, Executing
    <3>4. CASE d # c
      <4>1. call[d].agent # a
        <5>1. c \in Hurt(a)
          BY <1>0 DEF Hurt, Holds
        <5> QED BY <3>1, <3>4, <5>1 DEF Owns
      <4>2. agent'[call'[d].agent] = agent[call[d].agent] /\ call'[d] = call[d]
        BY <3>1, <3>4, <4>1, <2>7, <2>8
      <4> QED BY <3>1, <3>2, <4>2 DEF Owns, Executing
    <3> QED BY <3>3, <3>4
  <2>12. Manned'
    <3> SUFFICES ASSUME NEW b \in AgentIds
                 PROVE  /\ agent'[b].state = "EXECUTING" =>
                             \E d \in Calls : Executing(d)' /\ call'[d].agent = b
                        /\ agent'[b].state = "ACCEPTING" /\ ~agent'[b].left =>
                             \E d \in Calls :
                                call'[d].pc = "accepted" /\ call'[d].agent = b
      BY DEF Manned
    <3>1. CASE b = a
      BY <3>1, <2>4, <2>5, <2>7, <2>8 DEF Executing
    <3>2. CASE b # a
      <4>1. \A d \in Calls : (Executing(d) \/ call[d].pc = "accepted")
               /\ call[d].agent = b => call'[d] = call[d]
        BY <3>2, <2>7 DEF Executing
      <4> QED BY <3>2, <4>1, <2>8 DEF IInv, Manned, Executing
    <3> QED BY <3>1, <3>2
  <2> QED BY <2>1, <2>7, <2>9, <2>10, <2>11, <2>12, NothingHonest DEF IInv
<1> QED BY <1>1, <1>2

LEMMA RegisterKeeps ==
    ASSUME IInv, NEW t \in WiredTypes, Register(t) PROVE IInv'
<1> DEFINE a == Fresh
           x == [NoAgent EXCEPT !.type = t, !.adapter = t = "fabric"]
<1>1. ~Full /\ pool' = Append(pool, a) /\ agent' = [agent EXCEPT ![a] = x]
      /\ returned' = Nothing /\ call' = call /\ disturbed' = disturbed
  BY DEF Register
<1>2. a \in AgentIds /\ a \notin Members /\ \A c \in Calls : ~Holds(c, a)
  BY <1>1, FreshForPool DEF IInv
<1>3. x \in AgentRecords /\ x.state = "IDLE"
  <2>1. t \in Types
    BY DEF WiredTypes, Types, FactoryTypes
  <2>2. [NoAgent EXCEPT !.type = t] \in AgentRecords
    BY <2>1, NoAgentTyped DEF AgentRecords
  <2>3. \A m \in AgentRecords, y \in BOOLEAN : [m EXCEPT !.adapter = y] \in AgentRecords
    BY DEF AgentRecords
  <2>4. x = [[NoAgent EXCEPT !.type = t] EXCEPT !.adapter = t = "fabric"]
    BY NoAgentTyped DEF AgentRecords
  <2>5. x.state = "IDLE"
    BY DEF NoAgent
  <2>6. x \in AgentRecords
    <3> HIDE DEF x
    <3> QED BY <2>2, <2>3, <2>4
  <2> QED BY <2>5, <2>6
<1> HIDE DEF a, x
<1>4. /\ agent' \in [AgentIds -> AgentRecords] /\ agent'[a] = x
      /\ \A b \in AgentIds \ {a} : agent'[b] = agent[b]
  BY <1>1, <1>2, <1>3 DEF IInv, Typed
<1>5. pool' \in Seq(AgentIds) /\ Len(pool') <= MaxPoolSize /\ Injective(pool')
  <2>1. pool \in Seq(AgentIds) /\ Injective(pool)
    BY DEF IInv, Typed
  <2>2. \A i \in DOMAIN pool : pool[i] # a
    BY <1>2 DEF Members
  <2>3. pool' \in Seq(AgentIds) /\ Len(pool') = Len(pool) + 1
    BY <1>1, <1>2, <2>1, Appends
  <2>4. Len(pool) + 1 <= MaxPoolSize
    BY <1>1, <2>1, Domains DEF Full
  <2> QED BY <1>1, <1>2, <2>1, <2>2, <2>3, <2>4, AppendedInjective
<1>6. Typed'
  BY <1>1, <1>4, <1>5, NothingHonest DEF IInv, Typed
<1>7. Course' /\ Honest(returned')
  BY <1>1, NothingHonest DEF IInv, Course
<1>8. \A c \in Calls : ~Ended(c) => agent'[call[c].agent] = agent[call[c].agent]
  BY <1>2, <1>4, InHand DEF Holds
<1>9. Held'
  BY <1>1, <1>8 DEF IInv, Held, Ended
<1>10. Own'
  BY <1>1, <1>8 DEF IInv, Own, Owns, Executing, Hurt, Holds, Ended
<1>11. Manned'
  BY <1>1, <1>3, <1>4 DEF IInv, Manned, Executing
<1> QED BY <1>6, <1>7, <1>9, <1>10, <1>11 DEF IInv

LEMMA UnregisterKeeps ==
    ASSUME IInv, NEW a \in AgentIds, Unregister(a) PROVE IInv'
<1>1. PICK i \in DOMAIN pool : pool[i] = a /\ pool' = RemoveAt(pool, i)
  BY DEF Unregister
<1>2. /\ agent' = IF \E c \in Calls : Holds(c, a)
                     THEN agent ELSE [agent EXCEPT ![a] = NoAgent]
      /\ returned' = Nothing /\ call' = call /\ disturbed' = disturbed
  BY DEF Unregister
<1>3. pool' \in Seq(AgentIds) /\ Len(pool') <= MaxPoolSize /\ Injective(pool')
  <2>1. pool \in Seq(AgentIds) /\ Injective(pool) /\ Len(pool) <= MaxPoolSize
    BY DEF IInv, Typed
  <2>2. pool' \in Seq(AgentIds) /\ Len(pool') = Len(pool) - 1
    BY <1>1, <2>1, RemovedAt
  <2>3. Len(pool) \in Nat /\ MaxPoolSize \in Nat
    BY <2>1, Domains
  <2> QED BY <1>1, <2>1, <2>2, <2>3, RemovedInjective
<1>4. agent' \in [AgentIds -> AgentRecords]
      /\ \A b \in AgentIds :
            \/ agent'[b] = agent[b]
            \/ agent'[b] = NoAgent /\ b = a /\ \A c \in Calls : ~Holds(c, a)
  <2>1. agent \in [AgentIds -> AgentRecords]
    BY DEF IInv, Typed
  <2>2. CASE \E c \in Calls : Holds(c, a)
    <3>1. agent' = agent
      BY <1>2, <2>2
    <3> QED BY <2>1, <3>1
  <2>3. CASE ~ \E c \in Calls : Holds(c, a)
    <3>1. agent' = [agent EXCEPT ![a] = NoAgent]
      BY <1>2, <2>3
    <3> QED BY <2>1, <2>3, <3>1, NoAgentTyped
  <2> QED BY <2>2, <2>3
<1>5. Typed'
  BY <1>2, <1>3, <1>4, NothingHonest DEF IInv, Typed
<1>6. Course' /\ Honest(returned')
  BY <1>2, NothingHonest DEF IInv, Course
<1>7. \A c \in Calls : ~Ended(c) => agent'[call[c].agent] = agent[call[c].agent]
  BY <1>4, InHand DEF Holds
<1>8. Held'
  BY <1>2, <1>7 DEF IInv, Held, Ended
<1>9. Own'
  BY <1>2, <1>7 DEF IInv, Own, Owns, Executing, Hurt, Holds, Ended
<1>10. Manned'
  BY <1>2, <1>4 DEF IInv, Manned, Executing, NoAgent
<1> QED BY <1>5, <1>6, <1>8, <1>9, <1>10 DEF IInv

LEMMA ReleaseKeeps ==
    ASSUME IInv, NEW a \in AgentIds, ReleaseAgent(a) PROVE IInv'
<1> DEFINE x == [agent[a] EXCEPT !.state = "IDLE", !.tracker = FALSE, !.used = 0,
                                 !.left = FALSE]
<1>1. /\ agent' = [agent EXCEPT ![a] = x] /\ disturbed' = disturbed \cup Hurt(a)
      /\ returned' = Nothing /\ call' = call /\ pool' = pool
  BY DEF ReleaseAgent, Reset, IInv, Typed
<1>2. x \in AgentRecords /\ x.type = agent[a].type /\ x.state = "IDLE"
  <2>1. agent[a] \in AgentRecords
    BY DEF IInv, Typed
  <2> QED BY <2>1, ResetTyped
<1> HIDE DEF x
<1>3. /\ agent' \in [AgentIds -> AgentRecords] /\ agent'[a] = x
      /\ \A b \in AgentIds \ {a} : agent'[b] = agent[b]
  BY <1>1, <1>2 DEF IInv, Typed
<1>4. Typed'
  BY <1>1, <1>3, NothingHonest DEF IInv, Typed, Hurt
<1>5. Course' /\ Honest(returned')
  BY <1>1, NothingHonest DEF IInv, Course
<1>6. \A b \in AgentIds : agent'[b].type = agent[b].type
  BY <1>2, <1>3
<1>7. Held'
  BY <1>1, <1>6, InHand DEF IInv, Held, Ended
<1>8. Own'
  <2> SUFFICES ASSUME NEW d \in Calls, d \notin disturbed',
                      call[d].pc \notin {"idle", "acquired"}
               PROVE  Owns(d)'
    BY <1>1 DEF Own
  <2>1. Owns(d) /\ ~Ended(d) /\ call[d].agent \in AgentIds /\ call[d].agent # a
    BY <1>1, InHand DEF IInv, Own, Ended, Hurt, Holds
  <2>2. agent'[call[d].agent] = agent[call[d].agent]
    BY <2>1, <1>3
  <2> QED BY <2>1, <2>2, <1>1 DEF Owns, Executing, Hurt, Holds, Ended
<1>9. Manned'
  BY <1>1, <1>2, <1>3 DEF IInv, Manned, Executing
<1> QED BY <1>4, <1>5, <1>7, <1>8, <1>9 DEF IInv

-----------------------------------------------------------------------------
(*********************** One request to the model **************************)

\* The call when it has the response, and what it knows of its tracker.
LEMMA Hearing ==
    ASSUME IInv, NEW c \in Calls, call[c].pc = "asking", NEW r \in Responses
    PROVE  /\ Executing(c) /\ r.tokens \in Nat
           /\ call[c].total \in Nat /\ call[c].spent = call[c].total
           /\ call[c].actions = <<>> /\ call[c].created = <<>>
           /\ call[c] \in CallRecords /\ Used(c) \in 0..Budget
           /\ c \notin disturbed => Tracked(c) /\ Used(c) = call[c].total
<1>1. Executing(c) /\ ~Ended(c)
  BY DEF Executing, Ended
<1>2. r.tokens \in Nat
  BY Domains DEF Responses
<1>3. call[c] \in CallRecords /\ Fits(call[c])
      /\ agent[call[c].agent] \in AgentRecords
  BY <1>1, InHand
<1>4. c \notin disturbed => Owns(c)
  BY <1>1 DEF IInv, Own
<1>5. call[c].total \in Nat /\ Used(c) \in 0..Budget
  BY <1>3 DEF CallRecords, AgentRecords, Used
<1>6. /\ call[c].spent = call[c].total
      /\ call[c].actions = <<>> /\ call[c].created = <<>>
  BY <1>3 DEF Fits
<1>7. c \notin disturbed => Tracked(c) /\ Used(c) = call[c].total
  BY <1>1, <1>4 DEF Owns, Tracked, Used
<1> QED BY <1>1, <1>2, <1>3, <1>5, <1>6, <1>7

LEMMA HeardTyped ==
    ASSUME IInv, NEW c \in Calls, call[c].pc = "asking", NEW r \in Responses
    PROVE  /\ Heard(c, r) \in CallRecords
           /\ Heard(c, r).spent = call[c].total + r.tokens
           /\ Heard(c, r).actions = <<>> /\ Heard(c, r).created = <<>>
           /\ Counted(c, r) \in CallRecords
           /\ Counted(c, r).spent = call[c].total + r.tokens
           /\ Counted(c, r).total = call[c].total + r.tokens
           /\ Counted(c, r).actions = <<>> /\ Counted(c, r).created = <<>>
           /\ Counted(c, r).pc = "asking" /\ Counted(c, r).type = call[c].type
           /\ Counted(c, r).agent = call[c].agent
           /\ Counted(c, r).attempt = call[c].attempt
<1> DEFINE k == call[c]
           n == r.tokens
<1>1. k \in CallRecords /\ n \in Nat /\ k.total \in Nat /\ k.spent = k.total
      /\ k.actions = <<>> /\ k.created = <<>> /\ k.pc = "asking"
  BY Hearing
<1>2. Heard(c, r) = [k EXCEPT !.spent = k.spent + n]
  BY DEF Heard
<1>3. Counted(c, r) = [Heard(c, r) EXCEPT !.total = Heard(c, r).total + n]
  BY DEF Counted
<1> HIDE DEF k, n
<1>4. /\ Heard(c, r) \in CallRecords /\ Heard(c, r).spent = k.total + n
      /\ Heard(c, r).actions = <<>> /\ Heard(c, r).created = <<>>
      /\ Heard(c, r).pc = "asking" /\ Heard(c, r).type = k.type
      /\ Heard(c, r).agent = k.agent /\ Heard(c, r).attempt = k.attempt
      /\ Heard(c, r).total = k.total
  <2>1. k.spent + n \in Nat
    BY <1>1
  <2>2. Heard(c, r) \in CallRecords
    BY <1>1, <1>2, <2>1 DEF CallRecords
  <2>3. /\ Heard(c, r).spent = k.spent + n
        /\ Heard(c, r).actions = k.actions /\ Heard(c, r).created = k.created
        /\ Heard(c, r).pc = k.pc /\ Heard(c, r).type = k.type
        /\ Heard(c, r).agent = k.agent /\ Heard(c, r).attempt = k.attempt
        /\ Heard(c, r).total = k.total
    BY <1>1, <1>2 DEF CallRecords
  <2> QED BY <1>1, <2>2, <2>3
<1>5. /\ Counted(c, r) \in CallRecords /\ Counted(c, r).spent = k.total + n
      /\ Counted(c, r).total = k.total + n
      /\ Counted(c, r).actions = <<>> /\ Counted(c, r).created = <<>>
      /\ Counted(c, r).pc = "asking" /\ Counted(c, r).type = k.type
      /\ Counted(c, r).agent = k.agent /\ Counted(c, r).attempt = k.attempt
  BY <1>1, <1>3, <1>4 DEF CallRecords
<1> QED BY <1>4, <1>5 DEF k, n

\* A result is honest if the call was disturbed or its tokens are counted, and
\* if its actions are what was created, or all but the last of it.
LEMMA HonestResult ==
    ASSUME NEW result, NEW reported, NEW new \in CallRecords, NEW hurt \in BOOLEAN,
           hurt \/ reported = new.spent,
           hurt \/ new.spent <= Budget \/ result = "escalated",
           \/ new.actions = new.created
           \/ /\ result # "success" /\ Len(new.created) # 0
              /\ new.actions = SubSeq(new.created, 1, Len(new.created) - 1)
    PROVE  Honest(Result(result, reported, new, hurt))
<1> DEFINE r == Result(result, reported, new, hurt)
<1>1. /\ r.result = result /\ r.reported = reported /\ r.spent = new.spent
      /\ r.actions = new.actions /\ r.created = new.created
  BY DEF Result
<1>2. r.disturbed = hurt
  BY DEF Result
<1> HIDE DEF r
<1>3. new.spent \in Nat /\ new.created \in Seq(Operations)
  BY DEF CallRecords
<1>4. /\ r.spent > Budget /\ ~r.disturbed => r.result = "escalated"
      /\ ~r.disturbed => r.reported = r.spent
  <2>1. CASE hurt
    BY <2>1, <1>2
  <2>2. CASE ~hurt
    <3>1. r.reported = r.spent
      BY <2>2, <1>1
    <3>2. r.spent > Budget => r.result = "escalated"
      BY <2>2, <1>1, <1>3, Domains
    <3> QED BY <3>1, <3>2
  <2> QED BY <2>1, <2>2
<1>5. r.result = "success" => r.actions = r.created
  BY <1>1
<1>6. \E m \in {Len(r.created), Len(r.created) - 1} :
          r.actions = SubSeq(r.created, 1, m)
  BY <1>1, <1>3, WholeSeq
<1> QED BY <1>4, <1>5, <1>6 DEF Honest, r

\* The budget is respected if there still is a tracker.
Counts(c, r) == Tracked(c) => Used(c) + r.tokens <= Budget

LEMMA AnswerEndsKeeps ==
    ASSUME IInv, NEW c \in Calls, call[c].pc = "asking", NEW r \in Responses,
           NEW result \in Results, NEW reported \in Nat, NEW new \in CallRecords,
           Ends(c, result, reported, new),
           new.actions = <<>> /\ new.created = <<>>,
           c \notin disturbed => reported = new.spent,
           c \notin disturbed => new.spent <= Budget \/ result = "escalated"
    PROVE  IInv'
<1>1. Executing(c)
  BY Hearing
<1>2. (c \in disturbed) \in BOOLEAN
  OBVIOUS
<1>3. Honest(Result(result, reported, new, c \in disturbed))
  BY <1>2, HonestResult
<1> QED BY <1>1, <1>3, EndsKeeps

LEMMA ConsumeRaisesKeeps ==
    ASSUME IInv, NEW c \in Calls, call[c].pc = "asking", NEW r \in Responses,
           ConsumeRaises(c, r)
    PROVE  IInv'
<1>1. Ends(c, "failed", Used(c), Heard(c, r)) /\ (~Tracked(c) \/ r.tokens = 0)
  BY DEF ConsumeRaises, Raises
<1>2. c \notin disturbed => Used(c) = Heard(c, r).spent /\ Heard(c, r).spent <= Budget
  BY <1>1, Hearing, HeardTyped, Domains
<1>3. Used(c) \in Nat /\ "failed" \in Results
  BY Hearing, Domains DEF Results
<1> QED BY <1>1, <1>2, <1>3, HeardTyped, AnswerEndsKeeps

LEMMA ExhaustsKeeps ==
    ASSUME IInv, NEW c \in Calls, call[c].pc = "asking", NEW r \in Responses,
           Exhausts(c, r)
    PROVE  IInv'
<1>1. Ends(c, "escalated", call[c].total + r.tokens, Heard(c, r))
  BY DEF Exhausts
<1>2. call[c].total + r.tokens \in Nat /\ "escalated" \in Results
  BY Hearing DEF Results
<1> QED BY <1>1, <1>2, HeardTyped, AnswerEndsKeeps

\* Every way to end with the response counted.
LEMMA CountedEndsKeeps ==
    ASSUME IInv, NEW c \in Calls, call[c].pc = "asking", NEW r \in Responses,
           Counts(c, r), NEW result \in Results,
           Ends(c, result, Counted(c, r).total, Counted(c, r))
    PROVE  IInv'
<1>1. Counted(c, r).total \in Nat /\ Counted(c, r).total = Counted(c, r).spent
  BY Hearing, HeardTyped
<1>2. c \notin disturbed => Counted(c, r).spent <= Budget
  BY Hearing, HeardTyped DEF Counts
<1> QED BY <1>1, <1>2, HeardTyped, AnswerEndsKeeps

LEMMA AsksAgainKeeps ==
    ASSUME IInv, NEW c \in Calls, call[c].pc = "asking", NEW r \in Responses,
           Counts(c, r), AsksAgain(c, r)
    PROVE  IInv'
<1> DEFINE n == Counted(c, r)
           k == [n EXCEPT !.attempt = n.attempt + 1]
<1>1. /\ call' = [call EXCEPT ![c] = k] /\ call[c].attempt < MAX_SELF_CORRECTIONS
      /\ agent' = [agent EXCEPT ![call[c].agent].used = UsedAfter(c, r)]
      /\ returned' = Nothing /\ UNCHANGED <<pool, disturbed>>
  BY DEF AsksAgain
<1>2. n \in CallRecords /\ n.attempt = call[c].attempt /\ n.pc = "asking"
      /\ n.agent = call[c].agent /\ n.type = call[c].type
      /\ n.total = call[c].total + r.tokens /\ n.spent = n.total
      /\ n.actions = <<>> /\ n.created = <<>>
  BY HeardTyped
<1>3. n.attempt + 1 \in 1..MAX_SELF_CORRECTIONS
  BY <1>1, <1>2, Domains DEF CallRecords
<1> HIDE DEF n
<1>4. k \in CallRecords /\ k.pc = "asking" /\ k.agent = n.agent
      /\ k.type = n.type /\ k.total = n.total /\ k.spent = n.spent
      /\ k.actions = <<>> /\ k.created = <<>>
  BY <1>2, <1>3 DEF CallRecords
<1> HIDE DEF k
<1>5. ~Ended(c)
  BY DEF Ended
<1>6. Fits(k)
  BY <1>2, <1>4, <1>5, InHand DEF Fits
<1> QED BY <1>1, <1>2, <1>4, <1>6, CountingKeeps DEF Counts

LEMMA DeliversKeeps ==
    ASSUME IInv, NEW c \in Calls, call[c].pc = "asking", NEW r \in Responses,
           Counts(c, r), Delivers(c, r)
    PROVE  IInv'
<1>1. "success" \in Results
  BY DEF Results
<1> QED BY <1>1, CountedEndsKeeps DEF Delivers

LEMMA GivesUpKeeps ==
    ASSUME IInv, NEW c \in Calls, call[c].pc = "asking", NEW r \in Responses,
           Counts(c, r), GivesUp(c, r)
    PROVE  IInv'
<1>1. "escalated" \in Results
  BY DEF Results
<1> QED BY <1>1, CountedEndsKeeps DEF GivesUp

LEMMA LlmFailsKeeps ==
    ASSUME IInv, NEW c \in Calls, LlmFails(c) PROVE IInv'
<1> DEFINE r == [tokens |-> 0, content |-> "valid"]
<1>1. r \in Responses /\ r.tokens = 0
  BY Domains DEF Responses
<1> HIDE DEF r
<1>2. call[c].pc = "asking" /\ Ends(c, "escalated", call[c].total, call[c])
  BY DEF LlmFails
<1>3. "escalated" \in Results
  BY DEF Results
<1> QED BY <1>1, <1>2, <1>3, Hearing, AnswerEndsKeeps

-----------------------------------------------------------------------------
(**************************** The programs *********************************)

\* A plan that a call can carry out: a Fabric job, or operations that are none.
Feasible(p) ==
    /\ p \in Seq(Operations)
    /\ Len(p) <= MostOperations
    /\ p = <<"submit_job">> \/ \A i \in DOMAIN p : p[i] # "submit_job"

LEMMA TimesIs ==
    ASSUME NEW n \in Nat, NEW op \in Operations
    PROVE  /\ Times(n, op) \in Seq(Operations) /\ Len(Times(n, op)) = n
           /\ \A i \in 1..n : Times(n, op)[i] = op
BY DEF Times

\* Two plans without a Fabric job make one.
LEMMA JoinedFeasible ==
    ASSUME NEW p \in Seq(Operations), NEW q \in Seq(Operations),
           \A i \in DOMAIN p : p[i] # "submit_job",
           \A i \in DOMAIN q : q[i] # "submit_job"
    PROVE  /\ p \o q \in Seq(Operations) /\ Len(p \o q) = Len(p) + Len(q)
           /\ \A i \in DOMAIN (p \o q) : (p \o q)[i] # "submit_job"
<1>1. p \o q \in Seq(Operations) /\ Len(p \o q) = Len(p) + Len(q)
  OBVIOUS
<1>2. Len(p) \in Nat /\ Len(q) \in Nat
  OBVIOUS
<1>3. ASSUME NEW i \in 1..(Len(p) + Len(q)) PROVE (p \o q)[i] # "submit_job"
  <2>1. (p \o q)[i] = IF i <= Len(p) THEN p[i] ELSE q[i - Len(p)]
    BY Joined
  <2>2. i <= Len(p) => i \in DOMAIN p
    BY <1>2
  <2>3. ~ (i <= Len(p)) => i - Len(p) \in DOMAIN q
    BY <1>2
  <2> QED BY <2>1, <2>2, <2>3
<1>4. DOMAIN (p \o q) = 1..(Len(p) + Len(q))
  BY <1>1
<1> QED BY <1>1, <1>3, <1>4

LEMMA PlansFeasible ==
    /\ \A p \in IngestionPlans : Feasible(p)
    /\ \A p \in ETLPlans : Feasible(p)
    /\ \A p \in JobSchedulerPlans : Feasible(p)
    /\ \A p \in CatalogPlans : Feasible(p)
    /\ Feasible(<<"submit_job">>)
<1>0. MaxStatements \in Nat /\ MostOperations = 2 * MaxStatements + 3
      /\ MostOperations \in Nat /\ 1 <= MostOperations
      /\ 2 <= MostOperations /\ 3 <= MostOperations
  BY Domains DEF MostOperations
<1>1. ASSUME NEW n \in Nat, NEW op \in Operations \ {"submit_job"}
      PROVE  /\ Times(n, op) \in Seq(Operations) /\ Len(Times(n, op)) = n
             /\ \A i \in DOMAIN Times(n, op) : Times(n, op)[i] # "submit_job"
  BY TimesIs
<1>2. /\ "create_table" \in Operations \ {"submit_job"}
      /\ "create_pipeline" \in Operations \ {"submit_job"}
      /\ "execute_pipeline" \in Operations \ {"submit_job"}
      /\ "create_job" \in Operations \ {"submit_job"}
      /\ "execute_job" \in Operations \ {"submit_job"}
      /\ "execute_sql" \in Operations \ {"submit_job"}
      /\ "create_shortcut" \in Operations \ {"submit_job"}
      /\ "submit_job" \in Operations
  BY DEF Operations
<1>3. ASSUME NEW op \in Operations \ {"submit_job"}
      PROVE  /\ <<op>> \in Seq(Operations) /\ Len(<<op>>) = 1
             /\ \A i \in DOMAIN <<op>> : <<op>>[i] # "submit_job"
  OBVIOUS
<1>4. ASSUME NEW x \in Operations \ {"submit_job"},
             NEW y \in Operations \ {"submit_job"}
      PROVE  /\ <<x, y>> \in Seq(Operations) /\ Len(<<x, y>>) = 2
             /\ \A i \in DOMAIN <<x, y>> : <<x, y>>[i] # "submit_job"
  OBVIOUS
<1>5. ASSUME NEW p \in IngestionPlans PROVE Feasible(p)
  <2>1. PICK n \in 0..1 :
           p = Times(n, "create_table") \o <<"create_pipeline", "execute_pipeline">>
    BY DEF IngestionPlans
  <2>2. /\ p \in Seq(Operations) /\ Len(p) = n + 2
        /\ \A i \in DOMAIN p : p[i] # "submit_job"
    BY <2>1, <1>1, <1>2, <1>4, JoinedFeasible
  <2> QED BY <2>2, <1>0 DEF Feasible
<1>6. ASSUME NEW p \in ETLPlans PROVE Feasible(p)
  <2>1. PICK n \in 0..MaxStatements :
           p = <<"create_pipeline">> \o Times(n, "create_table")
                 \o <<"execute_pipeline">>
    BY DEF ETLPlans
  <2> DEFINE q == <<"create_pipeline">> \o Times(n, "create_table")
  <2>2. n \in Nat
    BY <1>0
  <2>3. /\ q \in Seq(Operations) /\ Len(q) = 1 + n
        /\ \A i \in DOMAIN q : q[i] # "submit_job"
    BY <2>2, <1>1, <1>2, <1>3, JoinedFeasible
  <2>4. p = q \o <<"execute_pipeline">>
    BY <2>1
  <2> HIDE DEF q
  <2>5. /\ p \in Seq(Operations) /\ Len(p) = 1 + n + 1
        /\ \A i \in DOMAIN p : p[i] # "submit_job"
    BY <2>2, <2>3, <2>4, <1>2, <1>3, JoinedFeasible
  <2> QED BY <2>2, <2>5, <1>0 DEF Feasible
<1>7. ASSUME NEW p \in JobSchedulerPlans PROVE Feasible(p)
  <2>1. p = <<"create_job">> \/ p = <<"create_job", "execute_job">>
    BY DEF JobSchedulerPlans
  <2>2. /\ p \in Seq(Operations) /\ (Len(p) = 1 \/ Len(p) = 2)
        /\ \A i \in DOMAIN p : p[i] # "submit_job"
    <3>1. CASE p = <<"create_job">>
      BY <3>1, <1>2, <1>3
    <3>2. CASE p = <<"create_job", "execute_job">>
      BY <3>2, <1>2, <1>4
    <3> QED BY <2>1, <3>1, <3>2
  <2>3. Len(p) <= MostOperations
    BY <2>2, <1>0
  <2> QED BY <2>2, <2>3 DEF Feasible
<1>8. ASSUME NEW p \in CatalogPlans PROVE Feasible(p)
  <2>1. PICK n \in 0..MaxStatements, m \in 0..MaxStatements,
             op \in {"create_table", "create_shortcut"} :
           p = CatalogPlan(n, m, op)
    BY DEF CatalogPlans
  <2>2. n \in Nat /\ m \in Nat /\ op \in Operations \ {"submit_job"}
    BY <1>0, <1>2
  <2>3. /\ p \in Seq(Operations) /\ Len(p) = n + m
        /\ \A i \in DOMAIN p : p[i] # "submit_job"
    <3>1. p = Times(n, "execute_sql") \o Times(m, op)
      BY <2>1 DEF CatalogPlan
    <3> QED BY <3>1, <2>2, <1>1, <1>2, JoinedFeasible, SMTT(30)
  <2> QED BY <2>2, <2>3, <1>0 DEF Feasible
<1>9. Feasible(<<"submit_job">>)
  BY <1>0, <1>2 DEF Feasible
<1> QED BY <1>5, <1>6, <1>7, <1>8, <1>9

LEMMA GoesKeeps ==
    ASSUME IInv, NEW c \in Calls, call[c].pc = "asking", NEW r \in Responses,
           Counts(c, r), NEW plans, \A p \in plans : p = <<>> \/ Feasible(p),
           Goes(c, r, plans)
    PROVE  IInv'
<1>1. CASE Delivers(c, r)
  BY <1>1, DeliversKeeps
<1>2. CASE ~Delivers(c, r)
  <2>1. PICK p \in plans :
           /\ p # <<>>
           /\ call' = [call EXCEPT ![c] =
                 [Counted(c, r) EXCEPT !.pc = "executing", !.attempt = 1, !.plan = p]]
           /\ agent' = [agent EXCEPT ![call[c].agent].used = UsedAfter(c, r)]
           /\ returned' = Nothing /\ UNCHANGED <<pool, disturbed>>
    BY <1>2 DEF Goes
  <2> DEFINE n == Counted(c, r)
             k == [n EXCEPT !.pc = "executing", !.attempt = 1, !.plan = p]
  <2>2. n \in CallRecords /\ n.agent = call[c].agent /\ n.type = call[c].type
        /\ n.total = call[c].total + r.tokens /\ n.spent = n.total
        /\ n.actions = <<>> /\ n.created = <<>>
    BY HeardTyped
  <2> HIDE DEF n
  <2>3. Feasible(p)
    BY <2>1
  <2>4. k \in CallRecords
    <3>1. p \in Seq(Operations) /\ 1 \in 1..MAX_SELF_CORRECTIONS
      BY <2>3, Domains DEF Feasible
    <3>2. ASSUME NEW z \in 1..MAX_SELF_CORRECTIONS, NEW q \in Seq(Operations)
          PROVE  [n EXCEPT !.pc = "executing", !.attempt = z, !.plan = q]
                    \in CallRecords
      BY <2>2 DEF CallRecords
    <3> QED BY <3>1, <3>2
  <2>5. /\ k.pc = "executing" /\ k.agent = n.agent /\ k.type = n.type
        /\ k.total = n.total /\ k.spent = n.spent
        /\ k.actions = <<>> /\ k.created = <<>> /\ k.plan = p
    BY <2>2 DEF CallRecords
  <2>6. call' = [call EXCEPT ![c] = k]
    BY <2>1 DEF n
  <2> HIDE DEF k
  <2>7. ~Ended(c)
    BY DEF Ended
  <2>8. Fits(k)
    BY <2>1, <2>2, <2>3, <2>5, <2>7, InHand DEF Fits, Feasible
  <2> QED BY <2>1, <2>2, <2>4, <2>5, <2>6, <2>8, CountingKeeps DEF Counts
<1> QED BY <1>1, <1>2

LEMMA MergesKeeps ==
    ASSUME IInv, NEW c \in Calls, call[c].pc = "asking", NEW r \in Responses,
           Counts(c, r), Merges(c, r)
    PROVE  IInv'
<1>1. CASE Delivers(c, r)
  BY <1>1, DeliversKeeps
<1>2. CASE Ends(c, "failed", UsedAfter(c, r), Counted(c, r))
  <2>1. "failed" \in Results
    BY DEF Results
  <2>2. UsedAfter(c, r) \in Nat
    BY Hearing, Domains DEF UsedAfter
  <2>3. c \notin disturbed => UsedAfter(c, r) = Counted(c, r).spent
                           /\ Counted(c, r).spent <= Budget
    BY Hearing, HeardTyped DEF UsedAfter, Counts
  <2> QED BY <1>2, <2>1, <2>2, <2>3, HeardTyped, AnswerEndsKeeps
<1> QED BY <1>1, <1>2 DEF Merges, Raises

LEMMA CatalogGoesKeeps ==
    ASSUME IInv, NEW c \in Calls, call[c].pc = "asking", NEW r \in Responses,
           Counts(c, r), CatalogGoes(c, r)
    PROVE  IInv'
<1>1. CASE Goes(c, r, CatalogPlans)
  BY <1>1, GoesKeeps, PlansFeasible
<1>2. CASE Ends(c, "failed", Counted(c, r).total, Counted(c, r))
  <2>1. "failed" \in Results
    BY DEF Results
  <2> QED BY <1>2, <2>1, CountedEndsKeeps
<1> QED BY <1>1, <1>2 DEF CatalogGoes

\* What the loop of every agent does with a response, but for what the agent
\* does with a good one.
LEMMA LoopKeeps ==
    ASSUME IInv, NEW c \in Calls, call[c].pc = "asking", NEW r \in Responses,
           \/ ConsumeRaises(c, r) \/ Exhausts(c, r)
           \/ Counts(c, r) /\ (GivesUp(c, r) \/ AsksAgain(c, r))
    PROVE  IInv'
BY ConsumeRaisesKeeps, ExhaustsKeeps, GivesUpKeeps, AsksAgainKeeps

LEMMA HearsResponseKeeps ==
    ASSUME IInv, NEW c \in Calls, HearsResponse(c) PROVE IInv'
<1>1. PICK r \in Responses :
         \/ DeveloperHears(c, r) \/ ValidationHears(c, r)
         \/ OptimizationHears(c, r) \/ OrchestratorHears(c, r)
         \/ IngestionHears(c, r) \/ ETLHears(c, r) \/ JobSchedulerHears(c, r)
         \/ CatalogHears(c, r) \/ FabricHears(c, r)
  BY DEF HearsResponse
<1>2. call[c].pc = "asking"
  BY <1>1 DEF DeveloperHears, ValidationHears, OptimizationHears,
              OrchestratorHears, IngestionHears, ETLHears, JobSchedulerHears,
              CatalogHears, FabricHears, Hears
<1>3. Consumed(c, r) => Counts(c, r)
  BY DEF Consumed, Counts
<1>4. ~Tracked(c) => Counts(c, r)
  BY DEF Counts
<1> DEFINE Loops == \/ ConsumeRaises(c, r) \/ Exhausts(c, r)
                    \/ Counts(c, r) /\ (GivesUp(c, r) \/ AsksAgain(c, r))
<1>5. CASE Loops
  BY <1>2, <1>5, LoopKeeps
<1>6. CASE DeveloperHears(c, r)
  <2>1. Loops \/ (Counts(c, r) /\ Delivers(c, r))
    BY <1>3, <1>4, <1>6 DEF DeveloperHears, Strictly
  <2> QED BY <2>1, <1>2, <1>5, DeliversKeeps
<1>7. CASE ValidationHears(c, r) \/ OptimizationHears(c, r)
  <2>1. Loops \/ (Counts(c, r) /\ Merges(c, r))
    BY <1>3, <1>7 DEF ValidationHears, OptimizationHears, Strictly
  <2> QED BY <2>1, <1>2, <1>5, MergesKeeps
<1>8. CASE OrchestratorHears(c, r)
  <2>1. Loops \/ (Counts(c, r) /\ Delivers(c, r))
    BY <1>3, <1>8 DEF OrchestratorHears, Strictly
  <2> QED BY <2>1, <1>2, <1>5, DeliversKeeps
<1>9. CASE IngestionHears(c, r)
  <2>1. Loops \/ (Counts(c, r) /\ Goes(c, r, IngestionPlans))
    BY <1>3, <1>9 DEF IngestionHears, Strictly, IngestionGoes
  <2> QED BY <2>1, <1>2, <1>5, GoesKeeps, PlansFeasible
<1>10. CASE ETLHears(c, r)
  <2>1. Loops \/ (Counts(c, r) /\ Goes(c, r, ETLPlans))
    BY <1>3, <1>10 DEF ETLHears, Strictly, ETLGoes
  <2> QED BY <2>1, <1>2, <1>5, GoesKeeps, PlansFeasible
<1>11. CASE JobSchedulerHears(c, r)
  <2>1. Loops \/ (Counts(c, r) /\ Goes(c, r, JobSchedulerPlans))
    BY <1>3, <1>11 DEF JobSchedulerHears, Strictly, JobSchedulerGoes
  <2> QED BY <2>1, <1>2, <1>5, GoesKeeps, PlansFeasible
<1>12. CASE CatalogHears(c, r)
  <2>1. Loops \/ (Counts(c, r) /\ CatalogGoes(c, r))
    BY <1>3, <1>12 DEF CatalogHears, Strictly
  <2> QED BY <2>1, <1>2, <1>5, CatalogGoesKeeps
<1>13. CASE FabricHears(c, r)
  <2>1. Loops \/ (Counts(c, r) /\ Goes(c, r, {<<"submit_job">>}))
    BY <1>3, <1>13 DEF FabricHears, Strictly, FabricGoes
  <2>2. \A p \in {<<"submit_job">>} : Feasible(p)
    BY PlansFeasible
  <2> QED BY <2>1, <2>2, <1>2, <1>5, GoesKeeps
<1> QED BY <1>1, <1>6, <1>7, <1>8, <1>9, <1>10, <1>11, <1>12, <1>13

-----------------------------------------------------------------------------
(************************ Work on the platform *****************************)

\* A call beyond its answer.
LEMMA Working ==
    ASSUME IInv, NEW c \in Calls, call[c].pc \in {"executing", "polling"}
    PROVE  /\ Executing(c) /\ ~Ended(c) /\ call[c] \in CallRecords
           /\ Fits(call[c]) /\ call[c].total \in Nat
           /\ call[c].spent = call[c].total /\ call[c].actions = call[c].created
           /\ c \notin disturbed => call[c].spent <= Budget
<1>1. Executing(c) /\ ~Ended(c)
  BY DEF Executing, Ended
<1>2. call[c] \in CallRecords /\ Fits(call[c])
      /\ agent[call[c].agent] \in AgentRecords
  BY <1>1, InHand
<1>3. call[c].total \in Nat /\ agent[call[c].agent].used \in 0..Budget
  BY <1>2 DEF CallRecords, AgentRecords
<1>4. call[c].spent = call[c].total /\ call[c].actions = call[c].created
  BY <1>2 DEF Fits
<1>5. c \notin disturbed => agent[call[c].agent].used = call[c].total
  BY <1>1 DEF IInv, Own, Owns, Executing
<1>6. c \notin disturbed => call[c].spent <= Budget
  BY <1>3, <1>4, <1>5
<1> QED BY <1>1, <1>2, <1>3, <1>4, <1>6

LEMMA WorkEndsKeeps ==
    ASSUME IInv, NEW c \in Calls, call[c].pc \in {"executing", "polling"},
           NEW result \in {"success", "failed"}, NEW new \in CallRecords,
           Ends(c, result, call[c].total, new), new.spent = call[c].spent,
           \/ new.actions = new.created
           \/ /\ result # "success" /\ Len(new.created) # 0
              /\ new.actions = SubSeq(new.created, 1, Len(new.created) - 1)
    PROVE  IInv'
<1>1. /\ Executing(c) /\ call[c].total \in Nat /\ call[c].spent = call[c].total
      /\ c \notin disturbed => call[c].spent <= Budget
  BY Working
<1>2. (c \in disturbed) \in BOOLEAN /\ result \in Results
  BY DEF Results
<1>3. Honest(Result(result, call[c].total, new, c \in disturbed))
  BY <1>1, <1>2, HonestResult
<1> QED BY <1>1, <1>2, <1>3, EndsKeeps

LEMMA OperatesKeeps ==
    ASSUME IInv, NEW c \in Calls, Operates(c) PROVE IInv'
<1> DEFINE k == call[c]
           o == Operated(c)
<1>0. k.pc = "executing" /\ k \in CallRecords /\ Fits(k) /\ Executing(c) /\ ~Ended(c)
      /\ k.actions = k.created /\ k.spent = k.total
  BY Working DEF Operates
<1>1. /\ k.plan \in Seq(Operations) /\ k.plan # <<>> /\ k.created \in Seq(Operations)
      /\ \/ k.plan = <<"submit_job">> /\ k.created = <<>>
         \/ \A i \in DOMAIN k.plan : k.plan[i] # "submit_job"
  BY <1>0 DEF CallRecords, Fits
<1>2. o = [k EXCEPT !.actions = Append(k.actions, Head(k.plan)),
                    !.created = Append(k.created, Head(k.plan)),
                    !.plan = Tail(k.plan)]
  BY DEF Operated
<1> HIDE DEF k, o
<1>3. /\ Append(k.created, Head(k.plan)) \in Seq(Operations)
      /\ Tail(k.plan) \in Seq(Operations)
      /\ Len(Append(k.created, Head(k.plan))) = Len(k.created) + 1
  BY <1>1, Tails, Appends
<1>4. o \in CallRecords
  BY <1>0, <1>2, <1>3 DEF CallRecords
<1>5. /\ o.actions = Append(k.created, Head(k.plan)) /\ o.created = o.actions
      /\ o.plan = Tail(k.plan) /\ o.pc = k.pc /\ o.type = k.type /\ o.job = k.job
      /\ o.agent = k.agent /\ o.total = k.total /\ o.spent = k.spent
      /\ o.attempt = k.attempt /\ o.polls = k.polls
  BY <1>0, <1>2 DEF CallRecords
<1>6. k.agent \in AgentIds /\ k.type \in Types
  BY <1>0 DEF Fits
<1>7. CASE Head(k.plan) = "submit_job"
  <2> DEFINE p == [o EXCEPT !.pc = "polling", !.job = "RUNNING"]
  <2>1. /\ call' = [call EXCEPT ![c] = p] /\ returned' = Nothing
        /\ UNCHANGED <<pool, agent, disturbed>>
    BY <1>7 DEF Operates, o, k
  <2>2. p \in CallRecords
    BY <1>4 DEF CallRecords
  <2>3. /\ p.pc = "polling" /\ p.actions = o.actions /\ p.created = o.created
        /\ p.agent = o.agent /\ p.type = o.type /\ p.total = o.total
        /\ p.spent = o.spent
    BY <1>4 DEF CallRecords
  <2> HIDE DEF p
  <2>4. k.created = <<>>
    BY <1>1, <1>7, Tails
  <2>5. Len(o.created) = 1
    BY <1>3, <1>5, <2>4
  <2>6. Fits(p)
    BY <1>0, <1>5, <1>6, <2>3, <2>5 DEF Fits
  <2> QED BY <1>0, <1>5, <2>1, <2>2, <2>3, <2>6, LocalKeeps DEF k
<1>8. CASE Head(k.plan) # "submit_job"
  <2>1. \A i \in DOMAIN k.plan : k.plan[i] # "submit_job"
    BY <1>1, <1>8
  <2>2. CASE Len(k.plan) > 1
    <3>1. /\ call' = [call EXCEPT ![c] = o] /\ returned' = Nothing
          /\ UNCHANGED <<pool, agent, disturbed>>
      <4>1. call[c].pc = "executing" /\ Head(call[c].plan) # "submit_job"
            /\ Len(call[c].plan) # 1
        BY <1>0, <1>1, <1>8, <2>2 DEF k
      <4> QED BY <4>1 DEF Operates, o
    <3>2. o.plan # <<>> /\ \A i \in DOMAIN o.plan : o.plan[i] # "submit_job"
      BY <1>1, <1>5, <2>1, <2>2, Tails
    <3>3. Fits(o)
      BY <1>0, <1>5, <1>6, <3>2 DEF Fits
    <3> QED BY <1>0, <1>4, <1>5, <3>1, <3>3, LocalKeeps DEF k
  <2>3. CASE ~ (Len(k.plan) > 1)
    <3>1. Ends(c, "success", call[c].total, o)
      BY <1>8, <2>3 DEF Operates, o, k
    <3> QED BY <1>0, <1>4, <1>5, <3>1, WorkEndsKeeps DEF k
  <2> QED BY <2>2, <2>3
<1> QED BY <1>7, <1>8

LEMMA OperationFailsKeeps ==
    ASSUME IInv, NEW c \in Calls, OperationFails(c) PROVE IInv'
<1> DEFINE k == call[c]
<1>0. k.pc = "executing" /\ k \in CallRecords /\ Fits(k)
      /\ k.actions = k.created
  BY Working DEF OperationFails
<1>1. PICK happened \in BOOLEAN :
         Ends(c, "failed", k.total,
              [k EXCEPT !.created = IF happened THEN Append(k.created, Head(k.plan))
                                                ELSE k.created])
  BY DEF OperationFails
<1>2. /\ k.plan \in Seq(Operations) /\ k.plan # <<>> /\ k.created \in Seq(Operations)
  BY <1>0 DEF CallRecords, Fits
<1> DEFINE e == IF happened THEN Append(k.created, Head(k.plan)) ELSE k.created
           n == [k EXCEPT !.created = e]
<1> HIDE DEF k
<1>3. \/ e = k.created
      \/ /\ e \in Seq(Operations) /\ Len(e) = Len(k.created) + 1
         /\ SubSeq(e, 1, Len(k.created)) = k.created
  <2>1. Head(k.plan) \in Operations
    BY <1>2, Tails
  <2> QED BY <1>2, <2>1, Appends
<1>4. Ends(c, "failed", k.total, n)
  BY <1>1
<1> HIDE DEF e
<1>5. e \in Seq(Operations)
  BY <1>2, <1>3
<1>6. n \in CallRecords /\ n.actions = k.created /\ n.created = e /\ n.spent = k.spent
  BY <1>0, <1>5 DEF CallRecords
<1> HIDE DEF n
<1>7. \/ n.actions = n.created
      \/ /\ Len(n.created) # 0
         /\ n.actions = SubSeq(n.created, 1, Len(n.created) - 1)
  <2>1. Len(k.created) \in Nat
    BY <1>2
  <2> QED BY <1>3, <1>6, <2>1
<1> QED BY <1>0, <1>4, <1>6, <1>7, WorkEndsKeeps DEF k

LEMMA JobEndsKeeps ==
    ASSUME IInv, NEW c \in Calls, JobEnds(c) PROVE IInv'
<1> DEFINE k == call[c]
<1>1. PICK s \in Terminal : call' = [call EXCEPT ![c] = [k EXCEPT !.job = s]]
  BY DEF JobEnds, IInv, Typed
<1>2. ~Ended(c) /\ returned' = Nothing /\ UNCHANGED <<pool, agent, disturbed>>
  BY DEF JobEnds
<1>3. k \in CallRecords /\ Fits(k) /\ k.pc # "idle"
  BY <1>2, InHand DEF Ended
<1> DEFINE n == [k EXCEPT !.job = s]
<1>4. n \in CallRecords
  BY <1>3 DEF CallRecords
<1>5. /\ n.pc = k.pc /\ n.agent = k.agent /\ n.type = k.type /\ n.total = k.total
      /\ n.spent = k.spent /\ n.actions = k.actions /\ n.created = k.created
      /\ n.plan = k.plan
  BY <1>3 DEF CallRecords
<1> HIDE DEF n, k
<1>6. Fits(n)
  BY <1>3, <1>5 DEF Fits
<1>7. call' = [call EXCEPT ![c] = n]
  BY <1>1 DEF n
<1> QED BY <1>2, <1>4, <1>5, <1>6, <1>7, LocalKeeps DEF k

LEMMA PollsKeeps ==
    ASSUME IInv, NEW c \in Calls, Polls(c) PROVE IInv'
<1> DEFINE k == call[c]
           m == IF k.job \in Terminal THEN MaxPolls ELSE k.polls + 1
           n == [k EXCEPT !.polls = m]
<1>1. call' = [call EXCEPT ![c] = n] /\ k.pc = "polling" /\ k.polls < MaxPolls
      /\ returned' = Nothing /\ UNCHANGED <<pool, agent, disturbed>>
  BY DEF Polls, IInv, Typed
<1>2. k \in CallRecords /\ Fits(k) /\ Executing(c) /\ ~Ended(c)
  BY <1>1, Working
<1>3. m \in 0..MaxPolls
  <2>1. k.polls \in 0..MaxPolls
    BY <1>2 DEF CallRecords
  <2> HIDE DEF k
  <2>2. k.polls + 1 \in 0..MaxPolls /\ MaxPolls \in 0..MaxPolls
    BY <1>1, <2>1, Domains
  <2> QED BY <2>2
<1> HIDE DEF m
<1>4. n \in CallRecords
  BY <1>2, <1>3 DEF CallRecords
<1>5. /\ n.pc = k.pc /\ n.agent = k.agent /\ n.type = k.type /\ n.total = k.total
      /\ n.spent = k.spent /\ n.actions = k.actions /\ n.created = k.created
      /\ n.plan = k.plan
  BY <1>2 DEF CallRecords
<1> HIDE DEF n, k
<1>6. Fits(n)
  BY <1>1, <1>2, <1>5 DEF Fits
<1> QED BY <1>1, <1>2, <1>4, <1>5, <1>6, LocalKeeps DEF k

LEMMA CollectsKeeps ==
    ASSUME IInv, NEW c \in Calls, Collects(c) PROVE IInv'
<1>1. PICK result \in {"success", "failed"} :
         Ends(c, result, call[c].total, call[c])
  BY DEF Collects
<1>2. call[c].pc = "polling"
  BY DEF Collects
<1> QED BY <1>1, <1>2, Working, WorkEndsKeeps

LEMMA PollFailsKeeps ==
    ASSUME IInv, NEW c \in Calls, PollFails(c) PROVE IInv'
<1> DEFINE k == call[c]
           n == [k EXCEPT !.actions = <<>>]
<1>1. k.pc = "polling" /\ Ends(c, "failed", k.total, n)
  BY DEF PollFails
<1>2. k \in CallRecords /\ Fits(k)
  BY <1>1, Working
<1>3. n \in CallRecords
  <2>1. \A q \in Seq(Operations) : [k EXCEPT !.actions = q] \in CallRecords
    BY <1>2 DEF CallRecords
  <2>2. <<>> \in Seq(Operations)
    OBVIOUS
  <2> QED BY <2>1, <2>2
<1>4. n.actions = <<>> /\ n.created = k.created /\ n.spent = k.spent
  BY <1>2 DEF CallRecords
<1>5. k.created \in Seq(Operations) /\ Len(k.created) = 1
  BY <1>1, <1>2 DEF Fits, CallRecords
<1> HIDE DEF n
<1>6. SubSeq(n.created, 1, Len(n.created) - 1) = <<>>
  BY <1>4, <1>5
<1>7. /\ call[c].pc \in {"executing", "polling"} /\ n.spent = call[c].spent
      /\ Ends(c, "failed", call[c].total, n)
      /\ Len(n.created) # 0
      /\ n.actions = SubSeq(n.created, 1, Len(n.created) - 1)
  BY <1>1, <1>4, <1>5, <1>6
<1> HIDE DEF k
<1> QED BY <1>3, <1>7, WorkEndsKeeps

\* Whatever the call was doing, its history is what it did.
LEMMA CancelKeeps ==
    ASSUME IInv, NEW c \in Calls, Cancel(c) PROVE IInv'
<1>1. Executing(c) /\ Ends(c, "cancelled", 0, call[c])
  BY DEF Cancel
<1>2. ~Ended(c)
  BY <1>1 DEF Executing, Ended
<1>3. /\ call[c] \in CallRecords /\ Fits(call[c])
      /\ agent[call[c].agent] \in AgentRecords
  BY <1>2, InHand
<1>4. call[c].total \in Nat /\ agent[call[c].agent].used \in 0..Budget
  BY <1>3 DEF CallRecords, AgentRecords
<1>5. c \notin disturbed => call[c].spent <= Budget
  <2>1. c \notin disturbed => agent[call[c].agent].used = call[c].total
    BY <1>1 DEF IInv, Own, Owns, Executing
  <2>2. call[c].spent = call[c].total
    BY <1>3 DEF Fits
  <2> QED BY <1>4, <2>1, <2>2
<1> DEFINE r == Result("cancelled", 0, call[c], c \in disturbed)
<1>6. r.result = "cancelled" /\ r.spent = call[c].spent
      /\ (r.disturbed <=> c \in disturbed)
  BY DEF Result
<1>7. call[c].spent \in Nat
  BY <1>3 DEF CallRecords
<1> HIDE DEF r
<1>8. ~ (r.spent > Budget /\ ~r.disturbed)
  <2>1. CASE r.disturbed
    BY <2>1
  <2>2. CASE ~r.disturbed
    <3>1. r.spent <= Budget
      BY <2>2, <1>5, <1>6
    <3>2. r.spent \in Nat
      BY <1>6, <1>7
    <3> QED BY <3>1, <3>2, Domains
  <2> QED BY <2>1, <2>2
<1>9. Honest(r)
  BY <1>6, <1>8 DEF Honest
<1>10. "cancelled" \in Results /\ 0 \in Nat
  BY DEF Results
<1> QED BY <1>1, <1>3, <1>9, <1>10, EndsKeeps DEF r

\* A user by hand goes away: its agent is as it was, and marked if it accepted.
LEMMA CancelByHandKeeps ==
    ASSUME IInv, NEW c \in Calls, CancelByHand(c) PROVE IInv'
<1> DEFINE a == call[c].agent
           gone == call[c].pc = "accepted" /\ agent[a].state = "ACCEPTING"
           x == agent'[a]
<1>0. /\ call[c].pc \in {"acquired", "accepted"} /\ ~Ended(c) /\ ~Executing(c)
      /\ a \in AgentIds /\ agent[a] \in AgentRecords
  BY InHand DEF CancelByHand, Executing, Ended
<1>1. /\ call' \in [Calls -> CallRecords] /\ Course'
      /\ call'[c] = Idle /\ \A d \in Calls \ {c} : call'[d] = call[d]
  BY CallRewritten, IdleFits DEF CancelByHand
<1>2. /\ pool' = pool /\ disturbed' = disturbed \ {c}
      /\ returned' = Result("cancelled", 0, Idle, FALSE)
  BY DEF CancelByHand
<1>3. returned' \in ResultRecords /\ Honest(returned')
  <2> DEFINE r == Result("cancelled", 0, Idle, FALSE)
  <2>1. r \in ResultRecords
    BY IdleFits DEF Result, ResultRecords, CallRecords, Results
  <2>2. r.result = "cancelled" /\ r.spent = 0
    BY IdleFits DEF Result
  <2>3. returned' = r
    BY <1>2
  <2> HIDE DEF r
  <2>4. ~ (r.spent > Budget)
    BY <2>2, Domains
  <2>5. Honest(r)
    BY <2>2, <2>4 DEF Honest
  <2> QED BY <2>1, <2>3, <2>5
<1>4. /\ agent' \in [AgentIds -> AgentRecords]
      /\ \A b \in AgentIds \ {a} : agent'[b] = agent[b]
      /\ ~KeptWithout(c, a) => x = NoAgent
      /\ KeptWithout(c, a) =>
            /\ x.type = agent[a].type /\ x.state = agent[a].state
            /\ x.tracker = agent[a].tracker /\ x.used = agent[a].used
            /\ agent[a].left \/ gone => x.left
  <2>1. agent \in [AgentIds -> AgentRecords]
    BY DEF IInv, Typed
  <2>2. CASE ~KeptWithout(c, a) /\ agent' = [agent EXCEPT ![a] = NoAgent]
    BY <2>1, <2>2, <1>0, NoAgentTyped
  <2>3. CASE KeptWithout(c, a) /\ agent' = [agent EXCEPT ![a].left = TRUE]
    <3> DEFINE y == [agent[a] EXCEPT !.left = TRUE]
    <3>1. agent' = [agent EXCEPT ![a] = y]
      BY <2>3
    <3>2. /\ y \in AgentRecords /\ y.type = agent[a].type
          /\ y.state = agent[a].state /\ y.tracker = agent[a].tracker
          /\ y.used = agent[a].used /\ y.left
      BY <1>0 DEF AgentRecords
    <3> HIDE DEF y
    <3> QED BY <2>1, <2>3, <3>1, <3>2, <1>0
  <2>4. CASE KeptWithout(c, a) /\ ~gone /\ agent' = agent
    BY <2>1, <2>4
  <2> QED BY <2>2, <2>3, <2>4 DEF CancelByHand
<1> HIDE DEF x
<1>8. agent'[a] = x /\ \A b \in AgentIds \ {a} : agent'[b] = agent[b]
  BY <1>4 DEF x
<1>9. Typed'
  BY <1>1, <1>2, <1>3, <1>4 DEF IInv, Typed
<1>10. ASSUME NEW d \in Calls, d # c, ~Ended(d)
       PROVE  LET b == call[d].agent IN
                /\ agent'[b].type = agent[b].type /\ agent'[b].state = agent[b].state
                /\ agent'[b].tracker = agent[b].tracker
                /\ agent'[b].used = agent[b].used
  <2>1. call[d].agent = a => KeptWithout(c, a)
    BY <1>10 DEF KeptWithout, Holds
  <2>2. call[d].agent \in AgentIds
    BY <1>10, InHand
  <2> QED BY <2>1, <2>2, <1>4, <1>8
<1>11. Held'
  <2> SUFFICES ASSUME NEW d \in Calls, ~Ended(d)'
               PROVE  agent'[call'[d].agent].type = call'[d].type
    BY DEF Held
  <2>1. d # c /\ call'[d] = call[d] /\ ~Ended(d)
    BY <1>1, IdleFits DEF Ended
  <2> QED BY <2>1, <1>10 DEF IInv, Held
<1>12. Own'
  <2> SUFFICES ASSUME NEW d \in Calls, d \notin disturbed',
                      call'[d].pc \notin {"idle", "acquired"}
               PROVE  Owns(d)'
    BY DEF Own
  <2>1. d # c /\ call'[d] = call[d] /\ d \notin disturbed /\ ~Ended(d)
    BY <1>1, <1>2, IdleFits DEF Ended
  <2>2. Owns(d)
    BY <2>1 DEF IInv, Own
  <2>3. \A e \in Calls \ {d} : e \notin Hurt(call[d].agent)'
    BY <2>2, <1>1, IdleFits DEF Owns, Hurt, Holds, Ended
  <2> QED BY <2>1, <2>2, <2>3, <1>10 DEF Owns, Executing
<1>13. Manned'
  <2> SUFFICES ASSUME NEW b \in AgentIds, agent'[b].state # "IDLE"
               PROVE  /\ agent'[b].state = "EXECUTING" =>
                           \E d \in Calls : Executing(d)' /\ call'[d].agent = b
                      /\ agent'[b].state = "ACCEPTING" /\ ~agent'[b].left =>
                           \E d \in Calls :
                              call'[d].pc = "accepted" /\ call'[d].agent = b
    BY DEF Manned
  <2>1. agent'[b].state = agent[b].state /\ (agent[b].left => agent'[b].left)
    <3>1. CASE b # a
      BY <3>1, <1>8
    <3>2. CASE b = a
      <4>1. KeptWithout(c, a)
        BY <3>2, <1>4, <1>8 DEF NoAgent
      <4> QED BY <3>2, <4>1, <1>4, <1>8
    <3> QED BY <3>1, <3>2
  <2>2. CASE agent[b].state = "EXECUTING"
    <3>1. PICK d \in Calls : Executing(d) /\ call[d].agent = b
      BY <2>2 DEF IInv, Manned
    <3>2. d # c
      BY <3>1, <1>0
    <3> QED BY <2>1, <2>2, <3>1, <3>2, <1>1 DEF Executing
  <2>3. CASE agent[b].state = "ACCEPTING" /\ ~agent'[b].left
    <3>1. PICK d \in Calls : call[d].pc = "accepted" /\ call[d].agent = b
      BY <2>1, <2>3 DEF IInv, Manned
    <3>2. d # c
      <4>1. ASSUME d = c PROVE FALSE
        <5>1. b = a /\ gone
          BY <2>3, <3>1, <4>1
        <5>2. KeptWithout(c, a)
          BY <5>1, <2>1, <2>3, <1>4, <1>8 DEF NoAgent
        <5> QED BY <5>1, <5>2, <2>3, <1>4, <1>8
      <4> QED BY <4>1
    <3> QED BY <2>1, <2>3, <3>1, <3>2, <1>1
  <2> QED BY <2>1, <2>2, <2>3
<1> QED BY <1>1, <1>2, <1>3, <1>9, <1>11, <1>12, <1>13 DEF IInv

-----------------------------------------------------------------------------
(****************************** The system *********************************)

LEMMA InitEstablishes == Init => IInv
<1> SUFFICES ASSUME Init PROVE IInv
  OBVIOUS
<1>1. Typed
  <2>1. pool \in Seq(AgentIds) /\ Len(pool) = 0 /\ Injective(pool)
    BY DEF Init, Injective
  <2> QED BY <2>1, NoAgentTyped, IdleFits, NothingHonest, Domains DEF Init, Typed
<1>2. Course /\ Honest(returned)
  BY IdleFits, NothingHonest DEF Init, Course
<1>3. \A c \in Calls : Ended(c)
  BY IdleFits DEF Init, Ended
<1>4. Held /\ Own
  BY <1>3 DEF Held, Own, Ended
<1>5. Manned
  BY DEF Init, Manned, NoAgent
<1> QED BY <1>1, <1>2, <1>4, <1>5 DEF IInv

LEMMA DispatchKeeps ==
    ASSUME IInv, NEW c \in Calls, NEW t \in Types, Dispatch(c, t) PROVE IInv'
<1>0. Ended(c)
  BY DEF Dispatch
<1>1. CASE Available(t) # {} /\ Begin(c, t, Oldest(t), agent[Oldest(t)])
           /\ pool' = pool
  <2>1. /\ Oldest(t) \in AgentIds
        /\ agent[Oldest(t)].state = "IDLE" /\ agent[Oldest(t)].type = t
    BY <1>1, OldestIsAvailable DEF IInv
  <2>2. agent[Oldest(t)] \in AgentRecords
    BY <2>1 DEF IInv, Typed
  <2> QED BY <1>0, <1>1, <2>1, <2>2, BeginKeeps
<1>2. CASE EndsWithout(c, "unknown_type") \/ EndsWithout(c, "refused")
  <2>1. call[c].pc = "idle" /\ "unknown_type" \in Results /\ "refused" \in Results
    BY <1>0 DEF Ended, Results
  <2>2. /\ "unknown_type" \notin {"success", "escalated", "failed"}
        /\ "refused" \notin {"success", "escalated", "failed"}
    OBVIOUS
  <2> QED BY <1>2, <2>1, <2>2, EndsWithoutKeeps
<1>3. CASE ~Full /\ pool' = Append(pool, Fresh)
           /\ Begin(c, t, Fresh, [NoAgent EXCEPT !.type = t])
  <2>1. Fresh \in AgentIds /\ Fresh \notin Members /\ \A d \in Calls : ~Holds(d, Fresh)
    BY <1>0, FreshForCall DEF IInv
  <2>2. [NoAgent EXCEPT !.type = t] \in AgentRecords
        /\ [NoAgent EXCEPT !.type = t].type = t
    BY NoAgentTyped DEF AgentRecords
  <2> QED BY <1>0, <1>3, <2>1, <2>2, BeginKeeps
<1> QED BY <1>1, <1>2, <1>3 DEF Dispatch

LEMMA ExecuteCapabilityKeeps ==
    ASSUME IInv, NEW c \in Calls, NEW t \in Types, NEW generate_only \in BOOLEAN,
           ExecuteCapability(c, t, generate_only)
    PROVE  IInv'
<1> DEFINE new == [NoAgent EXCEPT !.type = t, !.adapter = ~generate_only]
<1>1. Ended(c) /\ Begin(c, t, Fresh, new) /\ pool' = pool
  BY DEF ExecuteCapability
<1>2. Fresh \in AgentIds /\ \A d \in Calls : ~Holds(d, Fresh)
  BY <1>1, FreshForCall DEF IInv
<1>3. new \in AgentRecords /\ new.type = t
  <2>1. \A m \in AgentRecords, y \in BOOLEAN :
           [m EXCEPT !.type = t, !.adapter = y] \in AgentRecords
    BY DEF AgentRecords
  <2>2. new.type = t
    BY DEF NoAgent
  <2>3. (~generate_only) \in BOOLEAN
    OBVIOUS
  <2> QED BY <2>1, <2>2, <2>3, NoAgentTyped
<1> HIDE DEF new
<1> QED BY <1>1, <1>2, <1>3, BeginKeeps

LEMMA NextPreserves ==
    ASSUME IInv, [Next]_vars PROVE IInv'
<1>1. CASE UNCHANGED vars
  BY <1>1 DEF vars, IInv, Typed, Course, Held, Own, Owns, Manned, Ended, Executing,
              Hurt, Holds
<1>2. ASSUME NEW c \in Calls, Starts(c) PROVE IInv'
  <2>1. PICK t \in Wants[c] :
           \/ Dispatch(c, t)
           \/ \E generate_only \in BOOLEAN : ExecuteCapability(c, t, generate_only)
           \/ Acquire(c, t)
    BY <1>2 DEF Starts
  <2>2. t \in Types
    BY Domains
  <2> QED BY <2>1, <2>2, DispatchKeeps, ExecuteCapabilityKeeps, AcquireKeeps
<1>3. ASSUME NEW c \in Calls, Proceeds(c) PROVE IInv'
  BY <1>3, AcceptKeeps, ExecuteKeeps, HearsResponseKeeps, LlmFailsKeeps,
     OperatesKeeps, OperationFailsKeeps, PollsKeeps, CollectsKeeps, PollFailsKeeps
     DEF Proceeds
<1> QED BY <1>1, <1>2, <1>3, CancelKeeps, CancelByHandKeeps, JobEndsKeeps, RegisterKeeps,
           UnregisterKeeps, ReleaseKeeps DEF Next

\* The inductive invariant of agents, pool and calls.
THEOREM Agents == Spec => []IInv
<1>1. Init => IInv
  BY InitEstablishes
<1>2. IInv /\ [Next]_vars => IInv'
  BY NextPreserves
<1> QED BY <1>1, <1>2, PTL DEF Spec

\* The types of the pool, the agents, the calls and the results, a pool that
\* never outgrows max_pool_size nor holds an agent twice, and no more attempts
\* than INV-03 allows.
THEOREM AgentTypes == Spec => []TypeOK
<1>1. IInv => TypeOK
  <2> SUFFICES ASSUME IInv PROVE TypeOK
    OBVIOUS
  <2>1. Cardinality(Members) = Len(pool)
    BY MembersCounted DEF IInv, Typed, Members
  <2> QED BY <2>1 DEF IInv, Typed, TypeOK, AgentRecords, CallRecords, ResultRecords
<1> QED BY <1>1, Agents, PTL

\* Unless somebody releases a busy agent, a call that executes has its agent for
\* itself, of its type, with a tracker that counts its responses only; although
\* acquire_agent reserves nothing.
THEOREM AgentsAreNotShared == Spec => []OneCallPerAgent
<1>1. IInv => OneCallPerAgent
  <2> SUFFICES ASSUME IInv, NEW c \in Calls \ disturbed, Executing(c)
               PROVE  /\ agent[call[c].agent].state = "EXECUTING"
                      /\ agent[call[c].agent].type = call[c].type
                      /\ agent[call[c].agent].tracker
                      /\ agent[call[c].agent].used = call[c].total
                      /\ \A d \in Calls \ {c} : d \notin Hurt(call[c].agent)
    BY DEF OneCallPerAgent
  <2>1. call[c].pc \notin {"idle", "acquired"} /\ ~Ended(c)
    BY DEF Executing, Ended
  <2>2. Owns(c) /\ agent[call[c].agent].type = call[c].type
    BY <2>1 DEF IInv, Own, Held
  <2> QED BY <2>2 DEF Owns
<1> QED BY <1>1, Agents, PTL

\* However calls end and whoever releases or unregisters agents under them, an
\* agent that is not idle is in the hands of a call; unless it has accepted a
\* task and its caller went away before execute.
THEOREM AgentsComeBack == Spec => []NeverStranded
<1>1. IInv => NeverStranded
  <2> SUFFICES ASSUME IInv, NEW a \in AgentIds, agent[a].state # "IDLE",
                      ~(agent[a].state = "ACCEPTING" /\ agent[a].left)
               PROVE  Hurt(a) # {}
    BY DEF NeverStranded
  <2>1. agent[a].state \in {"ACCEPTING", "EXECUTING"}
    BY DEF IInv, Typed, AgentRecords
  <2>2. PICK c \in Calls : (Executing(c) \/ call[c].pc = "accepted")
                           /\ call[c].agent = a
    BY <2>1 DEF IInv, Manned
  <2>3. c \in Hurt(a)
    BY <2>2 DEF Hurt, Holds, Ended, Executing
  <2> QED BY <2>3
<1> QED BY <1>1, Agents, PTL

\* INV-04: what succeeds was paid within the budget, and the response that
\* exceeds it is the last.
THEOREM BudgetIsKept == Spec => []WithinBudget
<1>1. IInv => WithinBudget
  <2> SUFFICES ASSUME IInv PROVE WithinBudget
    OBVIOUS
  <2>1. ASSUME NEW c \in Calls \ disturbed PROVE call[c].spent <= Budget
    <3>1. call[c] \in CallRecords /\ Fits(call[c])
      BY DEF IInv, Typed, Course
    <3>2. CASE call[c].pc = "idle"
      BY <3>1, <3>2, IdleFits, Domains DEF Fits
    <3>3. CASE call[c].pc \in {"acquired", "accepted"}
      BY <3>1, <3>3, Domains DEF Fits
    <3>4. CASE call[c].pc \in {"asking", "executing", "polling"}
      <4>1. Executing(c) /\ ~Ended(c)
        BY <3>4 DEF Executing, Ended
      <4>2. agent[call[c].agent].used = call[c].total
        BY <3>4, <4>1 DEF IInv, Own, Owns
      <4>3. agent[call[c].agent].used \in 0..Budget
        BY <4>1, InHand DEF AgentRecords
      <4> QED BY <3>1, <4>2, <4>3, Domains DEF Fits
    <3> QED BY <3>1, <3>2, <3>3, <3>4 DEF CallRecords
  <2> QED BY <2>1 DEF IInv, Honest, WithinBudget
<1> QED BY <1>1, Agents, PTL

\* What a result reports is what its call paid for, on every path.
THEOREM TokensAreAccounted == Spec => []Accounted
<1>1. IInv => Accounted
  BY DEF IInv, Honest, Accounted
<1> QED BY <1>1, Agents, PTL

\* A result names what its call created on the platform, all of it or all but
\* the operation that failed.
THEOREM CreationsAreNamed == Spec => []NamesWhatItCreated
<1>1. IInv => NamesWhatItCreated
  BY DEF IInv, Honest, NamesWhatItCreated
<1> QED BY <1>1, Agents, PTL

-----------------------------------------------------------------------------
(***************************** Progress ************************************)

LEMMA LeftIs ==
    ASSUME NEW k \in CallRecords
    PROVE  /\ k.pc = "idle" => Left(k) = 0
           /\ k.pc = "polling" => Left(k) = MaxPolls - k.polls + 1
           /\ k.pc = "executing" => Left(k) = Len(k.plan) + MaxPolls + 1
           /\ k.pc = "asking" => Left(k) =
                 MAX_SELF_CORRECTIONS - k.attempt + MostOperations + MaxPolls + 2
           /\ k.pc = "accepted" => Left(k) =
                 MAX_SELF_CORRECTIONS + MostOperations + MaxPolls + 2
           /\ k.pc = "acquired" => Left(k) =
                 MAX_SELF_CORRECTIONS + MostOperations + MaxPolls + 3
<1>1. k.pc = "idle" => Left(k) = 0
  BY DEF Left
<1>2. k.pc = "polling" => Left(k) = MaxPolls - k.polls + 1
  BY DEF Left
<1>3. k.pc = "executing" => Left(k) = Len(k.plan) + MaxPolls + 1
  BY DEF Left
<1>4. k.pc = "asking" => Left(k) =
         MAX_SELF_CORRECTIONS - k.attempt + MostOperations + MaxPolls + 2
  BY DEF Left
<1>5. k.pc = "accepted" => Left(k) =
         MAX_SELF_CORRECTIONS + MostOperations + MaxPolls + 2
  BY DEF Left
<1>6. k.pc = "acquired" => Left(k) =
         MAX_SELF_CORRECTIONS + MostOperations + MaxPolls + 3
  BY DEF Left
<1> QED BY <1>1, <1>2, <1>3, <1>4, <1>5, <1>6

LEMMA LeftPositive ==
    ASSUME NEW k \in CallRecords, k.pc # "idle" PROVE Left(k) > Left(Idle)
<1>1. /\ MaxPolls \in Nat /\ MAX_SELF_CORRECTIONS \in Nat /\ MostOperations \in Nat
  BY Domains DEF MostOperations
<1>2. /\ k.polls \in 0..MaxPolls /\ Len(k.plan) \in Nat
      /\ k.attempt \in 1..MAX_SELF_CORRECTIONS
      /\ k.pc \in {"acquired", "accepted", "asking", "executing", "polling"}
  BY DEF CallRecords
<1>3. Left(Idle) = 0
  BY IdleFits, LeftIs
<1>4. CASE k.pc = "polling"
  BY <1>1, <1>2, <1>3, <1>4, LeftIs
<1>5. CASE k.pc = "executing"
  BY <1>1, <1>2, <1>3, <1>5, LeftIs
<1>6. CASE k.pc = "asking"
  BY <1>1, <1>2, <1>3, <1>6, LeftIs
<1>7. CASE k.pc = "accepted"
  BY <1>1, <1>2, <1>3, <1>7, LeftIs
<1>8. CASE k.pc = "acquired"
  BY <1>1, <1>2, <1>3, <1>8, LeftIs
<1> QED BY <1>2, <1>4, <1>5, <1>6, <1>7, <1>8

\* Call c takes a step that leaves less to do, or its job ends; or it starts.
Advances(c) ==
    /\ \A d \in Calls \ {c} : call'[d] = call[d]
    /\ \/ Ended(c)
       \/ Left(call'[c]) < Left(call[c])
       \/ call'[c] = [call[c] EXCEPT !.job = call'[c].job]

LEMMA EndingAdvances ==
    ASSUME IInv, NEW c \in Calls, call' = [call EXCEPT ![c] = Idle]
    PROVE  Advances(c)
<1>1. call'[c] = Idle /\ \A d \in Calls \ {c} : call'[d] = call[d]
  BY DEF IInv, Typed
<1>2. call[c] \in CallRecords
  BY DEF IInv, Typed
<1>3. ~Ended(c) => Left(Idle) < Left(call[c])
  <2>1. ASSUME ~Ended(c) PROVE Left(call[c]) > Left(Idle)
    BY <2>1, <1>2, LeftPositive DEF Ended
  <2>2. ASSUME ~Ended(c) PROVE Left(Idle) < Left(call[c])
    BY <2>1, <2>2
  <2> QED BY <2>2
<1> QED BY <1>1, <1>3 DEF Advances

LEMMA LessAdvances ==
    ASSUME IInv, NEW c \in Calls, NEW k, call' = [call EXCEPT ![c] = k],
           Ended(c) \/ Left(k) < Left(call[c])
    PROVE  Advances(c)
<1>1. call'[c] = k /\ \A d \in Calls \ {c} : call'[d] = call[d]
  BY DEF IInv, Typed
<1> QED BY <1>1 DEF Advances

LEMMA StartsAdvances ==
    ASSUME IInv, NEW c \in Calls, Starts(c) PROVE Advances(c)
<1>1. Ended(c)
  BY DEF Starts, Dispatch, ExecuteCapability, Acquire
<1>2. PICK k : call' = [call EXCEPT ![c] = k]
  BY DEF Starts, Dispatch, ExecuteCapability, Acquire, Begin, EndsWithout
<1> QED BY <1>1, <1>2, LessAdvances

LEMMA AcceptAdvances ==
    ASSUME IInv, NEW c \in Calls, Accept(c) PROVE Advances(c)
<1> DEFINE k == [call[c] EXCEPT !.pc = "accepted"]
<1>1. call' = [call EXCEPT ![c] = Idle] \/ call' = [call EXCEPT ![c] = k]
  BY DEF Accept, EndsWithout
<1>2. call[c].pc = "acquired" /\ call[c] \in CallRecords
  BY DEF Accept, IInv, Typed
<1>3. k \in CallRecords /\ k.pc = "accepted"
  BY <1>2 DEF CallRecords
<1> HIDE DEF k
<1>4. Left(k) < Left(call[c])
  BY <1>2, <1>3, LeftIs, Domains DEF MostOperations
<1> QED BY <1>1, <1>4, EndingAdvances, LessAdvances

LEMMA ExecuteAdvances ==
    ASSUME IInv, NEW c \in Calls, Execute(c) PROVE Advances(c)
<1> DEFINE k == NewCall(call[c].type, call[c].agent)
<1>1. call' = [call EXCEPT ![c] = Idle] \/ call' = [call EXCEPT ![c] = k]
  BY DEF Execute, EndsWithout
<1>2. call[c].pc = "accepted" /\ call[c] \in CallRecords /\ ~Ended(c)
  BY DEF Execute, IInv, Typed, Ended
<1>3. k \in CallRecords /\ k.pc = "asking" /\ k.attempt = 1
  BY <1>2, InHand, NewCallFits
<1> HIDE DEF k
<1>4. Left(k) < Left(call[c])
  BY <1>2, <1>3, LeftIs, Domains DEF MostOperations
<1> QED BY <1>1, <1>4, EndingAdvances, LessAdvances

LEMMA GoesAdvances ==
    ASSUME IInv, NEW c \in Calls, call[c].pc = "asking", NEW r \in Responses,
           NEW plans, \A p \in plans : p = <<>> \/ Feasible(p), Goes(c, r, plans)
    PROVE  Advances(c)
<1> DEFINE n == Counted(c, r)
           k(p) == [n EXCEPT !.pc = "executing", !.attempt = 1, !.plan = p]
<1>1. \/ call' = [call EXCEPT ![c] = Idle]
      \/ \E p \in plans : p # <<>> /\ call' = [call EXCEPT ![c] = k(p)]
  BY DEF Goes, Delivers, Ends
<1>2. n \in CallRecords
  BY HeardTyped
<1> HIDE DEF n
<1>3. ASSUME NEW p \in plans, p # <<>> PROVE Left(k(p)) < Left(call[c])
  <2>1. Feasible(p)
    BY <1>3
  <2>2. k(p) \in CallRecords
    <3>1. p \in Seq(Operations) /\ 1 \in 1..MAX_SELF_CORRECTIONS
      BY <2>1, Domains DEF Feasible
    <3>2. ASSUME NEW z \in 1..MAX_SELF_CORRECTIONS, NEW q \in Seq(Operations)
          PROVE  [n EXCEPT !.pc = "executing", !.attempt = z, !.plan = q]
                    \in CallRecords
      BY <1>2 DEF CallRecords
    <3> QED BY <3>1, <3>2
  <2>3. k(p).pc = "executing" /\ k(p).plan = p
    BY <1>2 DEF CallRecords
  <2> HIDE DEF k
  <2>4. Left(k(p)) = Len(p) + MaxPolls + 1
    BY <2>2, <2>3, LeftIs
  <2>5. call[c] \in CallRecords
    BY DEF IInv, Typed
  <2>6. Left(call[c]) = MAX_SELF_CORRECTIONS - call[c].attempt
                          + MostOperations + MaxPolls + 2
    BY <2>5, LeftIs
  <2>7. call[c].attempt \in 1..MAX_SELF_CORRECTIONS
    BY <2>5 DEF CallRecords
  <2>8. Len(p) \in Nat /\ Len(p) <= MostOperations /\ MostOperations \in Nat
    BY <2>1, Domains DEF Feasible, MostOperations
  <2>9. MaxPolls \in Nat /\ MAX_SELF_CORRECTIONS \in Nat
    BY Domains
  <2>10. MAX_SELF_CORRECTIONS - call[c].attempt \in Nat
    BY <2>7, <2>9
  <2> HIDE DEF MostOperations
  <2> QED BY <2>4, <2>6, <2>8, <2>9, <2>10, SMTT(30)
<1> QED BY <1>1, <1>3, EndingAdvances, LessAdvances

LEMMA AsksAgainAdvances ==
    ASSUME IInv, NEW c \in Calls, call[c].pc = "asking", NEW r \in Responses,
           AsksAgain(c, r)
    PROVE  Advances(c)
<1> DEFINE n == Counted(c, r)
           k == [n EXCEPT !.attempt = n.attempt + 1]
<1>1. call' = [call EXCEPT ![c] = k] /\ call[c].attempt < MAX_SELF_CORRECTIONS
  BY DEF AsksAgain
<1>2. n \in CallRecords /\ n.attempt = call[c].attempt /\ n.pc = "asking"
      /\ call[c] \in CallRecords
  BY HeardTyped DEF IInv, Typed
<1>3. n.attempt + 1 \in 1..MAX_SELF_CORRECTIONS
  <2>1. n.attempt \in 1..MAX_SELF_CORRECTIONS /\ n.attempt < MAX_SELF_CORRECTIONS
    BY <1>1, <1>2 DEF CallRecords
  <2> QED BY <2>1, Domains
<1> HIDE DEF n
<1>4. k \in CallRecords /\ k.pc = "asking" /\ k.attempt = n.attempt + 1
  BY <1>2, <1>3 DEF CallRecords
<1> HIDE DEF k
<1>5. Left(k) < Left(call[c])
  <2>1. Left(k) = MAX_SELF_CORRECTIONS - k.attempt + MostOperations + MaxPolls + 2
    BY <1>4, LeftIs
  <2>2. Left(call[c]) = MAX_SELF_CORRECTIONS - call[c].attempt
                          + MostOperations + MaxPolls + 2
    BY <1>2, LeftIs
  <2>3. call[c].attempt \in 1..MAX_SELF_CORRECTIONS /\ MostOperations \in Nat
    BY <1>2, Domains DEF CallRecords, MostOperations
  <2> QED BY <1>2, <1>4, <2>1, <2>2, <2>3, Domains
<1> QED BY <1>1, <1>5, LessAdvances

\* The ends of a request.
LEMMA LoopAdvances ==
    ASSUME IInv, NEW c \in Calls, call[c].pc = "asking", NEW r \in Responses,
           \/ ConsumeRaises(c, r) \/ Exhausts(c, r) \/ GivesUp(c, r)
           \/ AsksAgain(c, r) \/ Delivers(c, r) \/ Merges(c, r)
    PROVE  Advances(c)
<1>1. AsksAgain(c, r) \/ call' = [call EXCEPT ![c] = Idle]
  BY DEF ConsumeRaises, Exhausts, GivesUp, Delivers, Merges, Raises, Ends
<1> QED BY <1>1, AsksAgainAdvances, EndingAdvances

LEMMA HearsResponseAdvances ==
    ASSUME IInv, NEW c \in Calls, HearsResponse(c) PROVE Advances(c)
<1>1. PICK r \in Responses :
         \/ DeveloperHears(c, r) \/ ValidationHears(c, r)
         \/ OptimizationHears(c, r) \/ OrchestratorHears(c, r)
         \/ IngestionHears(c, r) \/ ETLHears(c, r) \/ JobSchedulerHears(c, r)
         \/ CatalogHears(c, r) \/ FabricHears(c, r)
  BY DEF HearsResponse
<1>2. call[c].pc = "asking"
  BY <1>1 DEF DeveloperHears, ValidationHears, OptimizationHears,
              OrchestratorHears, IngestionHears, ETLHears, JobSchedulerHears,
              CatalogHears, FabricHears, Hears
<1> DEFINE Loops == \/ ConsumeRaises(c, r) \/ Exhausts(c, r) \/ GivesUp(c, r)
                    \/ AsksAgain(c, r) \/ Delivers(c, r) \/ Merges(c, r)
<1>3. CASE Loops
  BY <1>2, <1>3, LoopAdvances
<1>4. CASE CatalogGoes(c, r)
  <2>1. Goes(c, r, CatalogPlans) \/ call' = [call EXCEPT ![c] = Idle]
    BY <1>4 DEF CatalogGoes, Ends
  <2> QED BY <2>1, <1>2, GoesAdvances, PlansFeasible, EndingAdvances
<1>5. CASE \/ Goes(c, r, IngestionPlans) \/ Goes(c, r, ETLPlans)
           \/ Goes(c, r, JobSchedulerPlans) \/ Goes(c, r, {<<"submit_job">>})
  <2>1. \A p \in {<<"submit_job">>} : Feasible(p)
    BY PlansFeasible
  <2> QED BY <2>1, <1>2, <1>5, GoesAdvances, PlansFeasible
<1>6. Loops \/ CatalogGoes(c, r) \/ Goes(c, r, IngestionPlans)
        \/ Goes(c, r, ETLPlans) \/ Goes(c, r, JobSchedulerPlans)
        \/ Goes(c, r, {<<"submit_job">>})
  <2>1. CASE DeveloperHears(c, r) \/ ValidationHears(c, r)
             \/ OptimizationHears(c, r) \/ OrchestratorHears(c, r)
    BY <2>1 DEF DeveloperHears, ValidationHears, OptimizationHears,
                OrchestratorHears, Strictly
  <2>2. CASE IngestionHears(c, r) \/ ETLHears(c, r) \/ JobSchedulerHears(c, r)
    BY <2>2 DEF IngestionHears, ETLHears, JobSchedulerHears, IngestionGoes,
                ETLGoes, JobSchedulerGoes, Strictly
  <2>3. CASE CatalogHears(c, r) \/ FabricHears(c, r)
    BY <2>3 DEF CatalogHears, FabricHears, FabricGoes, Strictly
  <2> QED BY <1>1, <2>1, <2>2, <2>3
<1> QED BY <1>3, <1>4, <1>5, <1>6

LEMMA OperatesAdvances ==
    ASSUME IInv, NEW c \in Calls, Operates(c) PROVE Advances(c)
<1> DEFINE k == call[c]
           o == Operated(c)
           p == [o EXCEPT !.pc = "polling", !.job = "RUNNING"]
<1>1. /\ k.pc = "executing" /\ k \in CallRecords /\ k.plan # <<>>
      /\ k.plan \in Seq(Operations) /\ k.created \in Seq(Operations)
      /\ k.actions \in Seq(Operations)
  BY Working DEF Operates, Fits, CallRecords
<1>2. call' = [call EXCEPT ![c] = p] \/ call' = [call EXCEPT ![c] = Idle]
      \/ (call' = [call EXCEPT ![c] = o] /\ Len(k.plan) > 1)
  BY DEF Operates, Ends
<1>3. o = [k EXCEPT !.actions = Append(k.actions, Head(k.plan)),
                    !.created = Append(k.created, Head(k.plan)),
                    !.plan = Tail(k.plan)]
  BY DEF Operated
<1> HIDE DEF k, o
<1>4. /\ Append(k.created, Head(k.plan)) \in Seq(Operations)
      /\ Append(k.actions, Head(k.plan)) \in Seq(Operations)
      /\ Tail(k.plan) \in Seq(Operations) /\ Len(Tail(k.plan)) = Len(k.plan) - 1
      /\ Len(k.plan) \in Nat \ {0}
  BY <1>1, Tails, Appends
<1>5. o \in CallRecords /\ o.pc = "executing" /\ o.plan = Tail(k.plan)
  BY <1>1, <1>3, <1>4 DEF CallRecords
<1>6. p \in CallRecords /\ p.pc = "polling"
  BY <1>5 DEF CallRecords
<1> HIDE DEF p
<1>7. Left(k) = Len(k.plan) + MaxPolls + 1
  BY <1>1, LeftIs
<1>8. Left(o) < Left(k)
  <2>1. Left(o) = Len(o.plan) + MaxPolls + 1 /\ MaxPolls \in Nat
    BY <1>5, LeftIs, Domains
  <2> QED BY <1>4, <1>5, <1>7, <2>1
<1>9. Left(p) < Left(k)
  <2>1. p.polls \in 0..MaxPolls /\ Left(p) = MaxPolls - p.polls + 1
    BY <1>6, LeftIs DEF CallRecords
  <2> QED BY <1>4, <1>7, <2>1, Domains
<1> QED BY <1>2, <1>8, <1>9, EndingAdvances, LessAdvances DEF k

LEMMA PollsAdvances ==
    ASSUME IInv, NEW c \in Calls, Polls(c) PROVE Advances(c)
<1> DEFINE k == call[c]
           m == IF k.job \in Terminal THEN MaxPolls ELSE k.polls + 1
           n == [k EXCEPT !.polls = m]
<1>1. call' = [call EXCEPT ![c] = n] /\ k.pc = "polling" /\ k.polls < MaxPolls
  BY DEF Polls, IInv, Typed
<1>2. k \in CallRecords /\ k.polls \in 0..MaxPolls
  BY DEF IInv, Typed, CallRecords
<1>3. m \in 0..MaxPolls /\ m > k.polls
  <2> HIDE DEF k
  <2>1. /\ k.polls + 1 \in 0..MaxPolls /\ MaxPolls \in 0..MaxPolls
        /\ k.polls + 1 > k.polls /\ MaxPolls > k.polls
    BY <1>1, <1>2, Domains
  <2> QED BY <2>1
<1> HIDE DEF m
<1>4. n \in CallRecords /\ n.pc = "polling" /\ n.polls = m
  BY <1>1, <1>2, <1>3 DEF CallRecords
<1> HIDE DEF n, k
<1>5. Left(n) < Left(k)
  BY <1>1, <1>2, <1>3, <1>4, LeftIs, Domains
<1> QED BY <1>1, <1>5, LessAdvances DEF k

LEMMA JobEndsAdvances ==
    ASSUME IInv, NEW c \in Calls, JobEnds(c) PROVE Advances(c)
<1>1. PICK s \in Terminal : call' = [call EXCEPT ![c] = [call[c] EXCEPT !.job = s]]
  BY DEF JobEnds, IInv, Typed
<1>2. call'[c] = [call[c] EXCEPT !.job = s] /\ call[c] \in CallRecords
      /\ \A d \in Calls \ {c} : call'[d] = call[d]
  BY <1>1 DEF IInv, Typed
<1>3. call'[c].job = s
  BY <1>2 DEF CallRecords
<1> QED BY <1>2, <1>3 DEF Advances

LEMMA NextAdvances ==
    ASSUME IInv, Next PROVE call' = call \/ \E c \in Calls : Advances(c)
<1>1. ASSUME NEW c \in Calls, Starts(c) PROVE Advances(c)
  BY <1>1, StartsAdvances
<1>2. ASSUME NEW c \in Calls, Proceeds(c) PROVE Advances(c)
  <2>1. ASSUME LlmFails(c) \/ OperationFails(c) \/ Collects(c) \/ PollFails(c)
        PROVE  Advances(c)
    <3>1. call' = [call EXCEPT ![c] = Idle]
      BY <2>1 DEF LlmFails, OperationFails, Collects, PollFails, Ends
    <3> QED BY <3>1, EndingAdvances
  <2> QED BY <1>2, <2>1, AcceptAdvances, ExecuteAdvances, HearsResponseAdvances,
             OperatesAdvances, PollsAdvances DEF Proceeds
<1>3. ASSUME NEW c \in Calls, Cancel(c) PROVE Advances(c)
  BY <1>3, EndingAdvances DEF Cancel, Ends
<1>6. ASSUME NEW c \in Calls, CancelByHand(c) PROVE Advances(c)
  BY <1>6, EndingAdvances DEF CancelByHand
<1>4. ASSUME NEW t \in WiredTypes, Register(t) PROVE call' = call
  BY <1>4 DEF Register
<1>5. ASSUME NEW a \in AgentIds, Unregister(a) \/ ReleaseAgent(a) PROVE call' = call
  BY <1>5 DEF Unregister, ReleaseAgent
<1> QED BY <1>1, <1>2, <1>3, <1>4, <1>5, <1>6, JobEndsAdvances DEF Next

\* Every step of a call leaves it less to do, unless it is the Fabric job that
\* ends: no schema violation, no budget and no job that never ends can keep a
\* call for ever, nor the agent with it.
THEOREM CallsComeToAnEnd == Spec => CallsProgress
<1> DEFINE A == \A c \in Calls :
          ~Ended(c) /\ call'[c] # call[c] =>
              \/ Left(call'[c]) < Left(call[c])
              \/ call'[c] = [call[c] EXCEPT !.job = call'[c].job]
<1>1. ASSUME IInv, [Next]_vars PROVE [A]_vars
  <2> SUFFICES ASSUME Next PROVE A
    BY <1>1
  <2>1. CASE call' = call
    BY <2>1
  <2>2. ASSUME NEW c \in Calls, Advances(c) PROVE A
    BY <2>2 DEF Advances
  <2> QED BY <1>1, <2>1, <2>2, NextAdvances
<1>2. IInv /\ [Next]_vars => [A]_vars
  BY <1>1
<1> HIDE DEF A
<1>3. Spec => [][A]_vars
  BY <1>2, Agents, PTL DEF Spec
<1> QED BY <1>3 DEF CallsProgress, A
=============================================================================
