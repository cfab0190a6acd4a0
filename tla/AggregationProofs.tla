-------------------------- MODULE AggregationProofs ---------------------------
(*****************************************************************************)
(* Theorems about the batches of an aggregation node, for every set of       *)
(* tokens, any number of batches, and any number of crashes and retries.     *)
(*                                                                           *)
(* A token may be in many batches: a flush that died is retried by a new     *)
(* batch with the same members, and that one again.  The inductive invariant *)
(* rests on the ends of these retry chains: they share no member (ChainInv), *)
(* a batch with a verdict is an end, and at most one end without a verdict   *)
(* has members that have not failed (OpenInv).                               *)
(*****************************************************************************)
EXTENDS Aggregation, TLAPS, WellFoundedInduction

\* The prover of a step that names none.
USE Zenon

Verdicts == {"none", "rows", "empty", "error"}

Batch == [status : {"draft", "executing", "failed", "completed"}, members : Seq(Tokens), retryOf : Nat,
          verdict : Verdicts, quarantined : SUBSET Tokens, children : {0, 1}, published : BOOLEAN]

Steps == [op : {"plugin", "unrouted", "expand", "complete", "rebuild"}, batch : Nat,
          tokens : Seq(Tokens), rows : SUBSET Tokens]

Types ==
    /\ TypeOK
    /\ settings \in [transform : BOOLEAN, discard : BOOLEAN]
    /\ batches \in Seq(Batch) /\ tokens \in Seq(Tokens) /\ agenda \in Seq(Steps)
    /\ answered \in [Tokens -> Nat]

\* A retry comes later and has the members of what it retries; the ends of retry
\* chains share no member; a retried batch failed and has no verdict.
ChainInv ==
    /\ \A b \in Ids : Retried(b) => batches[b].status = "failed" /\ batches[b].verdict = "none"
    /\ \A c \in Ids : batches[c].retryOf < c
    /\ \A b, c \in Ids : batches[c].retryOf = b => Members(b) \subseteq Members(c)
    /\ \A b, c \in Ids : ~Retried(b) /\ ~Retried(c) /\ b # c => Members(b) \cap Members(c) = {}
    /\ \A b \in Ids :
          /\ batches[b].verdict = "none" => batches[b].children = 0 /\ ~batches[b].published
          /\ batches[b].status \in {"draft", "executing"} => batches[b].verdict = "none"
          /\ batches[b].status = "completed" => batches[b].verdict # "none"
          /\ batches[b].status # "draft" => batches[b].members # <<>>

\* The plugin's verdict on the token is recorded.
Answered(t) == \E b \in Ids : batches[b].verdict # "none" /\ t \in Members(b)

\* A token of an answered batch, its place in the journal and its outcome agree
\* with the row of the batch.
Fits(row, t, place, outcome) ==
    /\ place = "left" <=> row.published
    /\ IF t \in row.quarantined
       THEN outcome = "quarantined" <=> row.children # 0 \/ row.published
       ELSE outcome = "consumed" <=> row.children # 0
    /\ row.children = 0 /\ ~row.published => outcome = "none"

LeftInv ==
    \A b \in Ids : batches[b].verdict # "none" =>
        \A t \in Members(b) : Fits(batches[b], t, journal[t], terminal[t])

\* What the journal and the outcomes say of tokens and their batches.
HeldInv ==
    /\ \A b \in Ids : \A t \in Members(b) : journal[t] \in {"adopted", "left"}
    /\ \A t \in Tokens :
          /\ journal[t] = "adopted" => buffered[t] \in Ids /\ t \in Members(buffered[t])
          /\ journal[t] = "left" => terminal[t] = "unrouted" \/ Answered(t)
          /\ terminal[t] \in {"consumed", "filtered", "quarantined"} => Answered(t)
          /\ terminal[t] = "unrouted" => journal[t] \in {"adopted", "left"}
          /\ answered[t] # 0 => Answered(t)
    /\ AnsweredOnce /\ LeftInv

\* The batch in progress, and what the steps on the agenda rely on.
InProgress ==
    batch # 0 =>
        /\ batch \in Ids /\ batches[batch].status \in {"draft", "executing"}
        /\ tokens = batches[batch].members
        /\ \A t \in Members(batch) : journal[t] = "adopted"
        /\ agenda = <<>> => batches[batch].status = "draft"
        /\ \A i \in DOMAIN agenda : agenda[i].op \in {"plugin", "unrouted"}
        /\ agenda = <<>> \/ agenda[1].op = "plugin" => \A t \in Members(batch) : terminal[t] = "none"

FlushStep(s) ==
    s.op \in {"plugin", "unrouted"} =>
        /\ batch # 0 /\ s.batch = batch /\ batches[batch].status = "executing"
        /\ s.tokens # <<>> /\ Range(s.tokens) \subseteq Members(batch)

DisposalStep(s) ==
    s.op \in {"expand", "complete"} => batch = 0 /\ s.batch \in Ids /\ batches[s.batch].verdict # "none"

RebuildStep(s) ==
    s.op = "rebuild" =>
        /\ batch = 0 /\ s.batch \in Ids /\ batches[s.batch].status = "draft"
        /\ s.rows # {} /\ s.rows \subseteq Members(s.batch)
        /\ \A t \in s.rows : journal[t] = "adopted" /\ terminal[t] = "none"

LeaderInv ==
    /\ leader # "up" => batch = 0 /\ agenda = <<>>
    /\ batch = 0 => tokens = <<>>
    /\ InProgress
    /\ \A i \in DOMAIN agenda :
          /\ FlushStep(agenda[i]) /\ DisposalStep(agenda[i]) /\ RebuildStep(agenda[i])
          /\ agenda[i].op \in {"plugin", "unrouted", "rebuild"} => i = Len(agenda)

\* The end of a chain that is still to be answered.
Open(b) ==
    /\ ~Retried(b) /\ batches[b].verdict = "none"
    /\ \E t \in Members(b) : terminal[t] # "unrouted"

\* The members of b that have not failed are in the leader's hands.
InHand(b) ==
    \/ b = batch
    \/ \E i \in DOMAIN agenda : /\ agenda[i].op = "rebuild"
                                /\ \A t \in Members(b) : terminal[t] # "unrouted" => t \in agenda[i].rows

OpenInv ==
    /\ \A b, c \in Ids : Open(b) /\ Open(c) => b = c
    /\ leader = "up" => \A b \in Ids : Open(b) => InHand(b)
    /\ RefusedOnlyPartway

AggInv == Types /\ ChainInv /\ HeldInv /\ LeaderInv /\ OpenInv

--------------------------------------------------------------------------------
\* A set of numbers that is not empty has a least element.
LEMMA Least ==
  ASSUME NEW T \in SUBSET Nat, T # {}
  PROVE  \E n \in T : \A k \in T : n <= k
  <1> DEFINE R == OpToRel(<, Nat)
  <1>1. IsWellFoundedOn(R, Nat)
    BY NatLessThanWellFounded
  <1>2. \A x, y \in Nat : y < x => <<y, x>> \in R
    BY DEF OpToRel
  <1> HIDE DEF R
  <1>3. PICK n \in T : \A k \in T : ~(<<k, n>> \in R)
    BY <1>1, WFMin
  <1>4. \A k \in T : ~(k < n)
    BY <1>2, <1>3
  <1> QED
    BY <1>4, SMT

\* One that is bounded has a greatest.
LEMMA Greatest ==
  ASSUME NEW n \in Nat, NEW T \in SUBSET (0 .. n), T # {}
  PROVE  \E m \in T : \A k \in T : k <= m
  <1> DEFINE U == {n - k : k \in T}
  <1>0. \A k \in T : n - k \in Nat
    BY SMT
  <1>1. U \in SUBSET Nat /\ U # {}
    BY <1>0
  <1>2. PICK j \in U : \A k \in U : j <= k
    <2> HIDE DEF U
    <2> QED
      BY <1>1, Least
  <1>3. PICK m \in T : j = n - m
    BY <1>2
  <1>4. ASSUME NEW k \in T PROVE k <= m
    <2>1. n - k \in U /\ k \in 0 .. n /\ m \in 0 .. n
      OBVIOUS
    <2>2. n - m <= n - k
      BY <1>2, <1>3, <2>1
    <2> QED
      BY <2>1, <2>2, SMT
  <1> QED
    BY <1>4

\* A sequence without elements is the empty one.
LEMMA NothingLeft ==
  ASSUME NEW S, NEW s \in Seq(S), Len(s) = 0
  PROVE  s = <<>>
BY SMT

\* What the steps do to the elements of a sequence.
LEMMA RangeFacts ==
  /\ Range(<<>>) = {}
  /\ \A s \in Seq(Tokens), t \in Tokens : Range(Append(s, t)) = Range(s) \cup {t}
  /\ \A s \in Seq(Tokens) : Range(s) \subseteq Tokens /\ (s # <<>> <=> Range(s) # {})
  /\ \A s \in Seq(Tokens) : s # <<>> => Head(s) \in Range(s) /\ Range(Tail(s)) \subseteq Range(s)
  <1>1. Range(<<>>) = {}
    BY SMT DEF Range
  <1>2. ASSUME NEW s \in Seq(Tokens), NEW t \in Tokens PROVE Range(Append(s, t)) = Range(s) \cup {t}
    <2>1. /\ DOMAIN s = 1 .. Len(s) /\ DOMAIN Append(s, t) = 1 .. Len(s) + 1 /\ Len(s) \in Nat
          /\ Append(s, t)[Len(s) + 1] = t
          /\ \A i \in 1 .. Len(s) : Append(s, t)[i] = s[i]
      BY SMT
    <2>2. \A i \in DOMAIN Append(s, t) : i \in DOMAIN s \/ i = Len(s) + 1
      BY <2>1, SMT
    <2>3. \A i \in DOMAIN s : i \in DOMAIN Append(s, t)
      BY <2>1, SMT
    <2> QED
      BY <2>1, <2>2, <2>3, SMT DEF Range
  <1>3. ASSUME NEW s \in Seq(Tokens) PROVE Range(s) \subseteq Tokens /\ (s # <<>> <=> Range(s) # {})
    <2>1. s # <<>> => 1 \in DOMAIN s
      BY SMT
    <2> QED
      BY <2>1, SMT DEF Range
  <1>4. ASSUME NEW s \in Seq(Tokens), s # <<>> PROVE Head(s) \in Range(s) /\ Range(Tail(s)) \subseteq Range(s)
    BY <1>4, SMT DEF Range
  <1> QED
    BY <1>1, <1>2, <1>3, <1>4

--------------------------------------------------------------------------------
\* The ids of batches are numbers, and batches have their types.
LEMMA BatchTypes ==
  ASSUME batches \in Seq(Batch)
  PROVE  /\ Len(batches) \in Nat /\ Ids = 1 .. Len(batches)
         /\ \A b \in Ids : /\ batches[b] \in Batch /\ b \in Nat \ {0}
                           /\ batches[b].status \in {"draft", "executing", "failed", "completed"}
                           /\ batches[b].members \in Seq(Tokens) /\ batches[b].retryOf \in Nat
                           /\ batches[b].verdict \in Verdicts /\ batches[b].children \in {0, 1}
                           /\ batches[b].published \in BOOLEAN
                           /\ Members(b) \subseteq Tokens
                           /\ batches[b].members # <<>> <=> Members(b) # {}
  <1>1. Len(batches) \in Nat /\ Ids = 1 .. Len(batches)
    BY SMT DEF Ids
  <1>2. \A b \in Ids : batches[b] \in Batch
    BY SMT DEF Ids
  <1>3. \A b \in Ids : /\ batches[b].status \in {"draft", "executing", "failed", "completed"}
                       /\ batches[b].members \in Seq(Tokens) /\ batches[b].retryOf \in Nat
                       /\ batches[b].verdict \in Verdicts /\ batches[b].children \in {0, 1}
                       /\ batches[b].published \in BOOLEAN
    BY <1>2 DEF Batch
  <1>4. \A b \in Ids : Members(b) \subseteq Tokens /\ (batches[b].members # <<>> <=> Members(b) # {})
    BY <1>3, RangeFacts DEF Members
  <1>5. \A b \in Ids : b \in Nat \ {0}
    BY <1>1, SMT
  <1> QED
    BY <1>1, <1>2, <1>3, <1>4, <1>5

\* Every chain of retries has an end, and the end has the members of the batch.
LEMMA ChainEnds ==
  ASSUME batches \in Seq(Batch), ChainInv, NEW b \in Ids
  PROVE  \E e \in Ids : ~Retried(e) /\ Members(b) \subseteq Members(e)
  <1> DEFINE T == {e \in Ids : Members(b) \subseteq Members(e)}
             n == Len(batches)
  <1>1. n \in Nat /\ T \in SUBSET (0 .. n) /\ b \in T
    BY BatchTypes, SMT
  <1> HIDE DEF n
  <1>2. PICK e \in T : \A k \in T : k <= e
    <2> HIDE DEF T
    <2> QED
      BY <1>1, Greatest
  <1>3. ASSUME Retried(e) PROVE FALSE
    <2>1. PICK c \in Ids : batches[c].retryOf = e
      BY <1>3 DEF Retried
    <2>2. e < c /\ Members(e) \subseteq Members(c)
      BY <2>1 DEF ChainInv
    <2>3. c \in T
      BY <2>2
    <2>4. c <= e /\ c \in Nat /\ e \in Nat
      BY <1>2, <2>3, BatchTypes
    <2> QED
      BY <2>2, <2>4, SMT
  <1> QED
    BY <1>2, <1>3

\* resolve_retry_chain finds that end.
LEMMA ChainResolved ==
  ASSUME batches \in Seq(Batch), ChainInv, NEW b \in Ids
  PROVE  /\ resolve_retry_chain(b) \in Ids /\ ~Retried(resolve_retry_chain(b))
         /\ Members(b) \subseteq Members(resolve_retry_chain(b))
  <1> DEFINE next(c) == CHOOSE d \in Ids : batches[d].retryOf = c
             Fix(f) == f = [c \in Ids |-> IF Retried(c) THEN f[next(c)] ELSE c]
             EndOf(c, e) == e \in Ids /\ ~Retried(e) /\ Members(c) \subseteq Members(e)
  <1>1. \A c \in Ids : Retried(c) => /\ next(c) \in Ids /\ batches[next(c)].retryOf = c
                                     /\ c < next(c) /\ Members(c) \subseteq Members(next(c))
    BY SMT DEF Retried, ChainInv
  <1>2. \A c \in Ids : Retried(c) => Members(c) # {}
    BY BatchTypes DEF ChainInv
  <1>3. \A c \in Ids : \E e : EndOf(c, e)
    BY ChainEnds
  <1>4. \A c \in Ids : Members(c) # {} => \A d, e : EndOf(c, d) /\ EndOf(c, e) => d = e
    BY DEF ChainInv
  <1> HIDE DEF next
  <1> DEFINE g == [c \in Ids |-> IF Retried(c) THEN CHOOSE e : EndOf(c, e) ELSE c]
  <1>5. Fix(g)
    <2>1. \A c \in Ids : Retried(c) => g[next(c)] = g[c]
      <3> TAKE c \in Ids
      <3> HAVE Retried(c)
      <3> DEFINE d == next(c)
      <3>1. d \in Ids /\ Members(c) \subseteq Members(d) /\ Members(c) # {}
        BY <1>1, <1>2
      <3>2. EndOf(c, g[c])
        <4>1. g[c] = CHOOSE e : EndOf(c, e)
          OBVIOUS
        <4> HIDE DEF EndOf
        <4> QED
          BY <1>3, <4>1
      <3>3. EndOf(d, g[d])
        <4>1. CASE Retried(d)
          <5>1. g[d] = CHOOSE e : EndOf(d, e)
            BY <3>1, <4>1
          <5> HIDE DEF EndOf, d
          <5> QED
            BY <1>3, <3>1, <5>1
        <4>2. CASE ~Retried(d)
          BY <3>1, <4>2
        <4> QED
          BY <4>1, <4>2
      <3>4. EndOf(c, g[d])
        BY <3>1, <3>3
      <3> HIDE DEF EndOf, g, d
      <3>5. g[d] = g[c]
        BY <1>4, <3>1, <3>2, <3>4
      <3> QED
        BY <3>5 DEF d
    <2>2. \A c \in Ids : g[c] = IF Retried(c) THEN g[next(c)] ELSE c
      BY <2>1
    <2>3. g = [c \in Ids |-> g[c]]
      BY SMT
    <2> HIDE DEF g
    <2> DEFINE h == [c \in Ids |-> IF Retried(c) THEN g[next(c)] ELSE c]
    <2>4. h = [c \in Ids |-> h[c]] /\ \A c \in Ids : h[c] = IF Retried(c) THEN g[next(c)] ELSE c
      OBVIOUS
    <2> HIDE DEF h
    <2>5. \A c \in Ids : g[c] = h[c]
      BY <2>2, <2>4
    <2>6. g = h
      BY <2>3, <2>4, <2>5
    <2> QED
      BY <2>6 DEF h
  <1> DEFINE F == CHOOSE f : Fix(f)
  <1>6. Fix(F)
    <2> HIDE DEF Fix
    <2> QED
      BY <1>5
  <1>7. resolve_retry_chain(b) = F[b]
    BY DEF resolve_retry_chain, next
  <1> HIDE DEF F, EndOf
  <1>8. \A c \in Ids : F[c] = IF Retried(c) THEN F[next(c)] ELSE c
    BY <1>6
  <1>9. \A c \in Ids : EndOf(c, F[c])
    <2> DEFINE Bad == {c \in Ids : ~EndOf(c, F[c])}
               n == Len(batches)
    <2> SUFFICES ASSUME Bad # {} PROVE FALSE
      OBVIOUS
    <2>1. n \in Nat /\ Bad \in SUBSET (0 .. n)
      BY BatchTypes, SMT
    <2> HIDE DEF n
    <2>2. PICK c \in Bad : \A k \in Bad : k <= c
      <3> HIDE DEF Bad
      <3> QED
        BY <2>1, Greatest
    <2>3. Retried(c)
      BY <2>2, <1>8 DEF EndOf
    <2>4. next(c) \in Ids /\ c < next(c) /\ Members(c) \subseteq Members(next(c)) /\ F[c] = F[next(c)]
      BY <1>1, <1>8, <2>3
    <2>5. c \in Nat /\ next(c) \in Nat
      BY BatchTypes, <2>4
    <2>6. next(c) \notin Bad
      BY <2>2, <2>4, <2>5, SMT
    <2>7. EndOf(next(c), F[next(c)])
      BY <2>6, <2>4
    <2> QED
      BY <2>2, <2>4, <2>7 DEF EndOf
  <1> QED
    BY <1>7, <1>9 DEF EndOf


\* The agenda of a resume holds what is to do for the recorded results, and
\* nothing else.
LEMMA ResidualsListed ==
  ASSUME batches \in Seq(Batch), NEW S, \A b \in Residuals : ResidualSteps(b) \in Seq(S)
  PROVE  ResidualAgenda \in Seq(S)
  <1> DEFINE N == Len(batches)
             Part(b) == IF b \in Residuals THEN ResidualSteps(b) ELSE <<>>
             Fix(n, f) == f = [b \in 0 .. n |-> IF b = 0 THEN <<>> ELSE f[b - 1] \o Part(b)]
  <1>1. N \in Nat /\ <<>> \in Seq(S) /\ \A b : Part(b) \in Seq(S)
    BY SMT
  <1>2. ResidualAgenda = (CHOOSE f : Fix(N, f))[N]
    BY DEF ResidualAgenda
  <1> HIDE DEF N, Part
  <1>3. \A n \in 0 .. N : \E f \in [0 .. n -> Seq(S)] : Fix(n, f)
    <2> DEFINE Bad == {n \in 0 .. N : ~ \E f \in [0 .. n -> Seq(S)] : Fix(n, f)}
    <2> HIDE DEF Fix
    <2> SUFFICES ASSUME Bad # {} PROVE FALSE
      OBVIOUS
    <2>1. PICK n \in Bad : \A k \in Bad : n <= k
      <3>1. Bad \in SUBSET Nat
        BY <1>1, SMT
      <3> HIDE DEF Bad
      <3> QED
        BY <3>1, Least
    <2>2. n \in 0 .. N /\ n \in Nat
      BY <1>1, SMT
    <2>3. CASE n = 0
      <3> DEFINE f == [b \in 0 .. 0 |-> <<>>]
      <3>1. f \in [0 .. 0 -> Seq(S)]
        BY <1>1
      <3>2. Fix(0, f)
        BY SMT DEF Fix
      <3> QED
        BY <2>3, <3>1, <3>2
    <2>4. CASE n # 0
      <3>1. n - 1 \in 0 .. N /\ n - 1 \notin Bad
        <4>1. n - 1 \in 0 .. N /\ ~(n <= n - 1)
          BY <2>2, <2>4, <1>1, SMT
        <4> QED
          BY <2>1, <4>1
      <3>2. PICK f \in [0 .. n - 1 -> Seq(S)] : Fix(n - 1, f)
        BY <3>1
      <3> DEFINE g == [b \in 0 .. n |-> IF b = n THEN f[n - 1] \o Part(n) ELSE f[b]]
      <3>3. f[n - 1] \o Part(n) \in Seq(S)
        BY <1>1, <2>2, <2>4, <3>2, SMT
      <3>4. g \in [0 .. n -> Seq(S)]
        <4>1. \A b \in 0 .. n : b # n => b \in 0 .. n - 1
          BY <2>2, SMT
        <4> QED
          BY <3>3, <3>2, <4>1
      <3>5. \A b \in 0 .. n : g[b] = IF b = 0 THEN <<>> ELSE g[b - 1] \o Part(b)
        <4> TAKE b \in 0 .. n
        <4>1. CASE b = n
          <5>1. n \in 0 .. n /\ n - 1 \in 0 .. n /\ n - 1 # n
            BY <2>2, <2>4, SMT
          <5>2. g[n] = f[n - 1] \o Part(n) /\ g[n - 1] = f[n - 1]
            BY <5>1
          <5> QED
            BY <2>4, <4>1, <5>2
        <4>2. CASE b # n
          <5>1. b \in 0 .. n - 1 /\ g[b] = f[b]
            BY <4>2, <2>2, SMT
          <5>2. f[b] = IF b = 0 THEN <<>> ELSE f[b - 1] \o Part(b)
            BY <5>1, <3>2 DEF Fix
          <5>3. b # 0 => g[b - 1] = f[b - 1]
            BY <5>1, <2>2, SMT
          <5> QED
            BY <5>1, <5>2, <5>3
        <4> QED
          BY <4>1, <4>2
      <3> HIDE DEF g
      <3>6. Fix(n, g)
        <4> DEFINE h == [b \in 0 .. n |-> IF b = 0 THEN <<>> ELSE g[b - 1] \o Part(b)]
        <4>1. h = [b \in 0 .. n |-> h[b]] /\ \A b \in 0 .. n : h[b] = IF b = 0 THEN <<>> ELSE g[b - 1] \o Part(b)
          OBVIOUS
        <4>2. g = [b \in 0 .. n |-> g[b]]
          BY <3>4
        <4> HIDE DEF h
        <4>3. \A b \in 0 .. n : g[b] = h[b]
          BY <3>5, <4>1
        <4>4. g = h
          BY <4>1, <4>2, <4>3
        <4> QED
          BY <4>4 DEF h, Fix
      <3> QED
        BY <3>4, <3>6
    <2> QED
      BY <2>3, <2>4, <2>1
  <1> DEFINE F == CHOOSE f : Fix(N, f)
  <1>4. Fix(N, F)
    <2>1. N \in 0 .. N
      BY <1>1, SMT
    <2> HIDE DEF Fix
    <2>2. \E f : Fix(N, f)
      BY <1>3, <2>1
    <2> QED
      BY <2>2
  <1> HIDE DEF F
  <1>5. \A b \in 0 .. N : F[b] = IF b = 0 THEN <<>> ELSE F[b - 1] \o Part(b)
    BY <1>4
  <1> HIDE DEF Fix
  <1>6. \A b \in 0 .. N : F[b] \in Seq(S)
    <2> DEFINE Bad == {n \in 0 .. N : F[n] \notin Seq(S)}
    <2> SUFFICES ASSUME Bad # {} PROVE FALSE
      OBVIOUS
    <2>1. PICK n \in Bad : \A k \in Bad : n <= k
      <3>1. Bad \in SUBSET Nat
        BY <1>1, SMT
      <3> HIDE DEF Bad
      <3> QED
        BY <3>1, Least
    <2>2. n \in 0 .. N /\ n \in Nat /\ F[n] \notin Seq(S)
      BY <1>1, SMT
    <2>3. n # 0
      BY <1>1, <1>5, <2>2
    <2>4. n - 1 \in 0 .. N /\ ~(n <= n - 1)
      BY <1>1, <2>2, <2>3, SMT
    <2>5. F[n - 1] \in Seq(S)
      BY <2>1, <2>4
    <2>6. F[n] = F[n - 1] \o Part(n)
      BY <1>5, <2>2, <2>3
    <2> QED
      BY <1>1, <2>2, <2>5, <2>6, SMT
  <1> QED
    BY <1>1, <1>2, <1>6, SMT DEF F
--------------------------------------------------------------------------------
\* The first step of the agenda.
LEMMA FirstStep ==
  ASSUME AggInv, NEW op, Doing(op)
  PROVE  /\ leader = "up" /\ 1 \in DOMAIN agenda /\ Head(agenda) = agenda[1] /\ agenda[1].op = op
         /\ agenda[1] \in Steps /\ agenda[1].batch \in Nat /\ agenda[1].tokens \in Seq(Tokens)
         /\ Len(agenda) \in Nat /\ DOMAIN agenda = 1 .. Len(agenda)
  <1>1. agenda \in Seq(Steps) /\ agenda # <<>> /\ leader = "up" /\ Head(agenda).op = op
    BY DEF AggInv, Types, Doing
  <1>2. 1 \in DOMAIN agenda /\ Head(agenda) = agenda[1] /\ agenda[1] \in Steps
    BY <1>1, SMT
  <1> QED
    BY <1>1, <1>2, SMT DEF Steps

\* The rest of the agenda.
LEMMA RestOfAgenda ==
  ASSUME AggInv, NEW op, Doing(op), Done
  PROVE  /\ agenda' \in Seq(Steps)
         /\ Len(agenda') = Len(agenda) - 1
         /\ \A i \in DOMAIN agenda' : i + 1 \in DOMAIN agenda /\ agenda'[i] = agenda[i + 1]
         /\ \A i \in DOMAIN agenda : i # 1 => i - 1 \in DOMAIN agenda' /\ agenda'[i - 1] = agenda[i]
  <1>1. agenda \in Seq(Steps) /\ agenda # <<>> /\ agenda' = Tail(agenda)
    BY DEF AggInv, Types, Doing, Done
  <1> QED
    BY <1>1, SMT

\* A batch's row changes, its members and what it retries do not.
LEMMA RowSet ==
  ASSUME batches \in Seq(Batch), NEW b \in Ids, NEW r \in Batch,
         r.members = batches[b].members, r.retryOf = batches[b].retryOf,
         batches' = [batches EXCEPT ![b] = r]
  PROVE  /\ batches' \in Seq(Batch) /\ Len(batches') = Len(batches) /\ Ids' = Ids /\ batches'[b] = r
         /\ \A c \in Ids : /\ c # b => batches'[c] = batches[c]
                           /\ batches'[c].members = batches[c].members
                           /\ Members(c)' = Members(c) /\ (Retried(c)' <=> Retried(c))
  <1>1. /\ batches' \in Seq(Batch) /\ Len(batches') = Len(batches) /\ DOMAIN batches' = DOMAIN batches
        /\ batches'[b] = r /\ \A c \in Ids : c # b => batches'[c] = batches[c]
    BY SMT DEF Ids
  <1>2. Ids' = Ids
    BY <1>1 DEF Ids
  <1>3. \A c \in Ids : batches'[c].members = batches[c].members /\ batches'[c].retryOf = batches[c].retryOf
    BY <1>1
  <1>4. \A c \in Ids : Members(c)' = Members(c)
    BY <1>3 DEF Members
  <1>5. \A c \in Ids : Retried(c)' <=> Retried(c)
    BY <1>2, <1>3 DEF Retried
  <1> QED
    BY <1>1, <1>2, <1>3, <1>4, <1>5

\* A new batch.
LEMMA Appended ==
  ASSUME batches \in Seq(Batch), NEW r \in Batch, batches' = Append(batches, r)
  PROVE  LET n == Len(batches) + 1
         IN  /\ batches' \in Seq(Batch) /\ Len(batches') = n /\ Ids' = Ids \cup {n} /\ n \notin Ids /\ n \in Nat
             /\ batches'[n] = r
             /\ \A c \in Ids : batches'[c] = batches[c] /\ Members(c)' = Members(c) /\ c < n
  <1> DEFINE n == Len(batches) + 1
  <1>1. /\ batches' \in Seq(Batch) /\ Len(batches') = n /\ DOMAIN batches' = 1 .. n
        /\ batches'[n] = r /\ \A c \in 1 .. Len(batches) : batches'[c] = batches[c]
    BY SMT
  <1>2. n \in Nat /\ Ids = 1 .. Len(batches) /\ Ids' = 1 .. n
    BY <1>1, SMT DEF Ids
  <1>3. \A c \in Ids : batches'[c] = batches[c] /\ c < n
    BY <1>1, <1>2, SMT
  <1>4. \A c \in Ids : Members(c)' = Members(c)
    BY <1>3 DEF Members
  <1>5. Ids' = Ids \cup {n} /\ n \notin Ids
    BY <1>2, SMT
  <1> QED
    BY <1>1, <1>2, <1>3, <1>4, <1>5

\* The invariant holds initially.
LEMMA AggInit == Init => AggInv
  <1> SUFFICES ASSUME Init PROVE AggInv
    OBVIOUS
  <1>1. batches = <<>> /\ Ids = {} /\ DOMAIN agenda = {}
    BY SMT DEF Init, Ids
  <1>2. Types
    <2>1. settings \in [transform : BOOLEAN, discard : BOOLEAN]
      BY ResultsAreKnown DEF Init
    <2> QED
      BY <2>1, SMT DEF Init, Types, TypeOK
  <1>3. ChainInv /\ HeldInv
    BY <1>1, SMT DEF Init, ChainInv, HeldInv, AnsweredOnce, LeftInv
  <1>4. LeaderInv
    BY <1>1 DEF Init, LeaderInv, InProgress
  <1>5. OpenInv
    BY <1>1 DEF Init, OpenInv, RefusedOnlyPartway
  <1> QED
    BY <1>2, <1>3, <1>4, <1>5 DEF AggInv

--------------------------------------------------------------------------------
\* Steps that leave the batches alone.
LEMMA SameBatches ==
  ASSUME batches' = batches
  PROVE  /\ Ids' = Ids /\ (ChainInv => ChainInv')
         /\ \A b : Members(b)' = Members(b) /\ (Retried(b)' <=> Retried(b))
         /\ \A t : Answered(t)' <=> Answered(t)
  <1>1. Ids' = Ids /\ \A b : Members(b)' = Members(b)
    BY DEF Ids, Members
  <1>2. \A b : Retried(b)' <=> Retried(b)
    BY <1>1 DEF Retried
  <1>3. \A t : Answered(t)' <=> Answered(t)
    BY <1>1 DEF Answered
  <1>4. ChainInv => ChainInv'
    BY <1>1, <1>2 DEF ChainInv
  <1> QED
    BY <1>1, <1>2, <1>3, <1>4

\* A row arrives.
LEMMA MarkBlockedStep ==
  ASSUME AggInv, NEW t \in Tokens, mark_blocked(t)
  PROVE  AggInv'
  <1>1. /\ journal[t] = "source" /\ journal' = [journal EXCEPT ![t] = "blocked"]
        /\ UNCHANGED <<settings, buffered, terminal, batches, batch, tokens, agenda, leader, crashes, answered>>
    BY DEF mark_blocked, memory
  <1>2. journal \in [Tokens -> {"source", "blocked", "adopted", "left"}]
    BY DEF AggInv, Types, TypeOK
  <1>3. /\ journal' \in [Tokens -> {"source", "blocked", "adopted", "left"}]
        /\ \A u \in Tokens : u # t => journal'[u] = journal[u]
        /\ journal'[t] = "blocked"
    BY <1>1, <1>2
  <1>4. Ids' = Ids /\ ChainInv' /\ (\A b : Members(b)' = Members(b) /\ (Retried(b)' <=> Retried(b)))
        /\ \A u : Answered(u)' <=> Answered(u)
    BY <1>1, SameBatches DEF AggInv
  <1>5. \A b \in Ids : t \notin Members(b) /\ \A u \in Members(b) : journal'[u] = journal[u]
    BY <1>1, <1>3, BatchTypes, SMT DEF AggInv, Types, HeldInv
  <1>6. terminal[t] # "unrouted"
    BY <1>1 DEF AggInv, HeldInv
  <1>7. Types'
    BY <1>1, <1>3 DEF AggInv, Types, TypeOK
  <1>8. HeldInv'
    <2>1. AnsweredOnce' /\ LeftInv'
      BY <1>1, <1>4, <1>5 DEF AggInv, HeldInv, AnsweredOnce, LeftInv
    <2>2. \A b \in Ids' : \A u \in Members(b)' : journal'[u] \in {"adopted", "left"}
      BY <1>4, <1>5 DEF AggInv, HeldInv
    <2>3. ASSUME NEW u \in Tokens
          PROVE  /\ journal'[u] = "adopted" => buffered'[u] \in Ids' /\ u \in Members(buffered[u])'
                 /\ journal'[u] = "left" => terminal'[u] = "unrouted" \/ Answered(u)'
                 /\ terminal'[u] \in {"consumed", "filtered", "quarantined"} => Answered(u)'
                 /\ terminal'[u] = "unrouted" => journal'[u] \in {"adopted", "left"}
                 /\ answered'[u] # 0 => Answered(u)'
      BY <1>1, <1>3, <1>4, <1>6 DEF AggInv, HeldInv
    <2> QED
      BY <1>1, <2>1, <2>2, <2>3 DEF HeldInv
  <1>9. LeaderInv'
    <2>1. InProgress'
      BY <1>1, <1>4, <1>5 DEF AggInv, LeaderInv, InProgress
    <2>2. ASSUME NEW i \in DOMAIN agenda
          PROVE  FlushStep(agenda[i])' /\ DisposalStep(agenda[i])' /\ RebuildStep(agenda[i])'
      <3>1. FlushStep(agenda[i]) /\ DisposalStep(agenda[i]) /\ RebuildStep(agenda[i])
        BY DEF AggInv, LeaderInv
      <3>2. FlushStep(agenda[i])' /\ DisposalStep(agenda[i])'
        BY <1>1, <1>4, <3>1 DEF FlushStep, DisposalStep
      <3>3. RebuildStep(agenda[i])'
        BY <1>1, <1>4, <1>5, <3>1 DEF RebuildStep
      <3> QED
        BY <3>2, <3>3
    <2> QED
      BY <1>1, <2>1, <2>2 DEF AggInv, LeaderInv
  <1>10. OpenInv'
    BY <1>1, <1>4, SMT DEF AggInv, OpenInv, Open, InHand, RefusedOnlyPartway, FailedPartway
  <1> QED
    BY <1>4, <1>7, <1>8, <1>9, <1>10 DEF AggInv

\* A batch is opened.
LEMMA OpenBatchStep ==
  ASSUME AggInv, open_batch_membership
  PROVE  AggInv'
  <1> DEFINE r == Draft(<<>>, 0)
  <1>1. /\ leader = "up" /\ agenda = <<>> /\ batch = 0 /\ batches' = Append(batches, r) /\ batch' = Len(batches')
        /\ UNCHANGED <<settings, journal, buffered, terminal, tokens, agenda, leader, crashes, answered>>
    BY DEF open_batch_membership, Idle
  <1>2. r \in Batch /\ r.status = "draft" /\ r.members = <<>> /\ r.retryOf = 0 /\ r.verdict = "none" /\ r.children = 0
        /\ r.published = FALSE
    BY SMT DEF Draft, Batch, Verdicts
  <1> HIDE DEF r
  <1>3. batches \in Seq(Batch)
    BY DEF AggInv, Types
  <1>6. Len(batches) \in Nat /\ Ids = 1 .. Len(batches) /\ 0 \notin Ids
    BY <1>3, BatchTypes
  <1>0. PICK n \in Nat : n = Len(batches) + 1
    BY <1>6, SMT
  <1>4. /\ batches' \in Seq(Batch) /\ Len(batches') = n /\ Ids' = Ids \cup {n} /\ n \notin Ids
        /\ batches'[n] = r
        /\ \A c \in Ids : batches'[c] = batches[c] /\ Members(c)' = Members(c) /\ c < n
    BY <1>0, <1>1, <1>2, <1>3, Appended
  <1>5. Members(n)' = {}
    BY <1>2, <1>4, RangeFacts DEF Members
  <1>7. /\ \A c \in Ids : Retried(c)' <=> Retried(c)
        /\ ~Retried(n)' /\ n # 0
    <2>1. \A c \in Ids : batches[c].retryOf # n
      <3>1. \A c \in Ids : batches[c].retryOf < c /\ batches[c].retryOf \in Nat
        BY <1>3, BatchTypes DEF AggInv, ChainInv
      <3> QED
        BY <3>1, <1>0, <1>6, SMT
    <2>2. r.retryOf # n /\ n # 0
      BY <1>0, <1>2, <1>6, SMT
    <2>3. \A c \in Ids : r.retryOf # c
      BY <1>2, <1>6
    <2> QED
      BY <1>4, <2>1, <2>2, <2>3 DEF Retried
  <1>8. \A t : Answered(t)' <=> Answered(t)
    BY <1>2, <1>4, <1>5 DEF Answered
  <1>9. Types'
    <2>1. buffered' \in [Tokens -> 0 .. Len(batches')] /\ batch' \in 0 .. Len(batches')
      BY <1>0, <1>1, <1>4, <1>6, SMT DEF AggInv, Types, TypeOK
    <2> QED
      BY <1>1, <1>4, <2>1 DEF AggInv, Types, TypeOK
  <1>10. ChainInv'
    <2>1. \A b \in Ids' : Retried(b)' => batches'[b].status = "failed" /\ batches'[b].verdict = "none"
      BY <1>4, <1>7 DEF AggInv, ChainInv
    <2>2. \A c \in Ids' : batches'[c].retryOf < c
      BY <1>2, <1>4, <1>7, SMT DEF AggInv, ChainInv
    <2>3. \A b, c \in Ids' : batches'[c].retryOf = b => Members(b)' \subseteq Members(c)'
      <3> TAKE b, c \in Ids'
      <3> HAVE batches'[c].retryOf = b
      <3>1. b # n /\ b \in Ids
        BY <1>4, <1>7 DEF Retried
      <3>2. c # n
        BY <1>2, <1>4, <1>6, <3>1
      <3> QED
        BY <1>4, <3>1, <3>2, SMT DEF AggInv, ChainInv
    <2>4. \A b, c \in Ids' : ~Retried(b)' /\ ~Retried(c)' /\ b # c => Members(b)' \cap Members(c)' = {}
      BY <1>4, <1>5, <1>7 DEF AggInv, ChainInv
    <2>5. \A b \in Ids' :
          /\ batches'[b].verdict = "none" => batches'[b].children = 0 /\ ~batches'[b].published
          /\ batches'[b].status \in {"draft", "executing"} => batches'[b].verdict = "none"
          /\ batches'[b].status = "completed" => batches'[b].verdict # "none"
          /\ batches'[b].status # "draft" => batches'[b].members # <<>>
      BY <1>2, <1>4, SMT DEF AggInv, ChainInv
    <2> QED
      BY <2>1, <2>2, <2>3, <2>4, <2>5 DEF ChainInv
  <1>11. HeldInv'
    <2>1. AnsweredOnce' /\ LeftInv'
      <3>1. AnsweredOnce'
        BY <1>1 DEF AggInv, HeldInv, AnsweredOnce
      <3>2. ASSUME NEW b \in Ids', batches'[b].verdict # "none", NEW u \in Members(b)'
            PROVE  Fits(batches'[b], u, journal'[u], terminal'[u])
        <4>1. b \in Ids /\ batches'[b] = batches[b] /\ u \in Members(b)
          BY <1>2, <1>4, <3>2
        <4> QED
          BY <1>1, <3>2, <4>1 DEF AggInv, HeldInv, LeftInv
      <3> QED
        BY <3>1, <3>2 DEF LeftInv
    <2>2. \A b \in Ids' : \A u \in Members(b)' : journal'[u] \in {"adopted", "left"}
      BY <1>1, <1>4, <1>5 DEF AggInv, HeldInv
    <2>3. ASSUME NEW u \in Tokens
          PROVE  /\ journal'[u] = "adopted" => buffered'[u] \in Ids' /\ u \in Members(buffered[u])'
                 /\ journal'[u] = "left" => terminal'[u] = "unrouted" \/ Answered(u)'
                 /\ terminal'[u] \in {"consumed", "filtered", "quarantined"} => Answered(u)'
                 /\ terminal'[u] = "unrouted" => journal'[u] \in {"adopted", "left"}
                 /\ answered'[u] # 0 => Answered(u)'
      BY <1>1, <1>4, <1>8 DEF AggInv, HeldInv
    <2> QED
      BY <1>1, <2>1, <2>2, <2>3 DEF HeldInv
  <1>12. LeaderInv'
    <2>1. tokens = <<>>
      BY <1>1 DEF AggInv, LeaderInv
    <2>2. InProgress'
      BY <1>1, <1>2, <1>4, <1>5, <2>1, SMT DEF InProgress
    <2> QED
      BY <1>1, <1>4, <1>7, <2>2, SMT DEF LeaderInv
  <1>13. OpenInv'
    <2>1. \A b \in Ids : ~Open(b)
      BY <1>1, <1>6, SMT DEF AggInv, OpenInv, InHand
    <2>2. \A b \in Ids' : ~Open(b)'
      BY <1>1, <1>4, <1>5, <1>7, <2>1 DEF Open
    <2> QED
      BY <1>1, <2>2 DEF AggInv, OpenInv, RefusedOnlyPartway
  <1> QED
    BY <1>9, <1>10, <1>11, <1>12, <1>13 DEF AggInv

\* A row is adopted into the batch in progress.
LEMMA AdoptStep ==
  ASSUME AggInv, NEW t \in Tokens, adopt_blocked_barrier_item(t)
  PROVE  AggInv'
  <1>1. /\ leader = "up" /\ agenda = <<>> /\ batch # 0 /\ journal[t] = "blocked"
        /\ journal' = [journal EXCEPT ![t] = "adopted"]
        /\ buffered' = [buffered EXCEPT ![t] = batch]
        /\ batches' = [batches EXCEPT ![batch].members = Append(batches[batch].members, t)]
        /\ tokens' = Append(tokens, t)
        /\ UNCHANGED <<settings, terminal, batch, agenda, leader, crashes, answered>>
    BY DEF adopt_blocked_barrier_item, Idle
  <1>2. batches \in Seq(Batch)
    BY DEF AggInv, Types
  <1>3. PICK b \in Ids : /\ b = batch /\ batches[b].status = "draft" /\ tokens = batches[b].members
                         /\ \A u \in Members(b) : journal[u] = "adopted" /\ terminal[u] = "none"
    BY <1>1 DEF AggInv, LeaderInv, InProgress
  <1>4. /\ batches[b] \in Batch /\ batches[b].members \in Seq(Tokens) /\ Members(b) \subseteq Tokens
        /\ Len(batches) \in Nat /\ Ids = 1 .. Len(batches) /\ 0 \notin Ids
    BY <1>2, BatchTypes
  <1> DEFINE r == [batches[b] EXCEPT !.members = Append(batches[b].members, t)]
  <1>5. r \in Batch
    <2> DEFINE m == Append(batches[b].members, t)
    <2>1. m \in Seq(Tokens)
      BY <1>4, SMT
    <2> HIDE DEF m
    <2>2. [batches[b] EXCEPT !.members = m] \in Batch
      BY <1>4, <2>1 DEF Batch
    <2> QED
      BY <2>2 DEF m
  <1>6. /\ r.members = Append(batches[b].members, t) /\ r.status = batches[b].status
        /\ r.retryOf = batches[b].retryOf /\ r.verdict = batches[b].verdict
        /\ r.children = batches[b].children /\ r.published = batches[b].published
    BY <1>4 DEF Batch
  <1>7. batches' = [batches EXCEPT ![b] = r]
    BY <1>1, <1>3
  <1> HIDE DEF r
  <1>8. /\ batches' \in Seq(Batch) /\ Len(batches') = Len(batches) /\ Ids' = Ids /\ batches'[b] = r
        /\ \A c \in Ids : c # b => batches'[c] = batches[c]
    BY <1>2, <1>5, <1>7, SMT DEF Ids
  <1>9. /\ Members(b)' = Members(b) \cup {t}
        /\ \A c \in Ids : c # b => Members(c)' = Members(c)
    BY <1>4, <1>6, <1>8, RangeFacts DEF Members
  <1>10. /\ \A c \in Ids : batches'[c].retryOf = batches[c].retryOf
         /\ \A c \in Ids : batches'[c].verdict = batches[c].verdict
         /\ \A c \in Ids : batches'[c].status = batches[c].status
         /\ \A c \in Ids : batches'[c].children = batches[c].children /\ batches'[c].published = batches[c].published
    BY <1>6, <1>8
  <1>11. \A c \in Ids : Retried(c)' <=> Retried(c)
    BY <1>8, <1>10 DEF Retried
  <1>12. ~Retried(b) /\ batches[b].verdict = "none"
    BY <1>3 DEF AggInv, ChainInv
  <1>13. /\ \A c \in Ids : t \notin Members(c)
         /\ terminal[t] = "none" /\ ~Answered(t) /\ answered[t] = 0
    <2>1. \A c \in Ids : t \notin Members(c)
      BY <1>1 DEF AggInv, HeldInv
    <2>2. ~Answered(t)
      BY <2>1 DEF Answered
    <2>3. terminal[t] \in {"none", "consumed", "unrouted", "filtered", "quarantined"}
      BY DEF AggInv, Types, TypeOK
    <2> QED
      BY <1>1, <2>1, <2>2, <2>3 DEF AggInv, HeldInv
  <1>14. \A u : Answered(u)' <=> Answered(u)
    BY <1>8, <1>9, <1>10, <1>12 DEF Answered
  <1>15. /\ journal' \in [Tokens -> {"source", "blocked", "adopted", "left"}]
         /\ journal'[t] = "adopted" /\ \A u \in Tokens : u # t => journal'[u] = journal[u]
         /\ buffered' \in [Tokens -> 0 .. Len(batches)]
         /\ buffered'[t] = b /\ \A u \in Tokens : u # t => buffered'[u] = buffered[u]
    BY <1>1, <1>3, <1>4 DEF AggInv, Types, TypeOK
  <1>16. Types'
    BY <1>1, <1>8, <1>15, SMT DEF AggInv, Types, TypeOK
  <1>17. ChainInv'
    <2>1. \A c \in Ids' : Retried(c)' => batches'[c].status = "failed" /\ batches'[c].verdict = "none"
      BY <1>8, <1>10, <1>11, SMT DEF AggInv, ChainInv
    <2>2. \A c \in Ids' : batches'[c].retryOf < c
      BY <1>8, <1>10 DEF AggInv, ChainInv
    <2>3. \A c, d \in Ids' : batches'[d].retryOf = c => Members(c)' \subseteq Members(d)'
      <3> TAKE c, d \in Ids'
      <3> HAVE batches'[d].retryOf = c
      <3>1. c \in Ids /\ d \in Ids /\ batches[d].retryOf = c
        BY <1>8, <1>10
      <3>2. c # b
        BY <3>1, <1>12 DEF Retried
      <3>3. Members(c) \subseteq Members(d)
        BY <3>1 DEF AggInv, ChainInv
      <3> QED
        BY <1>9, <3>1, <3>2, <3>3
    <2>4. \A c, d \in Ids' : ~Retried(c)' /\ ~Retried(d)' /\ c # d => Members(c)' \cap Members(d)' = {}
      BY <1>8, <1>9, <1>11, <1>13, SMT DEF AggInv, ChainInv
    <2>5. \A c \in Ids' :
          /\ batches'[c].verdict = "none" => batches'[c].children = 0 /\ ~batches'[c].published
          /\ batches'[c].status \in {"draft", "executing"} => batches'[c].verdict = "none"
          /\ batches'[c].status = "completed" => batches'[c].verdict # "none"
          /\ batches'[c].status # "draft" => batches'[c].members # <<>>
      BY <1>3, <1>8, <1>10, SMT DEF AggInv, ChainInv
    <2> QED
      BY <2>1, <2>2, <2>3, <2>4, <2>5 DEF ChainInv
  <1>18. HeldInv'
    <2>1. AnsweredOnce'
      BY <1>1 DEF AggInv, HeldInv, AnsweredOnce
    <2>2. ASSUME NEW c \in Ids', batches'[c].verdict # "none", NEW u \in Members(c)'
          PROVE  Fits(batches'[c], u, journal'[u], terminal'[u])
      <3>1. c \in Ids /\ c # b /\ u \in Members(c) /\ batches[c].verdict # "none"
        BY <1>8, <1>9, <1>10, <1>12, <2>2
      <3>2. u # t /\ u \in Tokens
        BY <1>2, <1>13, <3>1, BatchTypes
      <3> QED
        BY <1>1, <1>10, <1>15, <3>1, <3>2, SMT DEF AggInv, HeldInv, LeftInv
    <2>3. LeftInv'
      BY <2>2 DEF LeftInv
    <2>4. ASSUME NEW c \in Ids', NEW u \in Members(c)' PROVE journal'[u] \in {"adopted", "left"}
      <3>1. c \in Ids /\ (u = t \/ (u # t /\ u \in Members(c)))
        BY <1>8, <1>9, <2>4
      <3> QED
        BY <1>2, <1>15, <3>1, BatchTypes DEF AggInv, HeldInv
    <2>5. ASSUME NEW u \in Tokens
          PROVE  /\ journal'[u] = "adopted" => buffered'[u] \in Ids' /\ u \in Members(buffered[u])'
                 /\ journal'[u] = "left" => terminal'[u] = "unrouted" \/ Answered(u)'
                 /\ terminal'[u] \in {"consumed", "filtered", "quarantined"} => Answered(u)'
                 /\ terminal'[u] = "unrouted" => journal'[u] \in {"adopted", "left"}
                 /\ answered'[u] # 0 => Answered(u)'
      <3>1. journal'[u] = "adopted" => buffered'[u] \in Ids' /\ u \in Members(buffered[u])'
        <4> SUFFICES ASSUME journal'[u] = "adopted" PROVE buffered'[u] \in Ids' /\ u \in Members(buffered[u])'
          OBVIOUS
        <4>1. PICK c \in Ids : c = buffered'[u] /\ (u = t => c = b) /\ (u # t => u \in Members(c))
          BY <1>15 DEF AggInv, HeldInv
        <4>2. u \in Members(c)'
          BY <1>9, <4>1
        <4>3. Members(c)' = Members(buffered[u])'
          BY <4>1 DEF Members
        <4> QED
          BY <1>8, <4>1, <4>2, <4>3
      <3>2. /\ journal'[u] = "left" => terminal'[u] = "unrouted" \/ Answered(u)'
            /\ terminal'[u] \in {"consumed", "filtered", "quarantined"} => Answered(u)'
            /\ terminal'[u] = "unrouted" => journal'[u] \in {"adopted", "left"}
            /\ answered'[u] # 0 => Answered(u)'
        BY <1>1, <1>14, <1>15 DEF AggInv, HeldInv
      <3> QED
        BY <3>1, <3>2
    <2> QED
      BY <2>1, <2>3, <2>4, <2>5 DEF HeldInv
  <1>19. LeaderInv'
    <2>1. \A u \in Members(b)' : journal'[u] = "adopted" /\ terminal'[u] = "none"
      BY <1>1, <1>3, <1>4, <1>9, <1>13, <1>15
    <2>2. Members(batch)' = Members(b)'
      BY <1>1, <1>3 DEF Members
    <2>3. tokens' = batches'[b].members
      BY <1>1, <1>3, <1>6, <1>8
    <2>4. InProgress'
      BY <1>1, <1>3, <1>8, <1>10, <2>1, <2>2, <2>3, SMT DEF InProgress
    <2> QED
      BY <1>1, <2>4, SMT DEF AggInv, LeaderInv
  <1>20. OpenInv'
    <2>1. \A c \in Ids : Open(c) => c = b
      BY <1>1, <1>3, SMT DEF AggInv, OpenInv, InHand
    <2>2. \A c \in Ids' : Open(c)' => c = b
      BY <1>1, <1>8, <1>9, <1>10, <1>11, <2>1 DEF Open
    <2> QED
      BY <1>1, <1>3, <2>2 DEF AggInv, OpenInv, InHand, RefusedOnlyPartway
  <1> QED
    BY <1>16, <1>17, <1>18, <1>19, <1>20 DEF AggInv

\* A batch's row changes otherwise than in its verdict, its children and what of it
\* is published: the chains stay, and what the tokens are known by.
LEMMA StatusSet ==
  ASSUME AggInv, NEW b \in Ids, NEW st \in {"executing", "failed"},
         batches' = [batches EXCEPT ![b].status = st], batches[b].verdict = "none", batches[b].members # <<>>,
         st = "executing" => ~Retried(b)
  PROVE  /\ batches' \in Seq(Batch) /\ Len(batches') = Len(batches) /\ Ids' = Ids /\ batches'[b].status = st
         /\ \A c \in Ids : /\ c # b => batches'[c].status = batches[c].status
                           /\ batches'[c].verdict = batches[c].verdict /\ batches'[c].children = batches[c].children
                           /\ batches'[c].published = batches[c].published /\ batches'[c].quarantined = batches[c].quarantined
                           /\ batches'[c].members = batches[c].members
                           /\ Members(c)' = Members(c) /\ (Retried(c)' <=> Retried(c))
         /\ \A t : Answered(t)' <=> Answered(t)
         /\ ChainInv'
  <1>1. batches \in Seq(Batch)
    BY DEF AggInv, Types
  <1>2. batches[b] \in Batch
    BY <1>1, BatchTypes
  <1> DEFINE r == [batches[b] EXCEPT !.status = st]
  <1>3. r \in Batch
    BY <1>2 DEF Batch
  <1>4. /\ r.members = batches[b].members /\ r.status = st /\ r.retryOf = batches[b].retryOf
        /\ r.verdict = batches[b].verdict /\ r.children = batches[b].children /\ r.published = batches[b].published
        /\ r.quarantined = batches[b].quarantined
    BY <1>2 DEF Batch
  <1>5. batches' = [batches EXCEPT ![b] = r]
    OBVIOUS
  <1> HIDE DEF r
  <1>6. /\ batches' \in Seq(Batch) /\ Len(batches') = Len(batches) /\ Ids' = Ids /\ batches'[b] = r
        /\ \A c \in Ids : /\ c # b => batches'[c] = batches[c]
                          /\ batches'[c].members = batches[c].members
                          /\ Members(c)' = Members(c) /\ (Retried(c)' <=> Retried(c))
    BY <1>1, <1>3, <1>4, <1>5, RowSet
  <1>7. \A c \in Ids : /\ c # b => batches'[c].status = batches[c].status
                       /\ batches'[c].retryOf = batches[c].retryOf
                       /\ batches'[c].verdict = batches[c].verdict /\ batches'[c].children = batches[c].children
                       /\ batches'[c].published = batches[c].published
    BY <1>4, <1>6
  <1>q. \A c \in Ids : batches'[c].quarantined = batches[c].quarantined
    BY <1>4, <1>6
  <1>8. \A t : Answered(t)' <=> Answered(t)
    BY <1>6, <1>7 DEF Answered
  <1>9. ChainInv'
    <2>1. \A c \in Ids' : Retried(c)' => batches'[c].status = "failed" /\ batches'[c].verdict = "none"
      BY <1>4, <1>6, <1>7, SMT DEF AggInv, ChainInv
    <2>2. \A c \in Ids' : batches'[c].retryOf < c
      BY <1>6, <1>7 DEF AggInv, ChainInv
    <2>3. \A c, d \in Ids' : batches'[d].retryOf = c => Members(c)' \subseteq Members(d)'
      BY <1>6, <1>7, SMT DEF AggInv, ChainInv
    <2>4. \A c, d \in Ids' : ~Retried(c)' /\ ~Retried(d)' /\ c # d => Members(c)' \cap Members(d)' = {}
      BY <1>6 DEF AggInv, ChainInv
    <2>5. \A c \in Ids' :
          /\ batches'[c].verdict = "none" => batches'[c].children = 0 /\ ~batches'[c].published
          /\ batches'[c].status \in {"draft", "executing"} => batches'[c].verdict = "none"
          /\ batches'[c].status = "completed" => batches'[c].verdict # "none"
          /\ batches'[c].status # "draft" => batches'[c].members # <<>>
      BY <1>4, <1>6, <1>7, SMT DEF AggInv, ChainInv
    <2> QED
      BY <2>1, <2>2, <2>3, <2>4, <2>5 DEF ChainInv
  <1> QED
    BY <1>4, <1>6, <1>7, <1>8, <1>9, <1>q

\* What is known of the tokens depends on members, verdicts, children and publication.
LEMMA HeldFrame ==
  ASSUME AggInv, Ids' = Ids, UNCHANGED <<journal, buffered, terminal, answered>>,
         \A c \in Ids : /\ batches'[c].verdict = batches[c].verdict /\ batches'[c].children = batches[c].children
                        /\ batches'[c].published = batches[c].published /\ Members(c)' = Members(c)
                        /\ batches'[c].quarantined = batches[c].quarantined
  PROVE  HeldInv'
  <1>1. \A t : Answered(t)' <=> Answered(t)
    BY DEF Answered
  <1>2. AnsweredOnce' /\ LeftInv'
    <2>1. ASSUME NEW c \in Ids', batches'[c].verdict # "none", NEW u \in Members(c)'
          PROVE  Fits(batches'[c], u, journal'[u], terminal'[u])
      <3>1. Fits(batches[c], u, journal[u], terminal[u])
        BY <2>1 DEF AggInv, HeldInv, LeftInv
      <3> QED
        BY <2>1, <3>1 DEF Fits
    <2> QED
      BY <2>1 DEF AggInv, HeldInv, AnsweredOnce, LeftInv
  <1>3. \A b \in Ids' : \A u \in Members(b)' : journal'[u] \in {"adopted", "left"}
    BY DEF AggInv, HeldInv
  <1>4. ASSUME NEW u \in Tokens
        PROVE  /\ journal'[u] = "adopted" => buffered'[u] \in Ids' /\ u \in Members(buffered[u])'
               /\ journal'[u] = "left" => terminal'[u] = "unrouted" \/ Answered(u)'
               /\ terminal'[u] \in {"consumed", "filtered", "quarantined"} => Answered(u)'
               /\ terminal'[u] = "unrouted" => journal'[u] \in {"adopted", "left"}
               /\ answered'[u] # 0 => Answered(u)'
    BY <1>1 DEF AggInv, HeldInv
  <1> QED
    BY <1>2, <1>3, <1>4 DEF HeldInv

\* A flush begins.
LEMMA ExecuteFlushStep ==
  ASSUME AggInv, execute_flush
  PROVE  AggInv'
  <1>1. /\ leader = "up" /\ agenda = <<>> /\ tokens # <<>>
        /\ batches' = [batches EXCEPT ![batch].status = "executing"]
        /\ agenda' = <<Step("plugin", batch, tokens)>>
        /\ UNCHANGED <<settings, journal, buffered, terminal, batch, tokens, leader, crashes, answered>>
    BY DEF execute_flush, Idle, memory
  <1>2. PICK b \in Ids : /\ b = batch /\ batches[b].status = "draft" /\ tokens = batches[b].members /\ b # 0
                         /\ \A u \in Members(b) : journal[u] = "adopted" /\ terminal[u] = "none"
    BY <1>1 DEF AggInv, LeaderInv, InProgress
  <1>3. ~Retried(b) /\ batches[b].verdict = "none" /\ batches[b].members # <<>> /\ b \in Nat /\ tokens \in Seq(Tokens)
    BY <1>1, <1>2, BatchTypes DEF AggInv, ChainInv, Types
  <1>4. /\ batches' \in Seq(Batch) /\ Len(batches') = Len(batches) /\ Ids' = Ids /\ batches'[b].status = "executing"
        /\ \A c \in Ids : /\ c # b => batches'[c].status = batches[c].status
                          /\ batches'[c].verdict = batches[c].verdict /\ batches'[c].children = batches[c].children
                          /\ batches'[c].published = batches[c].published /\ batches'[c].quarantined = batches[c].quarantined
                          /\ batches'[c].members = batches[c].members
                          /\ Members(c)' = Members(c) /\ (Retried(c)' <=> Retried(c))
        /\ ChainInv'
    BY <1>1, <1>2, <1>3, StatusSet
  <1> DEFINE s == Step("plugin", b, tokens)
  <1>5. s \in Steps /\ s.op = "plugin" /\ s.batch = b /\ s.tokens = tokens
    BY <1>3 DEF Step, Steps
  <1> HIDE DEF s
  <1>6. agenda' = <<s>>
    BY <1>1, <1>2 DEF s
  <1>7. agenda' \in Seq(Steps) /\ Len(agenda') = 1 /\ DOMAIN agenda' = {1} /\ agenda'[1] = s /\ agenda' # <<>>
    BY <1>5, <1>6, SMT
  <1>8. Types'
    BY <1>1, <1>4, <1>7 DEF AggInv, Types, TypeOK
  <1>9. HeldInv'
    BY <1>1, <1>4, HeldFrame
  <1>10. LeaderInv'
    <2>1. Members(batch)' = Members(b)' /\ Range(tokens) = Members(b)
      BY <1>1, <1>2 DEF Members
    <2>2. InProgress'
      BY <1>1, <1>2, <1>4, <1>5, <1>7, <2>1, SMT DEF InProgress
    <2>3. FlushStep(agenda[1])' /\ DisposalStep(agenda[1])' /\ RebuildStep(agenda[1])'
      BY <1>1, <1>2, <1>3, <1>4, <1>5, <1>7, <2>1, SMT DEF FlushStep, DisposalStep, RebuildStep
    <2> QED
      BY <1>1, <1>2, <1>5, <1>7, <2>2, <2>3 DEF LeaderInv
  <1>11. OpenInv'
    <2>1. \A c \in Ids : Open(c) => c = b
      BY <1>1, <1>2, SMT DEF AggInv, OpenInv, InHand
    <2>2. \A c \in Ids' : Open(c)' => c = b
      BY <1>1, <1>4, <2>1 DEF Open
    <2> QED
      BY <1>1, <1>2, <2>2 DEF AggInv, OpenInv, InHand, RefusedOnlyPartway
  <1> QED
    BY <1>4, <1>8, <1>9, <1>10, <1>11 DEF AggInv

\* The steps that dispose of batch b.
DisposalOf(b) == {s \in Steps : s.op \in {"expand", "complete"} /\ s.batch = b}

\* What is put on the agenda for a recorded result disposes of its batch.
LEMMA Disposed ==
  ASSUME NEW b \in Nat, NEW verdict
  PROVE  Disposal(b, verdict) \in Seq(DisposalOf(b)) /\ DisposalOf(b) \subseteq Steps
         /\ <<Step("complete", b, <<>>)>> \in Seq(DisposalOf(b))
  <1> DEFINE e == Step("expand", b, <<>>)
             f == Step("complete", b, <<>>)
             S == DisposalOf(b)
  <1>1. e \in S /\ f \in S
    BY SMT DEF Step, Steps, DisposalOf
  <1>2. Disposal(b, verdict) = <<e>> \o <<f>> \/ Disposal(b, verdict) = <<>> \o <<f>>
    BY DEF Disposal
  <1>3. S \subseteq Steps
    BY DEF DisposalOf
  <1> HIDE DEF e, f, S
  <1>4. <<e>> \in Seq(S) /\ <<f>> \in Seq(S) /\ <<>> \in Seq(S)
    BY <1>1, SMT
  <1>5. <<e>> \o <<f>> \in Seq(S) /\ <<>> \o <<f>> \in Seq(S)
    BY <1>4, SMT
  <1> QED
    BY <1>2, <1>3, <1>4, <1>5 DEF S, f

\* The plugin's answer is recorded.
LEMMA AnswerStep ==
  ASSUME AggInv, complete_aggregation_result
  PROVE  AggInv'
  <1>0. PICK result \in Results \cap {"rows", "empty", "error"} :
             \E Q \in Quarantines(Head(agenda).batch, result) : Answer(Head(agenda).batch, result, result, Q)
    BY DEF complete_aggregation_result
  <1>q. PICK Q \in Quarantines(Head(agenda).batch, result) : Answer(Head(agenda).batch, result, result, Q)
    BY <1>0
  <1>1. Doing("plugin")
    BY DEF complete_aggregation_result
  <1>2. leader = "up" /\ 1 \in DOMAIN agenda /\ Head(agenda) = agenda[1] /\ agenda[1].op = "plugin"
    BY <1>1, FirstStep
  <1>3. PICK b \in Ids : /\ b = batch /\ b # 0 /\ Head(agenda).batch = b /\ batches[b].status = "executing"
                         /\ \A u \in Members(b) : journal[u] = "adopted" /\ terminal[u] = "none"
    <2>1. FlushStep(agenda[1])
      BY <1>2 DEF AggInv, LeaderInv
    <2> QED
      BY <1>2, <2>1 DEF AggInv, LeaderInv, InProgress, FlushStep
  <1> DEFINE st == IF result = "error" THEN "failed" ELSE "completed"
  <1>4. /\ batches' = [batches EXCEPT ![b].status = st, ![b].verdict = result, ![b].quarantined = Q]
        /\ answered' = [t \in Tokens |-> IF t \in Members(b) THEN answered[t] + 1 ELSE answered[t]]
        /\ agenda' = Disposal(b, result) /\ batch' = 0 /\ tokens' = <<>>
        /\ UNCHANGED <<settings, journal, buffered, terminal, leader, crashes>>
    BY <1>3, <1>q DEF Answer
  <1>5. batches \in Seq(Batch) /\ batches[b] \in Batch /\ b \in Nat /\ 0 \notin Ids
    BY BatchTypes DEF AggInv, Types
  <1>6. /\ ~Retried(b) /\ batches[b].verdict = "none" /\ batches[b].members # <<>>
        /\ batches[b].children = 0 /\ ~batches[b].published
    BY <1>3 DEF AggInv, ChainInv
  <1>7. st \in {"failed", "completed"}
    OBVIOUS
  <1>p. Q \in SUBSET Tokens
    <2>1. Q \in SUBSET Members(b)
      BY <1>3 DEF Quarantines
    <2>2. Members(b) \subseteq Tokens
      BY <1>5, BatchTypes
    <2> QED
      BY <2>1, <2>2
  <1> DEFINE r == [batches[b] EXCEPT !.status = st, !.verdict = result, !.quarantined = Q]
  <1>9. batches' = [batches EXCEPT ![b] = r]
    <2> HIDE DEF st
    <2> QED
      BY <1>4, <1>5
  <1> HIDE DEF st
  <1>8. /\ r \in Batch
        /\ r.members = batches[b].members /\ r.status = st /\ r.retryOf = batches[b].retryOf
        /\ r.verdict = result /\ r.children = batches[b].children /\ r.published = batches[b].published
    BY <1>0, <1>5, <1>7, <1>p DEF Batch, Verdicts
  <1> HIDE DEF r
  <1>10. /\ batches' \in Seq(Batch) /\ Len(batches') = Len(batches) /\ Ids' = Ids /\ batches'[b] = r
         /\ \A c \in Ids : /\ c # b => batches'[c] = batches[c]
                           /\ batches'[c].members = batches[c].members
                           /\ Members(c)' = Members(c) /\ (Retried(c)' <=> Retried(c))
    BY <1>5, <1>8, <1>9, RowSet
  <1>11. batches'[b].verdict # "none"
    BY <1>0, <1>8, <1>10
  <1>12. /\ \A t \in Members(b) : Answered(t)' /\ ~Answered(t)
         /\ \A t : Answered(t) => Answered(t)'
    <2>1. \A t \in Members(b) : ~Answered(t)
      BY <1>3, <1>6 DEF AggInv, ChainInv, Answered
    <2> QED
      BY <1>6, <1>10, <1>11, <2>1 DEF Answered
  <1>13. /\ agenda' \in Seq(Steps)
         /\ \A i \in DOMAIN agenda' : agenda'[i].op \in {"expand", "complete"} /\ agenda'[i].batch = b
    <2>1. agenda' \in Seq(DisposalOf(b)) /\ DisposalOf(b) \subseteq Steps
      BY <1>4, <1>5, Disposed
    <2>2. \A i \in DOMAIN agenda' : agenda'[i] \in DisposalOf(b)
      BY <2>1, SMT
    <2> QED
      BY <2>1, <2>2, SMT DEF DisposalOf
  <1>14. Types'
    <2>1. answered' \in [Tokens -> Nat]
      BY <1>4, SMT DEF AggInv, Types
    <2> QED
      BY <1>4, <1>10, <1>13, <2>1, SMT DEF AggInv, Types, TypeOK
  <1>15. ChainInv'
    <2>1. \A c \in Ids' : Retried(c)' => batches'[c].status = "failed" /\ batches'[c].verdict = "none"
      BY <1>6, <1>10, SMT DEF AggInv, ChainInv
    <2>2. \A c \in Ids : batches'[c].retryOf = batches[c].retryOf
      BY <1>8, <1>10
    <2>3. \A c \in Ids' : batches'[c].retryOf < c
      BY <1>10, <2>2 DEF AggInv, ChainInv
    <2>4. \A c, d \in Ids' : batches'[d].retryOf = c => Members(c)' \subseteq Members(d)'
      BY <1>10, <2>2, SMT DEF AggInv, ChainInv
    <2>5. \A c, d \in Ids' : ~Retried(c)' /\ ~Retried(d)' /\ c # d => Members(c)' \cap Members(d)' = {}
      BY <1>10 DEF AggInv, ChainInv
    <2>6. \A c \in Ids' :
          /\ batches'[c].verdict = "none" => batches'[c].children = 0 /\ ~batches'[c].published
          /\ batches'[c].status \in {"draft", "executing"} => batches'[c].verdict = "none"
          /\ batches'[c].status = "completed" => batches'[c].verdict # "none"
          /\ batches'[c].status # "draft" => batches'[c].members # <<>>
      <3> TAKE c \in Ids'
      <3>1. CASE c = b
        BY <1>6, <1>7, <1>8, <1>10, <1>11, <3>1
      <3>2. CASE c # b
        BY <1>10, <3>2 DEF AggInv, ChainInv
      <3> QED
        BY <3>1, <3>2
    <2> QED
      BY <2>1, <2>3, <2>4, <2>5, <2>6 DEF ChainInv
  <1>16. HeldInv'
    <2>1. ASSUME NEW t \in Tokens PROVE answered'[t] <= 1 /\ (answered'[t] # 0 => Answered(t)')
      <3>1. answered[t] <= 1 /\ (answered[t] # 0 => Answered(t)) /\ answered[t] \in Nat
        BY DEF AggInv, HeldInv, AnsweredOnce, Types
      <3>2. CASE t \in Members(b)
        BY <1>4, <1>12, <3>1, <3>2, SMT
      <3>3. CASE t \notin Members(b)
        BY <1>4, <1>12, <3>1, <3>3
      <3> QED
        BY <3>2, <3>3
    <2>2. ASSUME NEW c \in Ids', batches'[c].verdict # "none", NEW u \in Members(c)'
          PROVE  Fits(batches'[c], u, journal'[u], terminal'[u])
      <3>1. CASE c = b
        <4>1. /\ journal'[u] = "adopted" /\ terminal'[u] = "none"
              /\ batches'[c].children = 0 /\ ~batches'[c].published
          <5>1. u \in Members(b) /\ batches'[c] = r
            BY <1>10, <2>2, <3>1
          <5>2. journal'[u] = "adopted" /\ terminal'[u] = "none"
            BY <1>3, <1>4, <5>1
          <5> QED
            BY <1>6, <1>8, <5>1, <5>2
        <4> QED
          BY <4>1 DEF Fits
      <3>2. CASE c # b
        <4>1. c \in Ids /\ batches'[c] = batches[c] /\ u \in Members(c)
          BY <1>10, <2>2, <3>2
        <4> QED
          BY <1>4, <2>2, <4>1 DEF AggInv, HeldInv, LeftInv
      <3> QED
        BY <3>1, <3>2
    <2>3. \A c \in Ids' : \A u \in Members(c)' : journal'[u] \in {"adopted", "left"}
      BY <1>4, <1>10 DEF AggInv, HeldInv
    <2>4. ASSUME NEW u \in Tokens
          PROVE  /\ journal'[u] = "adopted" => buffered'[u] \in Ids' /\ u \in Members(buffered[u])'
                 /\ journal'[u] = "left" => terminal'[u] = "unrouted" \/ Answered(u)'
                 /\ terminal'[u] \in {"consumed", "filtered", "quarantined"} => Answered(u)'
                 /\ terminal'[u] = "unrouted" => journal'[u] \in {"adopted", "left"}
      BY <1>4, <1>10, <1>12 DEF AggInv, HeldInv
    <2> QED
      BY <2>1, <2>2, <2>3, <2>4 DEF HeldInv, AnsweredOnce, LeftInv
  <1>17. LeaderInv'
    <2>1. InProgress'
      BY <1>4 DEF InProgress
    <2>2. ASSUME NEW i \in DOMAIN agenda'
          PROVE  /\ FlushStep(agenda[i])' /\ DisposalStep(agenda[i])' /\ RebuildStep(agenda[i])'
                 /\ agenda'[i].op \notin {"plugin", "unrouted", "rebuild"}
      <3>1. agenda'[i].op \in {"expand", "complete"} /\ agenda'[i].batch = b
        BY <1>13
      <3> QED
        BY <1>4, <1>10, <1>11, <3>1 DEF FlushStep, DisposalStep, RebuildStep
    <2> QED
      BY <1>2, <1>4, <2>1, <2>2 DEF LeaderInv
  <1>18. OpenInv'
    <2>1. \A c \in Ids : Open(c) => c = b
      <3>1. \A i \in DOMAIN agenda : agenda[i].op # "rebuild"
        BY <1>3 DEF AggInv, LeaderInv, InProgress
      <3> QED
        BY <1>2, <1>3, <3>1 DEF AggInv, OpenInv, InHand
    <2>2. \A c \in Ids' : ~Open(c)'
      BY <1>4, <1>10, <1>11, <2>1 DEF Open
    <2> QED
      BY <1>2, <1>4, <2>2 DEF AggInv, OpenInv, RefusedOnlyPartway
  <1> QED
    BY <1>14, <1>15, <1>16, <1>17, <1>18 DEF AggInv

\* The leader dies: its memory is gone.
LEMMA DiesLeader ==
  ASSUME Dies
  PROVE  LeaderInv'
  <1>1. leader' = "down" /\ agenda' = <<>> /\ batch' = 0 /\ tokens' = <<>> /\ DOMAIN agenda' = {}
    BY SMT DEF Dies
  <1> QED
    BY <1>1 DEF LeaderInv, InProgress

\* A crash.
LEMMA CrashStep ==
  ASSUME AggInv, Crash
  PROVE  AggInv'
  <1>1. /\ leader' = "down" /\ agenda' = <<>> /\ batch' = 0 /\ tokens' = <<>>
        /\ UNCHANGED <<settings, journal, buffered, terminal, batches, answered>>
    BY DEF Crash, Dies, landscape
  <1>2. Ids' = Ids /\ ChainInv' /\ (\A b : Members(b)' = Members(b) /\ (Retried(b)' <=> Retried(b)))
    BY <1>1, SameBatches DEF AggInv
  <1>3. HeldInv'
    BY <1>1, <1>2, HeldFrame
  <1>4. Types'
    BY <1>1, BatchTypes, SMT DEF AggInv, Types, TypeOK
  <1>5. LeaderInv'
    BY DiesLeader DEF Crash
  <1>6. OpenInv'
    BY <1>1, <1>2 DEF AggInv, OpenInv, Open, RefusedOnlyPartway
  <1> QED
    BY <1>2, <1>3, <1>4, <1>5, <1>6 DEF AggInv

\* The plugin raises: the batch failed, and the leader dies.
LEMMA FailStep ==
  ASSUME AggInv, fail_unfinalized_batch
  PROVE  AggInv'
  <1>1. Doing("plugin") /\ Dies
    BY DEF fail_unfinalized_batch
  <1>2. leader = "up" /\ 1 \in DOMAIN agenda /\ Head(agenda) = agenda[1] /\ agenda[1].op = "plugin"
    BY <1>1, FirstStep
  <1>3. PICK b \in Ids : b = batch /\ b # 0 /\ Head(agenda).batch = b /\ batches[b].status = "executing"
    <2>1. FlushStep(agenda[1])
      BY <1>2 DEF AggInv, LeaderInv
    <2> QED
      BY <1>2, <2>1 DEF AggInv, LeaderInv, InProgress, FlushStep
  <1>4. /\ batches' = [batches EXCEPT ![b].status = "failed"]
        /\ leader' = "down" /\ agenda' = <<>> /\ batch' = 0 /\ tokens' = <<>>
        /\ UNCHANGED <<settings, journal, buffered, terminal, crashes, answered>>
    BY <1>3 DEF fail_unfinalized_batch, Dies
  <1>5. batches[b].verdict = "none" /\ batches[b].members # <<>>
    BY <1>3 DEF AggInv, ChainInv
  <1>6. /\ batches' \in Seq(Batch) /\ Len(batches') = Len(batches) /\ Ids' = Ids
        /\ \A c \in Ids : /\ batches'[c].verdict = batches[c].verdict /\ batches'[c].children = batches[c].children
                          /\ batches'[c].published = batches[c].published /\ batches'[c].quarantined = batches[c].quarantined
                          /\ Members(c)' = Members(c) /\ (Retried(c)' <=> Retried(c))
        /\ ChainInv'
    BY <1>4, <1>5, StatusSet
  <1>7. HeldInv'
    BY <1>4, <1>6, HeldFrame
  <1>8. Types'
    BY <1>4, <1>6, BatchTypes, SMT DEF AggInv, Types, TypeOK
  <1>9. LeaderInv'
    BY <1>1, DiesLeader
  <1>10. OpenInv'
    BY <1>4, <1>6, SMT DEF AggInv, OpenInv, Open, RefusedOnlyPartway
  <1> QED
    BY <1>6, <1>7, <1>8, <1>9, <1>10 DEF AggInv

\* A Tier-1 violation is found.
LEMMA ViolateStep ==
  ASSUME AggInv, violate
  PROVE  AggInv'
  <1>1. Doing("plugin")
    BY DEF violate
  <1>2. /\ leader = "up" /\ 1 \in DOMAIN agenda /\ Head(agenda) = agenda[1] /\ agenda[1].op = "plugin"
        /\ agenda[1].batch \in Nat /\ agenda[1].tokens \in Seq(Tokens)
    BY <1>1, FirstStep
  <1> DEFINE s == Step("unrouted", agenda[1].batch, agenda[1].tokens)
  <1>3. /\ agenda' = <<s>>
        /\ UNCHANGED <<settings, journal, buffered, terminal, batches, batch, tokens, leader, crashes, answered>>
    BY <1>2 DEF violate, landscape, memory
  <1>4. s \in Steps /\ s.op = "unrouted" /\ s.batch = agenda[1].batch /\ s.tokens = agenda[1].tokens
    BY <1>2 DEF Step, Steps
  <1> HIDE DEF s
  <1>5. agenda' \in Seq(Steps) /\ Len(agenda') = 1 /\ DOMAIN agenda' = {1} /\ agenda'[1] = s /\ agenda' # <<>>
    BY <1>3, <1>4, SMT
  <1>6. Ids' = Ids /\ ChainInv' /\ (\A b : Members(b)' = Members(b) /\ (Retried(b)' <=> Retried(b)))
    BY <1>3, SameBatches DEF AggInv
  <1>7. HeldInv'
    BY <1>3, <1>6, HeldFrame
  <1>8. Types'
    BY <1>3, <1>5 DEF AggInv, Types, TypeOK
  <1>9. FlushStep(agenda[1])
    BY <1>2 DEF AggInv, LeaderInv
  <1>10. PICK b : b = batch
    OBVIOUS
  <1>11. Members(batch)' = Members(b)' /\ Members(b)' = Members(b)
    BY <1>3, <1>6, <1>10 DEF Members
  <1>12. LeaderInv'
    <2>1. InProgress'
      BY <1>3, <1>4, <1>5, <1>6, <1>10, <1>11 DEF AggInv, LeaderInv, InProgress
    <2>2. FlushStep(agenda[1])' /\ DisposalStep(agenda[1])' /\ RebuildStep(agenda[1])'
      BY <1>2, <1>3, <1>4, <1>5, <1>9, <1>10, <1>11 DEF FlushStep, DisposalStep, RebuildStep
    <2> QED
      BY <1>2, <1>3, <1>5, <1>9, <2>1, <2>2 DEF AggInv, LeaderInv, FlushStep
  <1>13. OpenInv'
    <2>1. \A i \in DOMAIN agenda : agenda[i].op # "rebuild"
      BY <1>2, <1>9 DEF AggInv, LeaderInv, InProgress, FlushStep
    <2>2. \A c \in Ids : Open(c) => c = batch
      BY <1>2, <2>1 DEF AggInv, OpenInv, InHand
    <2>3. \A c \in Ids' : Open(c)' <=> Open(c)
      BY <1>3, <1>6 DEF Open
    <2> QED
      BY <1>2, <1>3, <1>6, <2>2, <2>3 DEF OpenInv, InHand, RefusedOnlyPartway
  <1> QED
    BY <1>6, <1>7, <1>8, <1>12, <1>13 DEF AggInv

\* A member of the batch has failed.
LEMMA ViolationFailureStep ==
  ASSUME AggInv, record_batch_violation_failure
  PROVE  AggInv'
  <1>1. Doing("unrouted")
    BY DEF record_batch_violation_failure
  <1>2. /\ leader = "up" /\ 1 \in DOMAIN agenda /\ Head(agenda) = agenda[1] /\ agenda[1].op = "unrouted"
        /\ agenda[1].batch \in Nat /\ agenda[1].tokens \in Seq(Tokens)
    BY <1>1, FirstStep
  <1>3. PICK b \in Ids, t \in Tokens, rest \in Seq(Tokens) :
             /\ b = batch /\ b # 0 /\ agenda[1].batch = b /\ batches[b].status = "executing"
             /\ agenda[1].tokens # <<>> /\ t = Head(agenda[1].tokens) /\ rest = Tail(agenda[1].tokens)
             /\ t \in Members(b) /\ Range(rest) \subseteq Members(b)
             /\ \A u \in Members(b) : journal[u] = "adopted"
    <2>1. FlushStep(agenda[1])
      BY <1>2 DEF AggInv, LeaderInv
    <2>2. /\ batch # 0 /\ batch \in Ids /\ agenda[1].batch = batch /\ batches[batch].status = "executing"
          /\ agenda[1].tokens # <<>> /\ Range(agenda[1].tokens) \subseteq Members(batch)
          /\ \A u \in Members(batch) : journal[u] = "adopted"
      BY <1>2, <2>1 DEF AggInv, LeaderInv, InProgress, FlushStep
    <2>3. /\ Head(agenda[1].tokens) \in Members(batch) /\ Range(Tail(agenda[1].tokens)) \subseteq Members(batch)
          /\ Head(agenda[1].tokens) \in Tokens /\ Tail(agenda[1].tokens) \in Seq(Tokens)
      BY <1>2, <2>2, RangeFacts, SMT
    <2> QED
      BY <2>2, <2>3
  <1>4. /\ terminal' = [terminal EXCEPT ![t] = "unrouted"]
        /\ UNCHANGED <<settings, journal, buffered, batches, crashes, answered>>
        /\ \/ Dies
           \/ /\ Len(agenda[1].tokens) # 1
              /\ agenda' = <<Step("unrouted", b, rest)>> /\ UNCHANGED <<batch, tokens, leader>>
    BY <1>2, <1>3 DEF record_batch_violation_failure, memory
  <1>5. Ids' = Ids /\ ChainInv' /\ (\A c : Members(c)' = Members(c) /\ (Retried(c)' <=> Retried(c)))
        /\ \A u : Answered(u)' <=> Answered(u)
    BY <1>4, SameBatches DEF AggInv
  <1>6. /\ terminal' \in [Tokens -> {"none", "consumed", "unrouted", "filtered", "quarantined"}]
        /\ terminal'[t] = "unrouted" /\ \A u \in Tokens : u # t => terminal'[u] = terminal[u]
    BY <1>4 DEF AggInv, Types, TypeOK
  <1>7. ~Retried(b) /\ batches[b].verdict = "none"
    BY <1>3 DEF AggInv, ChainInv
  <1>8. \A c \in Ids : batches[c].verdict # "none" => t \notin Members(c)
    BY <1>3, <1>7, SMT DEF AggInv, ChainInv
  <1>9. \A c \in Ids : Members(c) \subseteq Tokens
    BY BatchTypes DEF AggInv, Types
  <1>10. HeldInv'
    <2>1. AnsweredOnce'
      BY <1>4 DEF AggInv, HeldInv, AnsweredOnce
    <2>2. LeftInv'
      <3>1. ASSUME NEW c \in Ids, batches[c].verdict # "none", NEW u \in Members(c)
            PROVE  Fits(batches[c], u, journal[u], terminal'[u])
        BY <1>6, <1>8, <1>9, <3>1 DEF AggInv, HeldInv, LeftInv
      <3> QED
        BY <1>4, <1>5, <3>1 DEF LeftInv
    <2>3. \A c \in Ids' : \A u \in Members(c)' : journal'[u] \in {"adopted", "left"}
      BY <1>4, <1>5 DEF AggInv, HeldInv
    <2>4. ASSUME NEW u \in Tokens
          PROVE  /\ journal'[u] = "adopted" => buffered'[u] \in Ids' /\ u \in Members(buffered[u])'
                 /\ journal'[u] = "left" => terminal'[u] = "unrouted" \/ Answered(u)'
                 /\ terminal'[u] \in {"consumed", "filtered", "quarantined"} => Answered(u)'
                 /\ terminal'[u] = "unrouted" => journal'[u] \in {"adopted", "left"}
                 /\ answered'[u] # 0 => Answered(u)'
      <3>1. journal'[u] = "adopted" => buffered'[u] \in Ids' /\ u \in Members(buffered[u])'
        BY <1>4, <1>5 DEF AggInv, HeldInv
      <3>2. CASE u = t
        BY <1>3, <1>4, <1>5, <1>6, <3>1, <3>2 DEF AggInv, HeldInv
      <3>3. CASE u # t
        BY <1>4, <1>5, <1>6, <3>1, <3>3 DEF AggInv, HeldInv
      <3> QED
        BY <3>2, <3>3
    <2> QED
      BY <2>1, <2>2, <2>3, <2>4 DEF HeldInv
  <1>11. \A c \in Ids' : Open(c)' => Open(c)
    BY <1>4, <1>5, <1>6, <1>9 DEF Open
  <1>12. CASE Dies
    <2>1. leader' = "down" /\ agenda' = <<>> /\ batch' = 0 /\ tokens' = <<>>
      BY <1>12 DEF Dies
    <2>2. Types'
      BY <1>4, <1>6, <2>1, BatchTypes, SMT DEF AggInv, Types, TypeOK
    <2>3. LeaderInv'
      BY <1>12, DiesLeader
    <2>4. OpenInv'
      BY <1>5, <1>11, <2>1 DEF AggInv, OpenInv, RefusedOnlyPartway
    <2> QED
      BY <1>5, <1>10, <2>2, <2>3, <2>4 DEF AggInv
  <1>13. CASE /\ Len(agenda[1].tokens) # 1
              /\ agenda' = <<Step("unrouted", b, rest)>> /\ UNCHANGED <<batch, tokens, leader>>
    <2> DEFINE s == Step("unrouted", b, rest)
    <2>1. s \in Steps /\ s.op = "unrouted" /\ s.batch = b /\ s.tokens = rest
      BY <1>2, <1>3 DEF Step, Steps
    <2> HIDE DEF s
    <2>2. agenda' \in Seq(Steps) /\ Len(agenda') = 1 /\ DOMAIN agenda' = {1} /\ agenda'[1] = s /\ agenda' # <<>>
      BY <1>13, <2>1, SMT DEF s
    <2>3. rest # <<>>
      <3>1. Len(agenda[1].tokens) # 0 /\ Len(agenda[1].tokens) \in Nat
        BY <1>2, <1>3, SMT
      <3>2. Len(rest) = Len(agenda[1].tokens) - 1
        BY <1>2, <1>3, SMT
      <3>3. Len(rest) # 0
        BY <1>13, <3>1, <3>2, SMT
      <3> QED
        BY <3>3, SMT
    <2>4. Types'
      BY <1>4, <1>6, <1>13, <2>2 DEF AggInv, Types, TypeOK
    <2>5. Members(batch)' = Members(b)
      BY <1>3, <1>4, <1>13 DEF Members
    <2>6. LeaderInv'
      <3>1. InProgress'
        BY <1>3, <1>4, <1>5, <1>13, <2>1, <2>2, <2>5 DEF AggInv, LeaderInv, InProgress
      <3>2. FlushStep(agenda[1])' /\ DisposalStep(agenda[1])' /\ RebuildStep(agenda[1])'
        BY <1>3, <1>4, <1>13, <2>1, <2>2, <2>3, <2>5 DEF FlushStep, DisposalStep, RebuildStep
      <3> QED
        BY <1>2, <1>3, <1>13, <2>2, <3>1, <3>2 DEF LeaderInv
    <2>7. OpenInv'
      <3>1. \A i \in DOMAIN agenda : agenda[i].op # "rebuild"
        BY <1>3 DEF AggInv, LeaderInv, InProgress
      <3>2. \A c \in Ids : Open(c) => c = b
        BY <1>2, <1>3, <3>1 DEF AggInv, OpenInv, InHand
      <3>3. \A c \in Ids' : Open(c)' => c = batch'
        BY <1>3, <1>5, <1>11, <1>13, <3>2
      <3> QED
        BY <1>2, <1>13, <3>3 DEF OpenInv, InHand, RefusedOnlyPartway
    <2> QED
      BY <1>5, <1>10, <2>4, <2>6, <2>7 DEF AggInv
  <1> QED
    BY <1>4, <1>12, <1>13

\* A step that disposes of batch b, whose row is then r.
Disposing(b, r) ==
    /\ b = Head(agenda).batch /\ batches' = [batches EXCEPT ![b] = r]
    /\ r.members = batches[b].members /\ r.retryOf = batches[b].retryOf /\ r.status = batches[b].status
    /\ r.verdict = batches[b].verdict
    /\ UNCHANGED <<settings, buffered, batch, tokens, leader, crashes, answered>>
    /\ journal' \in [Tokens -> {"source", "blocked", "adopted", "left"}]
    /\ terminal' \in [Tokens -> {"none", "consumed", "unrouted", "filtered", "quarantined"}]
    /\ \A t \in Tokens : t \notin Members(b) => journal'[t] = journal[t] /\ terminal'[t] = terminal[t]
    /\ \A t \in Members(b) : /\ journal'[t] \in {"adopted", "left"}
                             /\ journal'[t] = "adopted" => journal[t] = "adopted"
                             /\ Fits(r, t, journal'[t], terminal'[t])

\* Such a step keeps the invariant.
LEMMA DisposeStep ==
  ASSUME AggInv, NEW op \in {"expand", "complete"}, Doing(op), Done,
         NEW b, NEW r \in Batch, Disposing(b, r)
  PROVE  AggInv'
  <1> /\ r.members = batches[b].members /\ r.retryOf = batches[b].retryOf
      /\ r.status = batches[b].status /\ r.verdict = batches[b].verdict
      /\ UNCHANGED <<settings, buffered, batch, tokens, leader, crashes, answered>>
      /\ journal' \in [Tokens -> {"source", "blocked", "adopted", "left"}]
      /\ terminal' \in [Tokens -> {"none", "consumed", "unrouted", "filtered", "quarantined"}]
      /\ \A t \in Tokens : t \notin Members(b) => journal'[t] = journal[t] /\ terminal'[t] = terminal[t]
      /\ \A t \in Members(b) : /\ journal'[t] \in {"adopted", "left"}
                               /\ journal'[t] = "adopted" => journal[t] = "adopted"
                               /\ Fits(r, t, journal'[t], terminal'[t])
    BY DEF Disposing
  <1>1. leader = "up" /\ 1 \in DOMAIN agenda /\ Head(agenda) = agenda[1] /\ agenda[1].op = op
    BY FirstStep
  <1>2. b \in Ids /\ batch = 0 /\ batches[b].verdict # "none"
    <2>1. DisposalStep(agenda[1])
      BY <1>1 DEF AggInv, LeaderInv
    <2> QED
      BY <1>1, <2>1 DEF DisposalStep, Disposing
  <1>3. batches \in Seq(Batch) /\ \A c \in Ids : Members(c) \subseteq Tokens
    BY BatchTypes DEF AggInv, Types
  <1>4. /\ batches' \in Seq(Batch) /\ Len(batches') = Len(batches) /\ Ids' = Ids /\ batches'[b] = r
        /\ \A c \in Ids : /\ c # b => batches'[c] = batches[c]
                          /\ batches'[c].members = batches[c].members
                          /\ Members(c)' = Members(c) /\ (Retried(c)' <=> Retried(c))
    BY <1>2, <1>3, RowSet DEF Disposing
  <1>5. \A c \in Ids : batches'[c].verdict = batches[c].verdict /\ batches'[c].status = batches[c].status
                       /\ batches'[c].retryOf = batches[c].retryOf
    BY <1>4
  <1>6. \A t : Answered(t)' <=> Answered(t)
    BY <1>4, <1>5, SMT DEF Answered
  <1>7. ~Retried(b) /\ \A c \in Ids : c # b /\ ~Retried(c) => Members(c) \cap Members(b) = {}
    BY <1>2 DEF AggInv, ChainInv
  <1>8. /\ agenda' \in Seq(Steps) /\ Len(agenda') = Len(agenda) - 1
        /\ \A i \in DOMAIN agenda' : i + 1 \in DOMAIN agenda /\ agenda'[i] = agenda[i + 1]
        /\ \A i \in DOMAIN agenda : i # 1 => i - 1 \in DOMAIN agenda' /\ agenda'[i - 1] = agenda[i]
    BY RestOfAgenda
  <1>9. Types'
    BY <1>4, <1>8 DEF AggInv, Types, TypeOK
  <1>10. ChainInv'
    <2>1. \A c \in Ids' : Retried(c)' => batches'[c].status = "failed" /\ batches'[c].verdict = "none"
      BY <1>4, <1>5, SMT DEF AggInv, ChainInv
    <2>2. \A c \in Ids' : batches'[c].retryOf < c
      BY <1>4, <1>5 DEF AggInv, ChainInv
    <2>3. \A c, d \in Ids' : batches'[d].retryOf = c => Members(c)' \subseteq Members(d)'
      BY <1>4, <1>5, SMT DEF AggInv, ChainInv
    <2>4. \A c, d \in Ids' : ~Retried(c)' /\ ~Retried(d)' /\ c # d => Members(c)' \cap Members(d)' = {}
      BY <1>4 DEF AggInv, ChainInv
    <2>5. \A c \in Ids' :
          /\ batches'[c].verdict = "none" => batches'[c].children = 0 /\ ~batches'[c].published
          /\ batches'[c].status \in {"draft", "executing"} => batches'[c].verdict = "none"
          /\ batches'[c].status = "completed" => batches'[c].verdict # "none"
          /\ batches'[c].status # "draft" => batches'[c].members # <<>>
      <3> TAKE c \in Ids'
      <3>1. CASE c = b
        BY <1>2, <1>4, <1>5, <3>1, SMT DEF AggInv, ChainInv
      <3>2. CASE c # b
        BY <1>4, <3>2, SMT DEF AggInv, ChainInv
      <3> QED
        BY <3>1, <3>2
    <2> QED
      BY <2>1, <2>2, <2>3, <2>4, <2>5 DEF ChainInv
  <1>11. HeldInv'
    <2>1. AnsweredOnce'
      BY DEF AggInv, HeldInv, AnsweredOnce
    <2>2. ASSUME NEW c \in Ids', batches'[c].verdict # "none", NEW u \in Members(c)'
          PROVE  Fits(batches'[c], u, journal'[u], terminal'[u])
      <3>1. CASE c = b
        BY <1>4, <2>2, <3>1
      <3>2. CASE c # b
        <4>1. c \in Ids /\ batches'[c] = batches[c] /\ u \in Members(c) /\ u \in Tokens
          BY <1>3, <1>4, <2>2, <3>2, SMT
        <4>2. ~Retried(c)
          BY <2>2, <4>1, SMT DEF AggInv, ChainInv
        <4>3. u \notin Members(b)
          BY <1>7, <3>2, <4>1, <4>2
        <4> QED
          BY <2>2, <4>1, <4>3, SMT DEF AggInv, HeldInv, LeftInv
      <3> QED
        BY <3>1, <3>2
    <2>3. ASSUME NEW c \in Ids', NEW u \in Members(c)' PROVE journal'[u] \in {"adopted", "left"}
      <3>1. c \in Ids /\ u \in Members(c) /\ u \in Tokens
        BY <1>3, <1>4, <2>3, SMT
      <3> QED
        BY <3>1 DEF AggInv, HeldInv
    <2>4. \A t \in Members(b) : Answered(t)
      BY <1>2 DEF Answered
    <2>5. ASSUME NEW u \in Tokens
          PROVE  /\ journal'[u] = "adopted" => buffered'[u] \in Ids' /\ u \in Members(buffered[u])'
                 /\ journal'[u] = "left" => terminal'[u] = "unrouted" \/ Answered(u)'
                 /\ terminal'[u] \in {"consumed", "filtered", "quarantined"} => Answered(u)'
                 /\ terminal'[u] = "unrouted" => journal'[u] \in {"adopted", "left"}
                 /\ answered'[u] # 0 => Answered(u)'
      <3>1. journal'[u] = "adopted" => journal[u] = "adopted"
        OBVIOUS
      <3>2. journal'[u] = "adopted" => buffered'[u] \in Ids' /\ u \in Members(buffered[u])'
        BY <1>4, <3>1 DEF AggInv, HeldInv
      <3>3. CASE u \in Members(b)
        BY <1>6, <2>4, <3>2, <3>3
      <3>4. CASE u \notin Members(b)
        BY <1>6, <3>2, <3>4 DEF AggInv, HeldInv
      <3> QED
        BY <3>3, <3>4
    <2> QED
      BY <2>1, <2>2, <2>3, <2>5 DEF HeldInv, LeftInv
  <1>12. LeaderInv'
    <2>1. InProgress'
      BY <1>2 DEF InProgress
    <2>2. ASSUME NEW i \in DOMAIN agenda'
          PROVE  /\ FlushStep(agenda[i])' /\ DisposalStep(agenda[i])' /\ RebuildStep(agenda[i])'
                 /\ agenda'[i].op \in {"plugin", "unrouted", "rebuild"} => i = Len(agenda')
      <3>1. /\ FlushStep(agenda[i + 1]) /\ DisposalStep(agenda[i + 1]) /\ RebuildStep(agenda[i + 1])
            /\ agenda[i + 1].op \in {"plugin", "unrouted", "rebuild"} => i + 1 = Len(agenda)
        BY <1>8 DEF AggInv, LeaderInv
      <3>2. PICK s : s = agenda'[i] /\ s = agenda[i + 1]
        BY <1>8
      <3>3. agenda'[i].op \in {"plugin", "unrouted", "rebuild"} => i = Len(agenda')
        <4>1. Len(agenda) \in Nat /\ i \in Nat
          BY <1>8, <1>9, SMT DEF AggInv, Types
        <4> QED
          BY <1>8, <3>1, <3>2, <4>1, SMT
      <3>4. FlushStep(agenda[i])' /\ DisposalStep(agenda[i])'
        BY <1>2, <1>4, <1>5, <3>1, <3>2, SMT DEF FlushStep, DisposalStep
      <3>5. ASSUME s.op = "rebuild"
            PROVE  /\ batch' = 0 /\ s.batch \in Ids' /\ batches'[s.batch].status = "draft"
                   /\ s.rows # {} /\ s.rows \subseteq Members(s.batch)'
                   /\ \A t \in s.rows : journal'[t] = "adopted" /\ terminal'[t] = "none"
        <4>1. /\ batch = 0 /\ s.batch \in Ids /\ batches[s.batch].status = "draft"
              /\ s.rows # {} /\ s.rows \subseteq Members(s.batch)
              /\ \A t \in s.rows : journal[t] = "adopted" /\ terminal[t] = "none"
          BY <3>1, <3>2, <3>5 DEF RebuildStep
        <4>2. ~Retried(s.batch) /\ s.batch # b
          BY <1>2, <4>1, SMT DEF AggInv, ChainInv
        <4>3. s.rows \cap Members(b) = {} /\ s.rows \subseteq Tokens
          BY <1>3, <1>7, <4>1, <4>2
        <4> QED
          BY <1>4, <1>5, <4>1, <4>3, SMT
      <3>6. RebuildStep(agenda[i])'
        BY <3>2, <3>5 DEF RebuildStep
      <3> QED
        BY <3>3, <3>4, <3>6
    <2> QED
      BY <1>1, <1>2, <2>1, <2>2 DEF AggInv, LeaderInv
  <1>13. OpenInv'
    <2>1. ASSUME NEW c \in Ids', Open(c)'
          PROVE  /\ c \in Ids /\ Open(c) /\ Members(c)' = Members(c)
                 /\ \A t \in Members(c) : terminal'[t] = terminal[t]
      <3>1. c \in Ids /\ ~Retried(c) /\ batches[c].verdict = "none" /\ c # b /\ Members(c)' = Members(c)
        BY <1>2, <1>4, <1>5, <2>1 DEF Open
      <3>2. \A t \in Members(c) : terminal'[t] = terminal[t]
        BY <1>3, <1>7, <3>1
      <3> QED
        BY <2>1, <3>1, <3>2, SMT DEF Open
    <2>2. ASSUME NEW c \in Ids', Open(c)' PROVE InHand(c)'
      <3>1. Open(c) /\ c \in Ids /\ c # 0 /\ Members(c)' = Members(c) /\ \A t \in Members(c) : terminal'[t] = terminal[t]
        BY <2>1, <2>2, <1>3, BatchTypes
      <3>2. PICK i \in DOMAIN agenda :
                 /\ agenda[i].op = "rebuild"
                 /\ \A t \in Members(c) : terminal[t] # "unrouted" => t \in agenda[i].rows
        BY <1>1, <1>2, <3>1 DEF AggInv, OpenInv, InHand
      <3>3. i # 1
        BY <1>1, <3>2
      <3>4. i - 1 \in DOMAIN agenda' /\ agenda'[i - 1] = agenda[i]
        BY <1>8, <3>3
      <3> QED
        BY <3>1, <3>2, <3>4, SMT DEF InHand
    <2> QED
      BY <1>1, <1>4, <2>1, <2>2 DEF AggInv, OpenInv, RefusedOnlyPartway
  <1> QED
    BY <1>9, <1>10, <1>11, <1>12, <1>13 DEF AggInv

\* The children of a batch are minted.
LEMMA ExpandStep ==
  ASSUME AggInv, expand_token
  PROVE  AggInv'
  <1>1. PICK b : /\ b = Head(agenda).batch /\ Doing("expand") /\ Done
                 /\ batches' = [batches EXCEPT ![b].children = 1]
                 /\ terminal' = [t \in Tokens |-> IF t \notin Members(b) THEN terminal[t]
                                   ELSE IF t \in batches[b].quarantined THEN "quarantined" ELSE "consumed"]
                 /\ UNCHANGED <<settings, journal, buffered, batch, tokens, leader, crashes, answered>>
    BY DEF expand_token, memory
  <1>2. b \in Ids /\ batches[b].verdict # "none"
    <2>1. 1 \in DOMAIN agenda /\ Head(agenda) = agenda[1] /\ agenda[1].op = "expand"
      BY <1>1, FirstStep
    <2>2. DisposalStep(agenda[1])
      BY <2>1 DEF AggInv, LeaderInv
    <2> QED
      BY <1>1, <2>1, <2>2 DEF DisposalStep
  <1>3. batches \in Seq(Batch) /\ batches[b] \in Batch /\ Members(b) \subseteq Tokens
    BY <1>2, BatchTypes DEF AggInv, Types
  <1> DEFINE r == [batches[b] EXCEPT !.children = 1]
  <1>4. /\ r \in Batch /\ r.members = batches[b].members /\ r.retryOf = batches[b].retryOf
        /\ r.status = batches[b].status /\ r.verdict = batches[b].verdict
        /\ r.children = 1 /\ r.published = batches[b].published /\ r.quarantined = batches[b].quarantined
    BY <1>3 DEF Batch
  <1>5. batches' = [batches EXCEPT ![b] = r]
    BY <1>1
  <1> HIDE DEF r
  <1>a. \A t \in Tokens : terminal'[t] = IF t \notin Members(b) THEN terminal[t]
                                         ELSE IF t \in batches[b].quarantined THEN "quarantined" ELSE "consumed"
    BY <1>1
  <1>6. /\ journal' \in [Tokens -> {"source", "blocked", "adopted", "left"}]
        /\ terminal' \in [Tokens -> {"none", "consumed", "unrouted", "filtered", "quarantined"}]
    BY <1>1, <1>a DEF AggInv, Types, TypeOK
  <1>7. \A t \in Tokens : t \notin Members(b) => journal'[t] = journal[t] /\ terminal'[t] = terminal[t]
    BY <1>1, <1>a
  <1>8. \A t \in Members(b) : /\ journal[t] \in {"adopted", "left"} /\ (journal[t] = "left" <=> batches[b].published)
                              /\ journal'[t] = journal[t]
                              /\ terminal'[t] = IF t \in batches[b].quarantined THEN "quarantined" ELSE "consumed"
    BY <1>1, <1>2, <1>3, <1>a DEF AggInv, HeldInv, LeftInv, Fits
  <1>9. \A t \in Members(b) : /\ journal'[t] \in {"adopted", "left"}
                              /\ journal'[t] = "adopted" => journal[t] = "adopted"
                              /\ Fits(r, t, journal'[t], terminal'[t])
    BY <1>4, <1>8, SMT DEF Fits
  <1>10. Disposing(b, r)
    BY <1>1, <1>4, <1>5, <1>6, <1>7, <1>9 DEF Disposing
  <1> QED
    BY <1>1, <1>4, <1>10, DisposeStep

\* The members leave the barrier, and what replaces them is scheduled.
LEMMA CompleteStep ==
  ASSUME AggInv, complete_barrier
  PROVE  AggInv'
  <1>1. PICK b : /\ b = Head(agenda).batch /\ Doing("complete") /\ Done
                 /\ batches' = [batches EXCEPT ![b].published = TRUE]
                 /\ journal' = [t \in Tokens |-> IF t \in Members(b) THEN "left" ELSE journal[t]]
                 /\ terminal' = [t \in Tokens |-> IF t \in Members(b) /\ terminal[t] = "none"
                                                  THEN Terminal(b, t) ELSE terminal[t]]
                 /\ UNCHANGED <<settings, buffered, batch, tokens, leader, crashes, answered>>
    BY DEF complete_barrier, memory
  <1>2. b \in Ids /\ batches[b].verdict # "none"
    <2>1. 1 \in DOMAIN agenda /\ Head(agenda) = agenda[1] /\ agenda[1].op = "complete"
      BY <1>1, FirstStep
    <2>2. DisposalStep(agenda[1])
      BY <2>1 DEF AggInv, LeaderInv
    <2> QED
      BY <1>1, <2>1, <2>2 DEF DisposalStep
  <1>3. batches \in Seq(Batch) /\ batches[b] \in Batch /\ Members(b) \subseteq Tokens
    BY <1>2, BatchTypes DEF AggInv, Types
  <1> DEFINE r == [batches[b] EXCEPT !.published = TRUE]
  <1>4. /\ r \in Batch /\ r.members = batches[b].members /\ r.retryOf = batches[b].retryOf
        /\ r.status = batches[b].status /\ r.verdict = batches[b].verdict
        /\ r.children = batches[b].children /\ r.published = TRUE /\ r.quarantined = batches[b].quarantined
    BY <1>3 DEF Batch
  <1>5. batches' = [batches EXCEPT ![b] = r]
    BY <1>1
  <1> HIDE DEF r
  <1>6. \A t : /\ Terminal(b, t) \in {"none", "filtered", "quarantined"}
               /\ t \in batches[b].quarantined => Terminal(b, t) = "quarantined"
    BY DEF Terminal
  <1>7. /\ journal' \in [Tokens -> {"source", "blocked", "adopted", "left"}]
        /\ terminal' \in [Tokens -> {"none", "consumed", "unrouted", "filtered", "quarantined"}]
    BY <1>1, <1>6 DEF AggInv, Types, TypeOK
  <1>8. \A t \in Tokens : t \notin Members(b) => journal'[t] = journal[t] /\ terminal'[t] = terminal[t]
    BY <1>1
  <1>9. \A t \in Members(b) : /\ Fits(batches[b], t, journal[t], terminal[t])
                              /\ journal'[t] = "left"
                              /\ terminal'[t] = IF terminal[t] = "none" THEN Terminal(b, t) ELSE terminal[t]
    BY <1>1, <1>2, <1>3 DEF AggInv, HeldInv, LeftInv
  <1>10. \A t \in Members(b) : /\ journal'[t] \in {"adopted", "left"}
                               /\ journal'[t] = "adopted" => journal[t] = "adopted"
                               /\ Fits(r, t, journal'[t], terminal'[t])
    <2> TAKE t \in Members(b)
    <2>1. Fits(r, t, "left", terminal'[t])
      <3>1. CASE t \in batches[b].quarantined
        BY <1>4, <1>6, <1>9, <3>1 DEF Fits
      <3>2. CASE t \notin batches[b].quarantined
        BY <1>4, <1>6, <1>9, <3>2 DEF Fits
      <3> QED
        BY <3>1, <3>2
    <2> QED
      BY <1>9, <2>1
  <1>11. Disposing(b, r)
    BY <1>1, <1>4, <1>5, <1>7, <1>8, <1>10 DEF Disposing
  <1> QED
    BY <1>1, <1>4, <1>11, DisposeStep

\* A failed flush is retried by a new batch with the same members.
Retry(b) ==
    /\ batches' = Append(batches, Draft(batches[b].members, b))
    /\ UNCHANGED <<settings, journal, buffered, terminal, batch, tokens, agenda, leader, crashes, answered>>

\* Such a step keeps the invariant: the retry takes the place of what it retries as
\* the end of the chain.
LEMMA RetryStep ==
  ASSUME AggInv, leader # "up", NEW b \in Ids, Retry(b),
         batches[b].status = "failed", batches[b].verdict = "none", ~Retried(b)
  PROVE  AggInv'
  <1> DEFINE r == Draft(batches[b].members, b)
  <1>1. batches \in Seq(Batch) /\ batches[b].members \in Seq(Tokens) /\ b \in Nat
    BY BatchTypes DEF AggInv, Types
  <1>2. r \in Batch /\ r.status = "draft" /\ r.members = batches[b].members /\ r.retryOf = b /\ r.verdict = "none"
        /\ r.children = 0 /\ r.published = FALSE
    BY <1>1 DEF Draft, Batch, Verdicts
  <1>3. batches' = Append(batches, r)
    BY DEF Retry
  <1>0. UNCHANGED <<settings, journal, buffered, terminal, batch, tokens, agenda, leader, crashes, answered>>
    BY DEF Retry
  <1> HIDE DEF r
  <1>4. Len(batches) \in Nat /\ Ids = 1 .. Len(batches) /\ 0 \notin Ids
    BY <1>1, BatchTypes
  <1>5. PICK n \in Nat : n = Len(batches) + 1
    BY <1>4, SMT
  <1>6. /\ batches' \in Seq(Batch) /\ Len(batches') = n /\ Ids' = Ids \cup {n} /\ n \notin Ids
        /\ batches'[n] = r
        /\ \A c \in Ids : batches'[c] = batches[c] /\ Members(c)' = Members(c) /\ c < n
    BY <1>1, <1>2, <1>3, <1>5, Appended
  <1>7. Members(n)' = Members(b)
    BY <1>2, <1>6 DEF Members
  <1>8. /\ \A c \in Ids : Retried(c)' <=> Retried(c) \/ c = b
        /\ ~Retried(n)'
    <2>1. \A c \in Ids : batches[c].retryOf # n
      <3>1. \A c \in Ids : batches[c].retryOf < c /\ batches[c].retryOf \in Nat
        BY <1>1, BatchTypes DEF AggInv, ChainInv
      <3> QED
        BY <1>4, <1>5, <3>1, SMT
    <2> QED
      BY <1>2, <1>6, <2>1, SMT DEF Retried
  <1>9. \A t : Answered(t)' <=> Answered(t)
    BY <1>2, <1>6, SMT DEF Answered
  <1>10. Types'
    <2>1. buffered' \in [Tokens -> 0 .. Len(batches')] /\ batch' \in 0 .. Len(batches')
      BY <1>0, <1>4, <1>5, <1>6, SMT DEF AggInv, Types, TypeOK
    <2> QED
      BY <1>0, <1>6, <2>1 DEF AggInv, Types, TypeOK
  <1>11. ChainInv'
    <2>1. \A c \in Ids' : Retried(c)' => batches'[c].status = "failed" /\ batches'[c].verdict = "none"
      BY <1>6, <1>8, SMT DEF AggInv, ChainInv
    <2>2. \A c \in Ids' : batches'[c].retryOf < c
      BY <1>2, <1>6, SMT DEF AggInv, ChainInv
    <2>3. ASSUME NEW c \in Ids', NEW d \in Ids', batches'[d].retryOf = c PROVE Members(c)' \subseteq Members(d)'
      <3>1. c # n /\ c \in Ids
        BY <1>6, <1>8, <2>3 DEF Retried
      <3>2. CASE d = n
        BY <1>2, <1>6, <1>7, <2>3, <3>1, <3>2
      <3>3. CASE d # n
        BY <1>6, <2>3, <3>1, <3>3, SMT DEF AggInv, ChainInv
      <3> QED
        BY <3>2, <3>3
    <2>4. ASSUME NEW c \in Ids', NEW d \in Ids', ~Retried(c)', ~Retried(d)', c # d
          PROVE  Members(c)' \cap Members(d)' = {}
      <3>1. \A i, j \in Ids : ~Retried(i) /\ ~Retried(j) /\ i # j => Members(i) \cap Members(j) = {}
        BY DEF AggInv, ChainInv
      <3>2. \A i \in Ids : ~Retried(i)' => ~Retried(i) /\ i # b
        BY <1>8
      <3>3. CASE c = n
        BY <1>6, <1>7, <2>4, <3>1, <3>2, <3>3
      <3>4. CASE d = n
        BY <1>6, <1>7, <2>4, <3>1, <3>2, <3>4
      <3>5. CASE c # n /\ d # n
        BY <1>6, <2>4, <3>1, <3>2, <3>5
      <3> QED
        BY <3>3, <3>4, <3>5
    <2>5. \A c \in Ids' :
          /\ batches'[c].verdict = "none" => batches'[c].children = 0 /\ ~batches'[c].published
          /\ batches'[c].status \in {"draft", "executing"} => batches'[c].verdict = "none"
          /\ batches'[c].status = "completed" => batches'[c].verdict # "none"
          /\ batches'[c].status # "draft" => batches'[c].members # <<>>
      BY <1>2, <1>6, SMT DEF AggInv, ChainInv
    <2> QED
      BY <2>1, <2>2, <2>3, <2>4, <2>5 DEF ChainInv
  <1>12. HeldInv'
    <2>1. AnsweredOnce'
      BY <1>0 DEF AggInv, HeldInv, AnsweredOnce
    <2>2. ASSUME NEW c \in Ids', batches'[c].verdict # "none", NEW u \in Members(c)'
          PROVE  Fits(batches'[c], u, journal'[u], terminal'[u])
      <3>1. c \in Ids /\ batches'[c] = batches[c] /\ u \in Members(c)
        BY <1>2, <1>6, <2>2
      <3> QED
        BY <1>0, <2>2, <3>1, SMT DEF AggInv, HeldInv, LeftInv
    <2>3. \A c \in Ids' : \A u \in Members(c)' : journal'[u] \in {"adopted", "left"}
      BY <1>0, <1>6, <1>7 DEF AggInv, HeldInv
    <2>4. ASSUME NEW u \in Tokens
          PROVE  /\ journal'[u] = "adopted" => buffered'[u] \in Ids' /\ u \in Members(buffered[u])'
                 /\ journal'[u] = "left" => terminal'[u] = "unrouted" \/ Answered(u)'
                 /\ terminal'[u] \in {"consumed", "filtered", "quarantined"} => Answered(u)'
                 /\ terminal'[u] = "unrouted" => journal'[u] \in {"adopted", "left"}
                 /\ answered'[u] # 0 => Answered(u)'
      BY <1>0, <1>6, <1>9 DEF AggInv, HeldInv
    <2> QED
      BY <2>1, <2>2, <2>3, <2>4 DEF HeldInv, LeftInv
  <1>13. LeaderInv'
    <2>1. batch' = 0 /\ agenda' = <<>> /\ tokens' = <<>> /\ DOMAIN agenda' = {}
      BY <1>0, SMT DEF AggInv, LeaderInv
    <2> QED
      BY <2>1 DEF LeaderInv, InProgress
  <1>14. OpenInv'
    <2>1. Open(n)' => Open(b)
      BY <1>0, <1>2, <1>6, <1>7 DEF Open
    <2>2. \A c \in Ids : Open(c)' => Open(c) /\ c # b
      BY <1>0, <1>6, <1>8 DEF Open
    <2>3. \A c, d \in Ids' : Open(c)' /\ Open(d)' => c = d
      BY <1>6, <2>1, <2>2 DEF AggInv, OpenInv
    <2>4. FailedPartway => FailedPartway'
      BY <1>0, <1>6, SMT DEF FailedPartway
    <2> QED
      BY <1>0, <2>3, <2>4 DEF AggInv, OpenInv, RefusedOnlyPartway
  <1> QED
    BY <1>10, <1>11, <1>12, <1>13, <1>14 DEF AggInv

\* handle_incomplete_batches takes its next step.
LEMMA HandleIncompleteStep ==
  ASSUME AggInv, handle_incomplete_batches
  PROVE  AggInv'
  <1> DEFINE S == {c \in Ids : Incomplete(c)}
  <1>1. batches \in Seq(Batch) /\ S \in SUBSET Nat /\ S # {}
    BY BatchTypes DEF AggInv, Types, handle_incomplete_batches
  <1>2. PICK b \in Ids : b = Min(S) /\ Incomplete(b)
    <2>1. \E n \in S : \A k \in S : n <= k
      <3> HIDE DEF S
      <3> QED
        BY <1>1, Least
    <2>2. Min(S) \in S
      <3> HIDE DEF S
      <3> QED
        BY <2>1 DEF Min
    <2> QED
      BY <2>2
  <1>3. /\ leader # "up"
        /\ IF batches[b].status = "executing" THEN batches' = [batches EXCEPT ![b].status = "failed"]
           ELSE batches' = Append(batches, Draft(batches[b].members, b))
        /\ UNCHANGED <<settings, journal, buffered, terminal, batch, tokens, agenda, leader, crashes, answered>>
    BY <1>2 DEF handle_incomplete_batches, memory
  <1>4. CASE batches[b].status # "executing"
    BY <1>2, <1>3, <1>4, RetryStep DEF Incomplete, Retry
  <1>5. CASE batches[b].status = "executing"
    <2>1. batches[b].verdict = "none" /\ batches[b].members # <<>>
      BY <1>5 DEF AggInv, ChainInv
    <2>2. /\ batches' \in Seq(Batch) /\ Len(batches') = Len(batches) /\ Ids' = Ids
          /\ \A c \in Ids : /\ batches'[c].verdict = batches[c].verdict /\ batches'[c].children = batches[c].children
                            /\ batches'[c].published = batches[c].published /\ batches'[c].quarantined = batches[c].quarantined
                            /\ Members(c)' = Members(c) /\ (Retried(c)' <=> Retried(c))
          /\ ChainInv'
      BY <1>3, <1>5, <2>1, StatusSet
    <2>3. HeldInv'
      BY <1>3, <2>2, HeldFrame
    <2>4. Types'
      BY <1>3, <2>2, BatchTypes DEF AggInv, Types, TypeOK
    <2>5. LeaderInv'
      <3>1. batch' = 0 /\ agenda' = <<>> /\ tokens' = <<>> /\ DOMAIN agenda' = {}
        BY <1>3, SMT DEF AggInv, LeaderInv
      <3> QED
        BY <3>1 DEF LeaderInv, InProgress
    <2>6. OpenInv'
      <3>1. FailedPartway => FailedPartway'
        BY <1>3, <2>2, SMT DEF FailedPartway
      <3> QED
        BY <1>3, <2>2, <3>1, SMT DEF AggInv, OpenInv, Open, RefusedOnlyPartway
    <2> QED
      BY <2>2, <2>3, <2>4, <2>5, <2>6 DEF AggInv
  <1> QED
    BY <1>4, <1>5

\* What a resume finds once no batch is left to be failed or retried: every row
\* it has to put back leads to the one batch that is open, and this is a draft.
LEMMA UnsettledTip ==
  ASSUME AggInv, ~ \E b \in Ids : Incomplete(b), NEW t \in Unsettled
  PROVE  /\ t \in Tokens /\ journal[t] = "adopted" /\ terminal[t] = "none"
         /\ LET e == resolve_retry_chain(buffered[t])
            IN  /\ e \in Ids /\ Open(e) /\ batches[e].status = "draft" /\ t \in Members(e)
  <1> DEFINE e == resolve_retry_chain(buffered[t])
  <1>1. t \in Tokens /\ journal[t] = "adopted" /\ terminal[t] # "unrouted" /\ \A b \in Residuals : t \notin Members(b)
    BY DEF Unsettled, adopted
  <1>2. \A b \in Ids : batches[b].verdict # "none" => t \notin Members(b)
    BY <1>1 DEF Residuals, adopted
  <1>3. batches \in Seq(Batch) /\ ChainInv
    BY DEF AggInv, Types
  <1>4. buffered[t] \in Ids /\ t \in Members(buffered[t])
    BY <1>1 DEF AggInv, HeldInv
  <1>5. e \in Ids /\ ~Retried(e) /\ t \in Members(e)
    BY <1>3, <1>4, ChainResolved
  <1> HIDE DEF e
  <1>6. batches[e].verdict = "none" /\ Open(e)
    BY <1>1, <1>2, <1>5 DEF Open
  <1>7. batches[e].status = "draft"
    <2>1. batches[e].status \in {"draft", "executing", "failed", "completed"}
      BY <1>3, <1>5, BatchTypes
    <2>2. ~Incomplete(e)
      BY <1>5
    <2> QED
      BY <1>3, <1>5, <1>6, <2>1, <2>2 DEF ChainInv, Incomplete
  <1>8. terminal[t] = "none"
    <2>1. ~Answered(t)
      BY <1>2 DEF Answered
    <2>2. terminal[t] \in {"none", "consumed", "unrouted", "filtered", "quarantined"}
      BY <1>1 DEF AggInv, Types, TypeOK
    <2> QED
      BY <1>1, <2>1, <2>2 DEF AggInv, HeldInv
  <1> QED
    BY <1>1, <1>5, <1>6, <1>7, <1>8 DEF e

\* Conversely, the rows of an open batch that have not failed are all put back.
LEMMA OpenUnsettled ==
  ASSUME AggInv, NEW c \in Ids, Open(c), NEW t \in Members(c), terminal[t] # "unrouted"
  PROVE  t \in Unsettled
  <1>1. ~Retried(c) /\ batches[c].verdict = "none" /\ t \in Tokens
    BY BatchTypes DEF Open, AggInv, Types
  <1>2. \A d \in Ids : batches[d].verdict # "none" => t \notin Members(d)
    BY <1>1 DEF AggInv, ChainInv
  <1>3. journal[t] = "adopted"
    <2>1. ~Answered(t)
      BY <1>2 DEF Answered
    <2> QED
      BY <1>1, <2>1 DEF AggInv, HeldInv
  <1> QED
    BY <1>1, <1>2, <1>3 DEF Unsettled, Residuals, adopted

\* A step for a recorded result.
ResidualStep == {s \in Steps : /\ s.op \in {"expand", "complete"} /\ s.batch \in Ids
                               /\ batches[s.batch].verdict # "none"}

\* A resume puts nothing else on its agenda for them.
LEMMA ResidualAgendaType ==
  ASSUME AggInv
  PROVE  ResidualAgenda \in Seq(ResidualStep) /\ ResidualStep \subseteq Steps
  <1>1. batches \in Seq(Batch)
    BY DEF AggInv, Types
  <1>2. ASSUME NEW b \in Residuals PROVE ResidualSteps(b) \in Seq(ResidualStep)
    <2>1. b \in Ids /\ b \in Nat /\ batches[b].verdict # "none"
      BY <1>1, BatchTypes DEF Residuals
    <2>2. DisposalOf(b) \subseteq ResidualStep
      BY <2>1 DEF DisposalOf, ResidualStep
    <2>3. ResidualSteps(b) \in Seq(DisposalOf(b))
      BY <2>1, Disposed DEF ResidualSteps
    <2> QED
      BY <2>2, <2>3, SMT
  <1>3. ResidualStep \subseteq Steps
    BY DEF ResidualStep
  <1> QED
    BY <1>1, <1>2, <1>3, ResidualsListed

\* A resume restores: it never finds the journal and the batches in disagreement.
LEMMA RestoreStep ==
  ASSUME AggInv, restore_from_journal
  PROVE  AggInv'
  <1> DEFINE tips == {resolve_retry_chain(buffered[t]) : t \in Unsettled}
  <1>1. /\ leader # "up" /\ ~ \E b \in Ids : Incomplete(b)
        /\ journal' = [t \in Tokens |-> IF /\ t \in adopted /\ terminal[t] = "unrouted"
                                           /\ \A b \in Residuals : t \notin Members(b)
                                        THEN "left" ELSE journal[t]]
        /\ UNCHANGED <<settings, buffered, terminal, batches, batch, tokens, crashes, answered>>
    BY DEF restore_from_journal, memory
  <1>2. batch = 0 /\ tokens = <<>> /\ agenda = <<>> /\ batches \in Seq(Batch) /\ 0 \notin Ids
    BY <1>1, BatchTypes DEF AggInv, LeaderInv, Types
  <1>3. Ids' = Ids /\ ChainInv' /\ (\A b : Members(b)' = Members(b) /\ (Retried(b)' <=> Retried(b)))
        /\ \A u : Answered(u)' <=> Answered(u)
    BY <1>1, SameBatches DEF AggInv
  <1>4. /\ journal' \in [Tokens -> {"source", "blocked", "adopted", "left"}]
        /\ \A t \in Tokens : /\ journal'[t] = "adopted" => journal[t] = "adopted"
                             /\ journal'[t] # journal[t] =>
                                  /\ journal[t] = "adopted" /\ journal'[t] = "left" /\ terminal[t] = "unrouted"
                                  /\ \A b \in Residuals : t \notin Members(b)
    BY <1>1 DEF AggInv, Types, TypeOK, adopted
  <1>5. HeldInv'
    <2>1. AnsweredOnce'
      BY <1>1 DEF AggInv, HeldInv, AnsweredOnce
    <2>2. ASSUME NEW c \in Ids', batches'[c].verdict # "none", NEW u \in Members(c)'
          PROVE  Fits(batches'[c], u, journal'[u], terminal'[u])
      <3>1. c \in Ids /\ batches[c].verdict # "none" /\ u \in Members(c) /\ u \in Tokens
        BY <1>1, <1>2, <1>3, <2>2, BatchTypes
      <3>2. journal'[u] = journal[u]
        <4>1. journal[u] = "adopted" => c \in Residuals
          BY <3>1 DEF Residuals, adopted
        <4> QED
          BY <1>4, <3>1, <4>1
      <3> QED
        BY <1>1, <3>1, <3>2 DEF AggInv, HeldInv, LeftInv
    <2>3. ASSUME NEW c \in Ids', NEW u \in Members(c)' PROVE journal'[u] \in {"adopted", "left"}
      <3>1. c \in Ids /\ u \in Members(c) /\ u \in Tokens
        BY <1>2, <1>3, <2>3, BatchTypes
      <3>2. journal[u] \in {"adopted", "left"}
        BY <3>1 DEF AggInv, HeldInv
      <3> QED
        BY <1>4, <3>1, <3>2
    <2>4. ASSUME NEW u \in Tokens
          PROVE  /\ journal'[u] = "adopted" => buffered'[u] \in Ids' /\ u \in Members(buffered[u])'
                 /\ journal'[u] = "left" => terminal'[u] = "unrouted" \/ Answered(u)'
                 /\ terminal'[u] \in {"consumed", "filtered", "quarantined"} => Answered(u)'
                 /\ terminal'[u] = "unrouted" => journal'[u] \in {"adopted", "left"}
                 /\ answered'[u] # 0 => Answered(u)'
      <3>1. journal'[u] = "adopted" => buffered'[u] \in Ids' /\ u \in Members(buffered[u])'
        BY <1>1, <1>3, <1>4 DEF AggInv, HeldInv
      <3> QED
        BY <1>1, <1>3, <1>4, <3>1 DEF AggInv, HeldInv
    <2> QED
      BY <2>1, <2>2, <2>3, <2>4 DEF HeldInv, LeftInv
  <1>6. \A t \in Unsettled :
           /\ t \in Tokens /\ journal[t] = "adopted" /\ terminal[t] = "none"
           /\ resolve_retry_chain(buffered[t]) \in Ids /\ Open(resolve_retry_chain(buffered[t]))
           /\ batches[resolve_retry_chain(buffered[t])].status = "draft"
           /\ t \in Members(resolve_retry_chain(buffered[t]))
    BY <1>1, UnsettledTip
  <1>7. \A e \in tips : /\ e \in Ids /\ Open(e) /\ batches[e].status = "draft" /\ \A t \in Unsettled : t \in Members(e)
    <2>1. \A e \in tips : e \in Ids /\ Open(e) /\ batches[e].status = "draft"
      BY <1>6
    <2>2. \A e \in tips, t \in Unsettled : e = resolve_retry_chain(buffered[t])
      BY <1>6, <2>1 DEF AggInv, OpenInv
    <2> QED
      BY <1>6, <2>1, <2>2
  <1>8. tips = {} \/ \E e \in Ids : tips = {e}
    BY <1>7, SMT DEF AggInv, OpenInv
  <1>9. ~(\E b, c \in tips : b # c) /\ ~ \E b \in tips : batches[b].status \in {"completed", "failed"}
    <2>1. \A b, c \in tips : b = c
      <3> HIDE DEF tips
      <3> QED
        BY <1>8
    <2> QED
      BY <1>7, <2>1
  <1>10. /\ leader' = "up"
         /\ agenda' = ResidualAgenda \o (IF tips = {} THEN <<>>
                          ELSE <<Rebuild(CHOOSE b \in tips : TRUE, Unsettled)>>)
    BY <1>9 DEF restore_from_journal
  <1>11. ResidualAgenda \in Seq(ResidualStep) /\ ResidualStep \subseteq Steps
    BY ResidualAgendaType
  <1>12. /\ leader' = "up" /\ batch' = 0 /\ tokens' = <<>> /\ ResidualStep' = ResidualStep
         /\ UNCHANGED <<settings, buffered, terminal, batches, answered>>
    <2>1. ResidualStep' = ResidualStep
      BY <1>1, <1>3 DEF ResidualStep
    <2> QED
      BY <1>1, <1>2, <1>10, <2>1
  <1>13. \A c \in Ids' : Open(c)' <=> Open(c)
    BY <1>3, <1>12 DEF Open
  <1>14. CASE tips = {}
    <2>1. agenda' = ResidualAgenda
      <3>1. agenda' = ResidualAgenda \o <<>>
        BY <1>10, <1>14
      <3> QED
        BY <1>11, <3>1, SMT
    <2>2. agenda' \in Seq(Steps) /\ \A i \in DOMAIN agenda' : agenda'[i] \in ResidualStep
      BY <1>11, <2>1, SMT
    <2>3. Types'
      BY <1>4, <1>12, <2>2, <1>2 DEF AggInv, Types, TypeOK
    <2>4. LeaderInv'
      <3>1. ASSUME NEW i \in DOMAIN agenda'
            PROVE  /\ FlushStep(agenda[i])' /\ DisposalStep(agenda[i])' /\ RebuildStep(agenda[i])'
                   /\ agenda'[i].op \notin {"plugin", "unrouted", "rebuild"}
        <4>1. agenda'[i].op \in {"expand", "complete"} /\ agenda'[i].batch \in Ids
              /\ batches[agenda'[i].batch].verdict # "none"
          BY <2>2 DEF ResidualStep
        <4> QED
          BY <1>3, <1>12, <4>1 DEF FlushStep, DisposalStep, RebuildStep
      <3> QED
        BY <1>12, <3>1 DEF LeaderInv, InProgress
    <2>5. OpenInv'
      <3>1. \A c \in Ids : ~Open(c)
        <4>1. Unsettled = {}
          BY <1>14
        <4> QED
          BY <4>1, OpenUnsettled DEF Open
      <3> QED
        BY <1>3, <1>12, <1>13, <3>1 DEF OpenInv, RefusedOnlyPartway
    <2> QED
      BY <1>3, <1>5, <2>3, <2>4, <2>5 DEF AggInv
  <1>15. CASE tips # {}
    <2>1. PICK e \in Ids : tips = {e}
      BY <1>8, <1>15
    <2>2. Open(e) /\ batches[e].status = "draft" /\ Unsettled \subseteq Members(e) /\ Unsettled # {} /\ e \in Nat
          /\ Members(e) \subseteq Tokens
      BY <1>2, <1>7, <2>1, BatchTypes
    <2> DEFINE s == Rebuild(e, Unsettled)
    <2>5. s \in Steps /\ s.op = "rebuild" /\ s.batch = e /\ s.rows = Unsettled
      BY <2>2, SMT DEF Rebuild, Steps
    <2>6. agenda' = ResidualAgenda \o <<s>>
      <3>1. (CHOOSE b \in tips : TRUE) = e
        BY <2>1
      <3> QED
        BY <1>10, <1>15, <3>1
    <2> HIDE DEF s
    <2>7. PICK n \in Nat : n = Len(ResidualAgenda)
      BY <1>11, SMT
    <2>8. /\ agenda' \in Seq(Steps) /\ Len(agenda') = n + 1 /\ DOMAIN agenda' = 1 .. n + 1
          /\ \A i \in 1 .. n : agenda'[i] \in ResidualStep
          /\ agenda'[n + 1] = s
      <3>1. ResidualAgenda \in Seq(Steps) /\ <<s>> \in Seq(Steps) /\ Len(<<s>>) = 1 /\ <<s>>[1] = s
        BY <1>11, <2>5, SMT
      <3>2. \A i \in 1 .. n : ResidualAgenda[i] \in ResidualStep
        BY <1>11, <2>7, SMT
      <3> HIDE DEF tips
      <3>3. /\ ResidualAgenda \o <<s>> \in Seq(Steps) /\ Len(ResidualAgenda \o <<s>>) = n + 1
            /\ \A i \in 1 .. n + 1 : (ResidualAgenda \o <<s>>)[i] =
                   IF i <= n THEN ResidualAgenda[i] ELSE <<s>>[i - n]
        BY <2>7, <3>1, SMT
      <3> QED
        BY <2>6, <3>1, <3>2, <3>3, SMT
    <2>9. Types'
      BY <1>4, <1>12, <2>8, <1>2 DEF AggInv, Types, TypeOK
    <2>10. s.rows # {} /\ s.rows = Unsettled
      BY <2>2, <2>5
    <2>11. LeaderInv'
      <3>1. ASSUME NEW i \in DOMAIN agenda'
            PROVE  /\ FlushStep(agenda[i])' /\ DisposalStep(agenda[i])' /\ RebuildStep(agenda[i])'
                   /\ agenda'[i].op \in {"plugin", "unrouted", "rebuild"} => i = Len(agenda')
        <4>1. CASE i \in 1 .. n
          <5>1. agenda'[i].op \in {"expand", "complete"} /\ agenda'[i].batch \in Ids
                /\ batches[agenda'[i].batch].verdict # "none"
            BY <2>8, <4>1 DEF ResidualStep
          <5> QED
            BY <1>3, <1>12, <5>1 DEF FlushStep, DisposalStep, RebuildStep
        <4>2. CASE i = n + 1
          <5>1. \A t \in Unsettled : journal'[t] = "adopted" /\ terminal'[t] = "none"
            BY <1>4, <1>6, <1>12
          <5>2. agenda'[i] = s
            BY <2>8, <4>2
          <5>3. RebuildStep(agenda[i])'
            BY <1>3, <1>12, <2>2, <2>5, <2>10, <5>1, <5>2 DEF RebuildStep
          <5>4. FlushStep(agenda[i])' /\ DisposalStep(agenda[i])'
            BY <2>5, <5>2 DEF FlushStep, DisposalStep
          <5> QED
            BY <2>8, <4>2, <5>3, <5>4
        <4> QED
          BY <2>8, <4>1, <4>2, SMT
      <3> QED
        BY <1>12, <3>1 DEF LeaderInv, InProgress
    <2>12. OpenInv'
      <3>1. ASSUME NEW c \in Ids', Open(c)' PROVE InHand(c)'
        <4>1. c \in Ids /\ Open(c)
          BY <1>3, <1>13, <3>1
        <4>2. \A t \in Members(c) : terminal[t] # "unrouted" => t \in s.rows
          BY <2>10, <4>1, OpenUnsettled
        <4>3. n + 1 \in DOMAIN agenda'
          BY <2>8, SMT
        <4> QED
          BY <1>3, <1>12, <2>5, <2>8, <4>2, <4>3 DEF InHand
      <3> QED
        BY <1>3, <1>12, <1>13, <3>1 DEF AggInv, OpenInv, RefusedOnlyPartway
    <2> QED
      BY <1>3, <1>5, <2>9, <2>11, <2>12 DEF AggInv
  <1> QED
    BY <1>14, <1>15

\* The executor takes the restored batch over, or finds that some members failed.
LEMMA RebuildBatchStep ==
  ASSUME AggInv, rebuild_batch
  PROVE  AggInv'
  <1>1. Doing("rebuild")
    BY DEF rebuild_batch
  <1>2. /\ leader = "up" /\ 1 \in DOMAIN agenda /\ Head(agenda) = agenda[1] /\ agenda[1].op = "rebuild"
        /\ Len(agenda) \in Nat /\ DOMAIN agenda = 1 .. Len(agenda) /\ agenda \in Seq(Steps)
    BY <1>1, FirstStep DEF AggInv, Types
  <1>3. PICK s : s = agenda[1]
    OBVIOUS
  <1>4. /\ batch = 0 /\ s.batch \in Ids /\ batches[s.batch].status = "draft"
        /\ s.rows # {} /\ s.rows \subseteq Members(s.batch)
        /\ \A t \in s.rows : journal[t] = "adopted" /\ terminal[t] = "none"
    BY <1>2, <1>3 DEF AggInv, LeaderInv, RebuildStep
  <1>5. Len(agenda) = 1 /\ DOMAIN agenda = {1} /\ Tail(agenda) = <<>>
    <2>1. Len(agenda) = 1
      BY <1>2 DEF AggInv, LeaderInv
    <2>2. agenda # <<>>
      BY <2>1, SMT
    <2>3. Tail(agenda) \in Seq(Steps) /\ Len(Tail(agenda)) = 0
      BY <1>2, <2>1, <2>2, SMT
    <2>4. Tail(agenda) = <<>>
      BY <2>3, NothingLeft
    <2>5. DOMAIN agenda = {1}
      BY <1>2, <2>1, SMT
    <2> QED
      BY <2>1, <2>4, <2>5
  <1>6. /\ \/ /\ s.rows = Members(s.batch)
              /\ batch' = s.batch /\ tokens' = batches[s.batch].members /\ leader' = leader
           \/ /\ s.rows # Members(s.batch)
              /\ leader' = "refused" /\ batch' = batch /\ tokens' = tokens
        /\ agenda' = <<>>
        /\ UNCHANGED <<settings, journal, buffered, terminal, batches, crashes, answered>>
    BY <1>2, <1>3, <1>5 DEF rebuild_batch, Done, memory, landscape
  <1>7. batches \in Seq(Batch) /\ batches[s.batch].members \in Seq(Tokens) /\ s.batch \in 0 .. Len(batches)
        /\ 0 \notin Ids
    BY <1>4, BatchTypes, SMT DEF AggInv, Types
  <1>8. Ids' = Ids /\ ChainInv' /\ (\A b : Members(b)' = Members(b) /\ (Retried(b)' <=> Retried(b)))
    BY <1>6, SameBatches DEF AggInv
  <1>9. HeldInv'
    BY <1>6, <1>8, HeldFrame
  <1>10. Types'
    BY <1>4, <1>6, <1>7, SMT DEF AggInv, Types, TypeOK
  <1>11. ~Retried(s.batch) /\ batches[s.batch].verdict = "none"
    BY <1>4 DEF AggInv, ChainInv
  <1>12. \A c \in Ids : Open(c) => \A t \in Members(c) : terminal[t] # "unrouted" => t \in s.rows
    BY <1>2, <1>3, <1>4, <1>5, <1>7 DEF AggInv, OpenInv, InHand
  <1>13. \A c \in Ids' : Open(c)' <=> Open(c)
    BY <1>6, <1>8 DEF Open
  <1>14. CASE s.rows = Members(s.batch)
    <2>1. batch' = s.batch /\ tokens' = batches[s.batch].members /\ leader' = leader
      BY <1>6, <1>14
    <2>2. PICK b \in Ids : b = s.batch
      BY <1>4
    <2>3. Members(batch)' = Members(b)
      BY <1>6, <2>1, <2>2 DEF Members
    <2>4. LeaderInv'
      <3>1. InProgress'
        BY <1>4, <1>6, <1>8, <1>14, <2>1, <2>2, <2>3, SMT DEF InProgress
      <3> QED
        BY <1>2, <1>6, <1>7, <2>1, <2>2, <3>1, SMT DEF LeaderInv
    <2>5. OpenInv'
      <3>1. \A c \in Ids : Open(c) => c = b
        BY <1>4, <1>11, <1>12, <1>14, <2>2 DEF AggInv, ChainInv, Open
      <3> QED
        BY <1>2, <1>8, <1>13, <2>1, <2>2, <3>1 DEF OpenInv, InHand, RefusedOnlyPartway
    <2> QED
      BY <1>8, <1>9, <1>10, <2>4, <2>5 DEF AggInv
  <1>15. CASE s.rows # Members(s.batch)
    <2>1. leader' = "refused" /\ batch' = 0 /\ tokens' = <<>>
      BY <1>4, <1>6, <1>15 DEF AggInv, LeaderInv
    <2>2. LeaderInv'
      BY <1>6, <2>1, SMT DEF LeaderInv, InProgress
    <2>3. FailedPartway'
      <3>1. PICK u \in Members(s.batch) : u \notin s.rows
        BY <1>4, <1>15
      <3>2. PICK t \in s.rows : t \in Members(s.batch) /\ terminal[t] = "none"
        BY <1>4
      <3>3. Open(s.batch)
        BY <1>11, <3>2 DEF Open
      <3>4. terminal[u] = "unrouted"
        BY <1>4, <1>12, <3>1, <3>3
      <3> QED
        BY <1>4, <1>6, <1>8, <3>1, <3>2, <3>4 DEF FailedPartway
    <2>4. OpenInv'
      BY <1>8, <1>13, <2>1, <2>3 DEF AggInv, OpenInv, RefusedOnlyPartway
    <2> QED
      BY <1>8, <1>9, <1>10, <2>2, <2>4 DEF AggInv
  <1> QED
    BY <1>14, <1>15

--------------------------------------------------------------------------------
\* Every step keeps the invariant.
LEMMA AggStep == AggInv /\ [Next]_vars => AggInv'
  <1> SUFFICES ASSUME AggInv, [Next]_vars PROVE AggInv'
    OBVIOUS
  <1>1. CASE UNCHANGED vars
    <2>1. UNCHANGED <<settings, journal, buffered, terminal, batches, batch, tokens, agenda, leader, answered>>
      BY <1>1 DEF vars, landscape, memory
    <2>2. Ids' = Ids /\ ChainInv' /\ (\A b : Members(b)' = Members(b) /\ (Retried(b)' <=> Retried(b)))
      BY <2>1, SameBatches DEF AggInv
    <2>3. HeldInv'
      BY <2>1, <2>2, HeldFrame
    <2>4. Types'
      BY <2>1 DEF AggInv, Types, TypeOK
    <2>5. LeaderInv'
      BY <2>1 DEF AggInv, LeaderInv, InProgress, FlushStep, DisposalStep, RebuildStep, Ids, Members
    <2>6. OpenInv'
      BY <2>1, <2>2 DEF AggInv, OpenInv, Open, InHand, RefusedOnlyPartway, FailedPartway
    <2> QED
      BY <2>2, <2>3, <2>4, <2>5, <2>6 DEF AggInv
  <1>2. CASE \E t \in Tokens : mark_blocked(t) \/ adopt_blocked_barrier_item(t)
    BY <1>2, MarkBlockedStep, AdoptStep
  <1>3. CASE \/ open_batch_membership \/ execute_flush \/ complete_aggregation_result \/ fail_unfinalized_batch
             \/ violate \/ record_batch_violation_failure \/ expand_token \/ complete_barrier
             \/ Crash \/ handle_incomplete_batches \/ restore_from_journal \/ rebuild_batch
    BY <1>3, OpenBatchStep, ExecuteFlushStep, AnswerStep, FailStep, ViolateStep, ViolationFailureStep,
       ExpandStep, CompleteStep, CrashStep, HandleIncompleteStep, RestoreStep, RebuildBatchStep
  <1> QED
    BY <1>1, <1>2, <1>3 DEF Next

\* The inductive invariant of the aggregation node.
THEOREM AggInvTheorem == Spec => []AggInv
  <1> QED
    BY AggInit, AggStep, PTL DEF Spec

\* For any number of rows, batches, crashes and retries of retries, the plugin's
\* verdict on a row comes in at most once: no resume runs the plugin on the
\* members of a batch whose answer is recorded.
THEOREM AnsweredOnceTheorem == Spec => []AnsweredOnce
  <1>1. AggInv => AnsweredOnce
    BY DEF AggInv, HeldInv
  <1> QED
    BY <1>1, AggInvTheorem, PTL

\* The members of an answered batch have left the journal exactly when what
\* replaces them is scheduled; they are consumed exactly when the children of the
\* batch exist, or, if the result quarantined them, quarantined exactly when the
\* batch is expanded or released, wherever the disposal of the batch is cut off.
THEOREM LeftTheorem == Spec => []LeftWithTheirOutput
  <1>1. AggInv => LeftWithTheirOutput
    BY DEF AggInv, HeldInv, LeftInv, Fits, LeftWithTheirOutput
  <1> QED
    BY <1>1, AggInvTheorem, PTL

\* restore_from_journal and the check of the members it hands back refuse a resume
\* only where record_batch_violation_failures was cut off partway.
THEOREM RefusedTheorem == Spec => []RefusedOnlyPartway
  <1>1. AggInv => RefusedOnlyPartway
    BY DEF AggInv, OpenInv
  <1> QED
    BY <1>1, AggInvTheorem, PTL

================================================================================
