----------------------------- MODULE JourneyProofs -----------------------------
(***************************************************************************)
(* Theorems about JourneyEngine, for any rows, any number of requests and  *)
(* any starting tables that earlier requests may have left.                *)
(*                                                                         *)
(* The properties speak of tables at rest; JourneyInv says what holds in   *)
(* between.  Everything in it hangs on where each request is: a code is    *)
(* one of finitely many (Codes), and what it still owes says which of the  *)
(* row, the progress, the decision and the graph may lag behind.  A        *)
(* request that has been alone since its last read knows the tables as     *)
(* they are (Fresh, Updates); one that met another has everything excused. *)
(***************************************************************************)
EXTENDS JourneyEngine, SequenceTheorems, FiniteSetTheorems, WellFoundedInduction, TLAPS

-----------------------------------------------------------------------------
(* Numbers                                                                  *)

\* A set of numbers has a least one: what stands in for induction below.
LEMMA Least ==
  ASSUME NEW S \in SUBSET Nat, S # {}
  PROVE  \E m \in S : \A y \in S : m <= y
<1>1. PICK x \in S : \A y \in S : ~ (<<y, x>> \in OpToRel(<, Nat))
  BY NatLessThanWellFounded, WFMin
<1>2. \A y \in S : y \in Nat /\ ~ (y < x)
  BY <1>1 DEF OpToRel
<1> QED BY <1>2

-----------------------------------------------------------------------------
(* Sequences *)

\* The elements of sequences put together.
LEMMA OfConcat ==
  ASSUME NEW S, NEW s \in Seq(S), NEW t \in Seq(S)
  PROVE  s \o t \in Seq(S) /\ Range(s \o t) = Range(s) \cup Range(t)
<1>1. /\ s \o t \in Seq(S) /\ Len(s \o t) = Len(s) + Len(t)
      /\ \A i \in 1..Len(s) + Len(t) : (s \o t)[i] = IF i <= Len(s) THEN s[i] ELSE t[i - Len(s)]
  BY ConcatProperties
<1>2. /\ Len(s) \in Nat /\ Len(t) \in Nat /\ DOMAIN s = 1..Len(s) /\ DOMAIN t = 1..Len(t)
      /\ DOMAIN (s \o t) = 1..Len(s) + Len(t)
  BY <1>1, LenProperties
<1>3. ASSUME NEW y \in Range(s) \cup Range(t) PROVE y \in Range(s \o t)
  <2>1. CASE y \in Range(s)
    <3>1. PICK i \in DOMAIN s : y = s[i]
      BY <2>1 DEF Range
    <3>2. i \in DOMAIN (s \o t) /\ (s \o t)[i] = y
      BY <3>1, <1>1, <1>2
    <3> QED BY <3>2 DEF Range
  <2>2. CASE y \in Range(t)
    <3>1. PICK i \in DOMAIN t : y = t[i]
      BY <2>2 DEF Range
    <3>2. Len(s) + i \in DOMAIN (s \o t) /\ (s \o t)[Len(s) + i] = t[(Len(s) + i) - Len(s)] /\ (Len(s) + i) - Len(s) = i
      BY <3>1, <1>1, <1>2
    <3> QED BY <3>1, <3>2 DEF Range
  <2> QED BY <1>3, <2>1, <2>2
<1>4. ASSUME NEW y \in Range(s \o t) PROVE y \in Range(s) \cup Range(t)
  <2>1. PICK i \in 1..Len(s) + Len(t) : y = (s \o t)[i]
    BY <1>2, <1>4 DEF Range
  <2>2. CASE i <= Len(s)
    <3>1. i \in DOMAIN s /\ y = s[i]
      BY <2>1, <2>2, <1>1, <1>2
    <3> QED BY <3>1 DEF Range
  <2>3. CASE ~(i <= Len(s))
    <3>1. i - Len(s) \in DOMAIN t /\ y = t[i - Len(s)]
      BY <2>1, <2>3, <1>1, <1>2
    <3> QED BY <3>1 DEF Range
  <2> QED BY <2>2, <2>3
<1>5. Range(s \o t) = Range(s) \cup Range(t)
  BY <1>3, <1>4
<1>6. s \o t \in Seq(S)
  BY <1>1
<1> QED BY <1>5, <1>6

LEMMA OfOne == ASSUME NEW S, NEW x \in S
  PROVE <<x>> \in Seq(S) /\ Range(<<x>>) = {x}
BY DEF Range

LEMMA OfTwo == ASSUME NEW S, NEW x \in S, NEW y \in S
  PROVE <<x, y>> \in Seq(S) /\ Range(<<x, y>>) = {x, y}
<1>1. <<x, y>> \in Seq(S) /\ DOMAIN <<x, y>> = {1, 2} /\ <<x, y>>[1] = x /\ <<x, y>>[2] = y
  OBVIOUS
<1> QED BY <1>1 DEF Range

LEMMA OfNone == ASSUME NEW S PROVE <<>> \in Seq(S) /\ Range(<<>>) = {}
BY DEF Range

\* What is left of a sequence after its first element.
LEMMA OfTail ==
  ASSUME NEW S, NEW s \in Seq(S), s # <<>>
  PROVE  /\ Head(s) \in S /\ Tail(s) \in Seq(S)
         /\ Range(s) = {Head(s)} \cup Range(Tail(s))
<1>1. /\ Len(s) \in Nat /\ Len(s) > 0 /\ DOMAIN s = 1..Len(s)
      /\ Tail(s) \in Seq(S) /\ DOMAIN Tail(s) = 1..Len(s) - 1 /\ Head(s) = s[1]
      /\ \A i \in 1..Len(s) - 1 : Tail(s)[i] = s[i+1]
  OBVIOUS
<1>2. ASSUME NEW y \in Range(s) PROVE y \in {Head(s)} \cup Range(Tail(s))
  <2>1. PICK i \in 1..Len(s) : y = s[i]
    BY <1>1, <1>2 DEF Range
  <2>2. CASE i = 1 BY <2>1, <2>2, <1>1
  <2>3. CASE i # 1
    <3>1. i - 1 \in DOMAIN Tail(s) /\ Tail(s)[i - 1] = s[(i - 1) + 1] /\ (i - 1) + 1 = i
      BY <1>1, <2>1, <2>3
    <3> QED BY <2>1, <3>1 DEF Range
  <2> QED BY <2>2, <2>3
<1>3. ASSUME NEW y \in {Head(s)} \cup Range(Tail(s)) PROVE y \in Range(s)
  <2>1. CASE y = Head(s)
    <3>1. 1 \in DOMAIN s /\ y = s[1]
      BY <1>1, <2>1
    <3> QED BY <3>1 DEF Range
  <2>2. CASE y \in Range(Tail(s))
    <3>1. PICK i \in 1..Len(s) - 1 : y = Tail(s)[i]
      BY <1>1, <2>2 DEF Range
    <3>2. i + 1 \in DOMAIN s /\ y = s[i + 1]
      BY <1>1, <3>1
    <3> QED BY <3>2 DEF Range
  <2> QED BY <1>3, <2>1, <2>2
<1>4. Head(s) \in S
  BY <1>1
<1>5. Range(s) = {Head(s)} \cup Range(Tail(s))
  BY <1>2, <1>3
<1> QED BY <1>1, <1>4, <1>5

LEMMA OfCons ==
  ASSUME NEW S, NEW x \in S, NEW s \in Seq(S)
  PROVE  /\ Cons(x, s) \in Seq(S) /\ Cons(x, s) # <<>>
         /\ Head(Cons(x, s)) = x /\ Tail(Cons(x, s)) = s
         /\ Range(Cons(x, s)) = {x} \cup Range(s)
<1>1. <<x>> \in Seq(S) /\ Range(<<x>>) = {x}
  BY OfOne
<1>2. Cons(x, s) \in Seq(S) /\ Range(Cons(x, s)) = {x} \cup Range(s)
  <2>1. <<x>> \o s \in Seq(S) /\ Range(<<x>> \o s) = Range(<<x>>) \cup Range(s)
    BY <1>1, OfConcat
  <2> QED BY <1>1, <2>1, Zenon DEF Cons
<1>3. Cons(x, s) # <<>> /\ Head(Cons(x, s)) = x /\ Tail(Cons(x, s)) = s
  BY DEF Cons
<1> QED BY <1>2, <1>3

\* FlattenSeq is defined by recursion; that a function as it asks for exists is
\* shown up to each length in turn.
LEMMA Flattening ==
  ASSUME NEW T, NEW n \in Nat, NEW b \in [1..n -> Seq(T)]
  PROVE  \A m \in 1..n : \E f : f = [i \in 1..m |-> IF i = 1 THEN b[i] ELSE f[i-1] \o b[i]]
<1> DEFINE Found(m) == \E f : f = [i \in 1..m |-> IF i = 1 THEN b[i] ELSE f[i-1] \o b[i]]
           Missed   == {m \in 1..n : ~Found(m)}
<1>1. SUFFICES ASSUME Missed # {} PROVE FALSE
  OBVIOUS
<1>2. PICK m \in Missed : \A k \in Missed : m <= k
  <2> HIDE DEF Found
  <2>1. Missed \in SUBSET Nat
    OBVIOUS
  <2> HIDE DEF Missed
  <2> QED BY <1>1, <2>1, Least
<1>3. m \in 1..n /\ ~Found(m)
  BY <1>2
<1>4. CASE m = 1
  <2> DEFINE f == [i \in 1..1 |-> b[1]]
  <2>1. f = [i \in 1..m |-> IF i = 1 THEN b[i] ELSE f[i-1] \o b[i]]
    BY <1>4
  <2> HIDE DEF f
  <2> QED BY <1>3, <2>1
<1>5. CASE m # 1
  <2>1. m - 1 \in 1..n /\ Found(m - 1)
    <3> HIDE DEF Found
    <3>1. m - 1 \in 1..n /\ ~(m <= m - 1)
      BY <1>3, <1>5
    <3>2. m - 1 \notin Missed
      <4> HIDE DEF Missed
      <4> QED BY <1>2, <3>1
    <3> QED BY <3>1, <3>2
  <2>2. PICK g : g = [i \in 1..m-1 |-> IF i = 1 THEN b[i] ELSE g[i-1] \o b[i]]
    BY <2>1
  <2> DEFINE f == [i \in 1..m |-> IF i = m THEN g[m-1] \o b[m] ELSE g[i]]
  <2>3. \A i \in 1..m-1 : g[i] = IF i = 1 THEN b[i] ELSE g[i-1] \o b[i]
    <3> DEFINE h == [i \in 1..m-1 |-> IF i = 1 THEN b[i] ELSE g[i-1] \o b[i]]
    <3>1. \A i \in 1..m-1 : h[i] = IF i = 1 THEN b[i] ELSE g[i-1] \o b[i]
      OBVIOUS
    <3>2. g = h
      BY <2>2
    <3> HIDE DEF h
    <3> QED BY <3>1, <3>2
  <2>4. \A i \in 1..m : f[i] = IF i = 1 THEN b[i] ELSE f[i-1] \o b[i]
    <3>1. TAKE i \in 1..m
    <3>2. CASE i = m
      <4>1. f[m] = g[m-1] \o b[m] /\ f[m-1] = g[m-1]
        BY <1>3, <1>5
      <4> QED BY <4>1, <3>2, <1>5
    <3>3. CASE i # m
      <4>1. i \in 1..m-1 /\ f[i] = g[i] /\ (i # 1 => f[i-1] = g[i-1])
        BY <3>3, <1>3
      <4> HIDE DEF f
      <4> QED BY <4>1, <2>3
    <3> QED BY <3>2, <3>3
  <2>5. f = [i \in 1..m |-> IF i = 1 THEN b[i] ELSE f[i-1] \o b[i]]
    <3>1. f = [i \in 1..m |-> f[i]]
      OBVIOUS
    <3> HIDE DEF f
    <3> QED BY <3>1, <2>4
  <2> HIDE DEF f
  <2> QED BY <1>3, <2>5
<1> QED BY <1>4, <1>5

Joined(f, b, n) == \A i \in 1..n : f[i] = IF i = 1 THEN b[i] ELSE f[i-1] \o b[i]

Gathers(s, T, b, n) ==
  s \in Seq(T) /\ \A y : y \in Range(s) <=> \E i \in 1..n : y \in Range(b[i])

\* The first n sequences, flattened, hold what each of them holds.
LEMMA Flattened ==
  ASSUME NEW T, NEW n \in Nat, n # 0, NEW b \in [1..n -> Seq(T)],
         NEW f, Joined(f, b, n)
  PROVE  Gathers(f[n], T, b, n)
<1> DEFINE Right(m) == Gathers(f[m], T, b, m)
           Wrong    == {m \in 1..n : ~Right(m)}
<1>0. n \in 1..n
  OBVIOUS
<1> HIDE DEF Right
<1>1. SUFFICES ASSUME Wrong # {} PROVE FALSE
  <2>1. Wrong = {} => Right(n)
    BY <1>0
  <2> QED BY <2>1 DEF Right, Gathers
<1>2. PICK m \in Wrong : \A k \in Wrong : m <= k
  <2>1. Wrong \in SUBSET Nat
    OBVIOUS
  <2> HIDE DEF Wrong
  <2> QED BY <1>1, <2>1, Least
<1>3. m \in 1..n /\ ~Right(m)
  BY <1>2
<1>4. CASE m = 1
  <2>1. f[1] = b[1] /\ b[1] \in Seq(T)
    BY <1>3, <1>4 DEF Joined
  <2> QED BY <1>3, <1>4, <2>1 DEF Right, Gathers
<1>5. CASE m # 1
  <2>1. m - 1 \in 1..n /\ ~(m <= m - 1)
    BY <1>3, <1>5
  <2>2. Right(m-1)
    <3>1. m - 1 \notin Wrong
      <4> HIDE DEF Wrong
      <4> QED BY <1>2, <2>1
    <3> QED BY <2>1, <3>1
  <2>3. f[m] = f[m-1] \o b[m] /\ b[m] \in Seq(T)
    BY <1>3, <1>5 DEF Joined
  <2>4. f[m] \in Seq(T) /\ Range(f[m]) = Range(f[m-1]) \cup Range(b[m])
    <3>1. f[m-1] \in Seq(T)
      BY <2>2 DEF Right, Gathers
    <3>2. \A u, v \in Seq(T) : u \o v \in Seq(T) /\ Range(u \o v) = Range(u) \cup Range(v)
      BY OfConcat
    <3> QED BY <2>3, <3>1, <3>2
  <2>5. \A i : i \in 1..m <=> i \in 1..m-1 \/ i = m
    BY <1>3
  <2>6. \A y : y \in Range(f[m]) <=> \E i \in 1..m : y \in Range(b[i])
    BY <2>2, <2>4, <2>5 DEF Right, Gathers
  <2> QED BY <1>3, <2>4, <2>6 DEF Right, Gathers
<1> QED BY <1>4, <1>5

\* A flattened sequence holds what its elements hold.
LEMMA OfFlatten ==
  ASSUME NEW T, NEW n \in Nat, NEW b \in [1..n -> Seq(T)]
  PROVE  FlattenSeq(b) \in Seq(T) /\ Range(FlattenSeq(b)) = UNION {Range(b[i]) : i \in 1..n}
<1>0. b \in Seq(Seq(T)) /\ Len(b) = n
  BY SeqDef
<1>1. CASE n = 0
  <2>1. b = <<>> /\ FlattenSeq(b) = b
    BY <1>0, <1>1 DEF FlattenSeq
  <2>2. UNION {Range(b[i]) : i \in 1..n} = {}
    BY <1>1
  <2>3. <<>> \in Seq(T) /\ Range(<<>>) = {}
    BY OfNone
  <2> QED BY <2>1, <2>2, <2>3
<1>2. CASE n # 0
  <2> DEFINE F == CHOOSE f : f = [i \in 1..n |-> IF i = 1 THEN b[i] ELSE f[i-1] \o b[i]]
  <2>1. F = [i \in 1..n |-> IF i = 1 THEN b[i] ELSE F[i-1] \o b[i]]
    <3>1. n \in 1..n
      BY <1>2
    <3>2. \E f : f = [i \in 1..n |-> IF i = 1 THEN b[i] ELSE f[i-1] \o b[i]]
      BY <3>1, Flattening
    <3> QED BY <3>2, Zenon
  <2>2. FlattenSeq(b) = F[n]
    BY <1>0, <1>2 DEF FlattenSeq
  <2> DEFINE G == [i \in 1..n |-> IF i = 1 THEN b[i] ELSE F[i-1] \o b[i]]
  <2> HIDE DEF F
  <2>4. \A i \in 1..n : G[i] = IF i = 1 THEN b[i] ELSE F[i-1] \o b[i]
    OBVIOUS
  <2>5. F = G
    BY <2>1
  <2> HIDE DEF G
  <2>6. \A i \in 1..n : F[i] = IF i = 1 THEN b[i] ELSE F[i-1] \o b[i]
    BY <2>4, <2>5
  <2>7. PICK f : Joined(f, b, n) /\ FlattenSeq(b) = f[n]
    BY <2>2, <2>6 DEF Joined
  <2>8. n \in Nat \ {0}
    BY <1>2
  <2>9. Gathers(f[n], T, b, n)
    BY <1>2, <2>7, Flattened
  <2> QED BY <2>7, <2>9 DEF Gathers
<1> QED BY <1>1, <1>2

-----------------------------------------------------------------------------
(* What the constants are.                                                 *)

Ids == Range(Children)

\* Rows as the engine saves them: an id is of one kind, severities have a weight,
\* and no operation cancels a goal.
RowOf(c, row) ==
  /\ row \in Rows /\ row.kind = KindOf[c]
  /\ row.kind = "blocker" => row.level \in DOMAIN SeverityWeight
  /\ row.kind = "goal" => row.status # "cancelled"
RowsOf(w) == DOMAIN w \subseteq Ids /\ \A c \in DOMAIN w : RowOf(c, w[c])

\* Decisions take the ids of their kind in order.
InOrder(w) ==
  \A c \in OfKind(w, "decision"), d \in Ids \ DOMAIN w :
    KindOf[d] = "decision" => Position(c) <= Position(d)

\* The last decision explains the phase of j.
Explained(j, w) ==
  OfKind(w, "decision") # {}
    => \E d \in OfKind(w, "decision") :
         /\ \A c \in OfKind(w, "decision") : Position(c) <= Position(d)
         /\ w[d].status = j.phase
         /\ w[d].link \in OfKind(w, "evidence")

JourneyConstants ==
  /\ Children \in Seq(Ids)
  /\ KindOf \in [Ids -> {"goal", "milestone", "blocker", "action", "evidence", "decision"}]
  /\ Journey \notin Ids \cup Phases /\ Phases \cap Ids = {} /\ NoLink \notin Ids
  /\ NoJourney \notin Journeys
  /\ Weights \subseteq Nat /\ Severities \subseteq DOMAIN SeverityWeight
  /\ ActionStatuses \cup MilestoneStatuses \subseteq Statuses
  /\ MaxOps \in Nat /\ MaxFaults \in Nat

\* What the tables hold at first is what earlier requests, one after the other,
\* may have left.
ReachedStarts ==
  \A start \in Starts :
    /\ start.graph \in BOOLEAN
    /\ RowsOf(start.rows) /\ InOrder(start.rows)
    /\ \/ start.journey = NoJourney /\ start.rows = <<>> /\ ~start.graph
       \/ /\ start.journey \in Journeys
          /\ start.journey.progress = Progress(start.rows)
          /\ Explained(start.journey, start.rows)

-----------------------------------------------------------------------------
(* Where a request is.                                                     *)

Notify == {"collect", "dropEdges", "dropNodes", "insert"}

Inserting(rest)     == Cons("insert", rest)
DroppingNodes(rest) == Cons("dropNodes", Inserting(rest))
DroppingEdges(rest) == Cons("dropEdges", DroppingNodes(rest))
Collecting(rest)    == Cons("collect", DroppingEdges(rest))
Updating(rest) ==
  {Inserting(rest), DroppingNodes(rest), DroppingEdges(rest), Collecting(rest)}

Refreshing == Cons("refresh", Collecting(<<>>))
Reading    == Cons("read", Refreshing)
Deciding   == Cons("decision", Collecting(<<>>))
Placing    == Cons("context", Deciding)
Proving    == Cons("evidence", Collecting(Placing))
Copying    == Cons("copy", Proving)

Codes ==
  {<<>>, Refreshing, Reading, Deciding, Placing, Proving, Copying,
   Cons("save", Reading), Cons("save", Collecting(<<>>)),
   Cons("create", Collecting(<<>>)), Cons("create", Collecting(Copying))}
    \cup Updating(<<>>) \cup Updating(Placing) \cup Updating(Copying)

\* What a request has still to do but for telling the graph.
Owes(c) == Range(c) \ Notify
Owed(r) == Owes(code[r])
At(r, S) == code[r] # <<>> /\ Head(code[r]) \in S

-----------------------------------------------------------------------------
(* The invariant.                                                          *)

Slots ==
  /\ DOMAIN code = Request /\ DOMAIN copy = Request
  /\ DOMAIN arg = Request /\ DOMAIN inserts = Request
  /\ \A r \in Request : DOMAIN arg[r] = {"id", "row", "phase"} /\ code[r] \in Codes

\* What a request means to write.
ArgOf(r) ==
  /\ arg[r].id \in Ids \cup {NoLink}
  /\ arg[r].id \in Ids => KindOf[arg[r].id] # "decision"
  /\ "save" \in Owed(r) =>
       /\ arg[r].id \in Ids /\ RowOf(arg[r].id, arg[r].row)
       /\ arg[r].row.kind # "evidence"
       /\ "refresh" \notin Owed(r) => arg[r].row.kind = "action"
  /\ Owed(r) \cap {"create", "decision"} # {} => arg[r].phase \in Phases
  /\ "decision" \in Owed(r) /\ "evidence" \notin Owed(r)
       => arg[r].id \in OfKind(rows, "evidence")

CopyOf(r) ==
  /\ "context" \in Owed(r) /\ "copy" \notin Owed(r) => copy[r].journey \in Journeys
  /\ "refresh" \in Owed(r) /\ "read" \notin Owed(r)
       => copy[r].journey \in Journeys /\ RowsOf(copy[r].rows)

\* An insert names a node or joins two.
Names   == Ids \cup Phases \cup {Journey}
IsInsert(x) ==
  IF IsNode(x) THEN x.node \in Names
  ELSE x.edge \in Names \X Names
InsertsOf(r) ==
  At(r, {"dropEdges", "dropNodes", "insert"})
    => /\ inserts[r] # <<>> /\ inserts[r] \in Seq(Range(inserts[r]))
       /\ \A x \in Range(inserts[r]) : IsInsert(x)

TablesTyped ==
  /\ journey \in Journeys \cup {NoJourney}
  /\ RowsOf(rows) /\ InOrder(rows)
  /\ nodes = [n \in DOMAIN nodes |-> nodes[n]] /\ DOMAIN nodes \subseteq Names
  /\ edges \subseteq (DOMAIN nodes) \X (DOMAIN nodes)

\* Only the call that creates the journey goes on without one.
Begun ==
  /\ journey = NoJourney => DOMAIN rows = {}
  /\ \A r \in InFlight : "create" \in Owed(r) \/ journey # NoJourney

Marks == {"graph", "progress", "phase"}

HistoryTyped ==
  /\ ops \in 0..MaxOps /\ faults \in 0..MaxFaults
  /\ together \subseteq Request /\ alone \subseteq Request
  /\ excused \subseteq Marks

TypeInv == Slots /\ (\A r \in Request : ArgOf(r) /\ CopyOf(r) /\ InsertsOf(r))
             /\ TablesTyped /\ Begun /\ HistoryTyped

\* What the history says of a request in flight.
Single ==
  /\ \A r \in InFlight : r \in alone \/ r \notin together => InFlight = {r}
  /\ excused # Marks => \A q, r \in InFlight : q = r

\* Request r knows the journey as it is: nobody moved it since r read it.
Clear(r, x) == r \in alone \/ x \notin excused

Uncreated ==
  \A r \in InFlight : "create" \in Owed(r) /\ excused # Marks => journey = NoJourney

Fresh(r) ==
  /\ At(r, {"refresh"}) /\ (Clear(r, "progress") \/ Clear(r, "phase"))
       => copy[r].journey = journey /\ copy[r].rows = rows
  /\ "context" \in Owed(r) /\ "copy" \notin Owed(r) /\ "progress" \notin excused
       => copy[r].journey = journey
  /\ At(r, {"decision"}) /\ Clear(r, "phase") => journey.phase = arg[r].phase

ProgressInv ==
  journey # NoJourney /\ "progress" \notin excused
    /\ (\A r \in InFlight : "refresh" \in Owed(r) => "save" \in Owed(r))
    => journey.progress = Progress(rows)

PhaseInv ==
  journey # NoJourney /\ "phase" \notin excused /\ (\A r \in InFlight : ~At(r, {"decision"}))
    => Explained(journey, rows)

Mirrored == nodes = MirrorNodes(journey, rows) /\ edges = MirrorEdges(journey, rows)

\* Of the mirror of journey j with rows w, nodes n and edges e are there and the
\* inserts of s still to be made.
Placed(s, n, e, j, w) ==
  /\ Range(s) \subseteq Range(Build(j, w))
  /\ DOMAIN n \subseteq DOMAIN MirrorNodes(j, w)
  /\ \A c \in DOMAIN n : n[c] = MirrorNodes(j, w)[c]
  /\ e \subseteq MirrorEdges(j, w)
  /\ \A x \in Range(Build(j, w)) :
       x \in Range(s) \/ (IF IsNode(x) THEN x.node \in DOMAIN n ELSE x.edge \in e)

GraphInv ==
  journey # NoJourney /\ "graph" \notin excused
    /\ (\A r \in InFlight : At(r, {"create", "copy", "evidence", "context", "save"}))
    => Mirrored

Updates(r) ==
  Clear(r, "graph") =>
    /\ At(r, {"dropEdges", "dropNodes"}) => inserts[r] = Build(journey, rows)
    /\ At(r, {"dropNodes"}) => edges = {}
    /\ At(r, {"insert"}) => Placed(inserts[r], nodes, edges, journey, rows)

\* A request that met nobody writes a resolved blocker back resolved.
Resolves(r) ==
  r \notin together /\ At(r, {"save"})
    /\ arg[r].id \in OfKind(rows, "blocker") /\ rows[arg[r].id].status = "resolved"
    => arg[r].row.status = "resolved"

JourneyInv ==
  /\ TypeInv /\ Single /\ Uncreated
  /\ ProgressInv /\ PhaseInv /\ GraphInv
  /\ \A r \in InFlight : Fresh(r) /\ Updates(r) /\ Resolves(r)

-----------------------------------------------------------------------------
(* Codes                                                                    *)

Context == {"copy", "evidence", "context", "decision"}

\* The calls that may come after a call, and what is owed from it on.
Successors ==
  [create |-> {"collect"}, copy |-> {"evidence"}, evidence |-> {"collect"},
   context |-> {"decision"}, decision |-> {"collect"}, save |-> {"read", "collect"},
   read |-> {"refresh"}, refresh |-> {"collect"}, collect |-> {"dropEdges"},
   dropEdges |-> {"dropNodes"}, dropNodes |-> {"insert"}, insert |-> {"copy", "context"}]
Debts ==
  [create |-> {{"create"}, {"create"} \cup Context}, copy |-> {Context},
   evidence |-> {{"evidence", "context", "decision"}}, context |-> {{"context", "decision"}},
   decision |-> {{"decision"}}, save |-> {{"save"}, {"save", "read", "refresh"}},
   read |-> {{"read", "refresh"}}, refresh |-> {{"refresh"}},
   collect |-> {{}, {"context", "decision"}, Context},
   dropEdges |-> {{}, {"context", "decision"}, Context},
   dropNodes |-> {{}, {"context", "decision"}, Context},
   insert |-> {{}, {"context", "decision"}, Context}]

Stage(c, h, t) ==
  /\ c \in Seq(Calls) /\ c # <<>> /\ Head(c) = h /\ Tail(c) = t
  /\ Owes(c) = (Owes(t) \cup {h}) \ Notify

\* A call put before a code is its next, and owed unless it only tells the graph.
LEMMA OneStage ==
  ASSUME NEW h \in Calls, NEW t \in Seq(Calls)
  PROVE  Stage(Cons(h, t), h, t)
<1>1. /\ Cons(h, t) \in Seq(Calls) /\ Cons(h, t) # <<>>
      /\ Head(Cons(h, t)) = h /\ Tail(Cons(h, t)) = t
      /\ Range(Cons(h, t)) = {h} \cup Range(t)
  BY OfCons
<1>2. Owes(Cons(h, t)) = (Owes(t) \cup {h}) \ Notify
  BY <1>1 DEF Owes
<1> QED BY <1>1, <1>2 DEF Stage

LEMMA NoneOwed == <<>> \in Seq(Calls) /\ Owes(<<>>) = {}
BY OfNone DEF Owes

\* A rebuild of the graph owes nothing by itself.
LEMMA UpdateStages ==
  ASSUME NEW s \in Seq(Calls)
  PROVE  /\ Stage(Inserting(s), "insert", s)
         /\ Stage(DroppingNodes(s), "dropNodes", Inserting(s))
         /\ Stage(DroppingEdges(s), "dropEdges", DroppingNodes(s))
         /\ Stage(Collecting(s), "collect", DroppingEdges(s))
         /\ \A c \in Updating(s) : c \in Seq(Calls) /\ Owes(c) = Owes(s)
<1>0. /\ {"insert", "dropNodes", "dropEdges", "collect"} \subseteq Calls
      /\ {"insert", "dropNodes", "dropEdges", "collect"} \subseteq Notify
  BY DEF Calls, Notify
<1>1. Stage(Inserting(s), "insert", s)
  BY <1>0, OneStage DEF Inserting
<1>2. Stage(DroppingNodes(s), "dropNodes", Inserting(s))
  BY <1>0, <1>1, OneStage DEF DroppingNodes, Stage
<1>3. Stage(DroppingEdges(s), "dropEdges", DroppingNodes(s))
  BY <1>0, <1>2, OneStage DEF DroppingEdges, Stage
<1>4. Stage(Collecting(s), "collect", DroppingEdges(s))
  BY <1>0, <1>3, OneStage DEF Collecting, Stage
<1>5. \A c \in Updating(s) : c \in Seq(Calls) /\ Owes(c) = Owes(s)
  BY <1>0, <1>1, <1>2, <1>3, <1>4 DEF Stage, Updating, Owes
<1> QED BY <1>1, <1>2, <1>3, <1>4, <1>5

LEMMA ContextStages ==
  /\ Stage(Deciding, "decision", Collecting(<<>>)) /\ Owes(Deciding) = {"decision"}
  /\ Stage(Placing, "context", Deciding) /\ Owes(Placing) = {"context", "decision"}
  /\ Stage(Proving, "evidence", Collecting(Placing))
  /\ Owes(Proving) = {"evidence", "context", "decision"}
  /\ Stage(Copying, "copy", Proving) /\ Owes(Copying) = Context
<1>0. {"decision", "context", "evidence", "copy"} \subseteq Calls
      /\ {"decision", "context", "evidence", "copy"} \cap Notify = {}
  BY DEF Calls, Notify
<1>1. Stage(Deciding, "decision", Collecting(<<>>)) /\ Owes(Deciding) = {"decision"}
  <2>1. Collecting(<<>>) \in Seq(Calls) /\ Owes(Collecting(<<>>)) = {}
    BY NoneOwed, UpdateStages DEF Updating
  <2>2. Stage(Deciding, "decision", Collecting(<<>>))
    BY <1>0, <2>1, OneStage DEF Deciding
  <2> QED BY <1>0, <2>1, <2>2 DEF Stage
<1>2. Stage(Placing, "context", Deciding) /\ Owes(Placing) = {"context", "decision"}
  <2>1. Stage(Placing, "context", Deciding)
    BY <1>0, <1>1, OneStage DEF Placing, Stage
  <2> QED BY <1>0, <1>1, <2>1 DEF Stage
<1>3. Stage(Proving, "evidence", Collecting(Placing)) /\ Owes(Proving) = {"evidence", "context", "decision"}
  <2>1. Collecting(Placing) \in Seq(Calls) /\ Owes(Collecting(Placing)) = Owes(Placing)
    BY <1>2, UpdateStages DEF Updating, Stage
  <2>2. Stage(Proving, "evidence", Collecting(Placing))
    BY <1>0, <2>1, OneStage DEF Proving
  <2> QED BY <1>0, <1>2, <2>1, <2>2 DEF Stage
<1>4. Stage(Copying, "copy", Proving) /\ Owes(Copying) = Context
  <2>1. Stage(Copying, "copy", Proving)
    BY <1>0, <1>3, OneStage DEF Copying, Stage
  <2> QED BY <1>0, <1>3, <2>1 DEF Stage, Context
<1> QED BY <1>1, <1>2, <1>3, <1>4

LEMMA SaveStages ==
  /\ Stage(Refreshing, "refresh", Collecting(<<>>)) /\ Owes(Refreshing) = {"refresh"}
  /\ Stage(Reading, "read", Refreshing) /\ Owes(Reading) = {"read", "refresh"}
  /\ Stage(Cons("save", Reading), "save", Reading)
  /\ Owes(Cons("save", Reading)) = {"save", "read", "refresh"}
  /\ Stage(Cons("save", Collecting(<<>>)), "save", Collecting(<<>>))
  /\ Owes(Cons("save", Collecting(<<>>))) = {"save"}
<1>0. {"refresh", "read", "save"} \subseteq Calls /\ {"refresh", "read", "save"} \cap Notify = {}
  BY DEF Calls, Notify
<1>1. Collecting(<<>>) \in Seq(Calls) /\ Owes(Collecting(<<>>)) = {}
  BY NoneOwed, UpdateStages DEF Updating
<1>2. Stage(Refreshing, "refresh", Collecting(<<>>)) /\ Owes(Refreshing) = {"refresh"}
  <2>1. Stage(Refreshing, "refresh", Collecting(<<>>))
    BY <1>0, <1>1, OneStage DEF Refreshing
  <2> QED BY <1>0, <1>1, <2>1 DEF Stage
<1>3. Stage(Reading, "read", Refreshing) /\ Owes(Reading) = {"read", "refresh"}
  <2>1. Stage(Reading, "read", Refreshing)
    BY <1>0, <1>2, OneStage DEF Reading, Stage
  <2> QED BY <1>0, <1>2, <2>1 DEF Stage
<1>4. /\ Stage(Cons("save", Reading), "save", Reading)
      /\ Owes(Cons("save", Reading)) = {"save", "read", "refresh"}
  <2>1. Stage(Cons("save", Reading), "save", Reading)
    BY <1>0, <1>3, OneStage DEF Stage
  <2> QED BY <1>0, <1>3, <2>1 DEF Stage
<1>5. /\ Stage(Cons("save", Collecting(<<>>)), "save", Collecting(<<>>))
      /\ Owes(Cons("save", Collecting(<<>>))) = {"save"}
  <2>1. Stage(Cons("save", Collecting(<<>>)), "save", Collecting(<<>>))
    BY <1>0, <1>1, OneStage
  <2> QED BY <1>0, <1>1, <2>1 DEF Stage
<1> QED BY <1>2, <1>3, <1>4, <1>5

LEMMA CreateStages ==
  /\ Stage(Cons("create", Collecting(<<>>)), "create", Collecting(<<>>))
  /\ Owes(Cons("create", Collecting(<<>>))) = {"create"}
  /\ Stage(Cons("create", Collecting(Copying)), "create", Collecting(Copying))
  /\ Owes(Cons("create", Collecting(Copying))) = {"create"} \cup Context
<1>0. "create" \in Calls /\ "create" \notin Notify /\ Context \cap Notify = {}
  BY DEF Calls, Notify, Context
<1>1. Collecting(<<>>) \in Seq(Calls) /\ Owes(Collecting(<<>>)) = {}
  BY NoneOwed, UpdateStages DEF Updating
<1>2. Collecting(Copying) \in Seq(Calls) /\ Owes(Collecting(Copying)) = Context
  BY ContextStages, UpdateStages DEF Updating, Stage
<1>3. /\ Stage(Cons("create", Collecting(<<>>)), "create", Collecting(<<>>))
      /\ Stage(Cons("create", Collecting(Copying)), "create", Collecting(Copying))
  BY <1>0, <1>1, <1>2, OneStage
<1> QED BY <1>0, <1>1, <1>2, <1>3 DEF Stage

\* Whatever code a request is at, its next call and what follows.
CodeFacts(c) ==
  /\ c \in Seq(Calls) /\ Head(c) \in Calls /\ Tail(c) \in Codes
  /\ Owes(Tail(c)) = Owes(c) \ {Head(c)}
  /\ Owes(c) \in Debts[Head(c)]
  /\ IF Tail(c) = <<>> THEN Head(c) = "insert" ELSE Head(Tail(c)) \in Successors[Head(c)]

\* The codes of a rebuild of the graph.
LEMMA UpdateFacts ==
  ASSUME NEW s \in {<<>>, Placing, Copying}, NEW c \in Updating(s)
  PROVE  CodeFacts(c)
<1>1. s \in Seq(Calls) /\ (s # <<>> => Head(s) \in {"context", "copy"})
      /\ Owes(s) \in {{}, {"context", "decision"}, Context}
  BY NoneOwed, ContextStages DEF Stage
<1>2. Updating(s) \cup {s} \subseteq Codes
  BY DEF Codes
<1>3. {"insert", "dropNodes", "dropEdges", "collect"} \subseteq Calls
      /\ \A h \in {"insert", "dropNodes", "dropEdges", "collect"} :
           h \in Notify /\ Owes(c) \ {h} = Owes(c)
           /\ Debts[h] = {{}, {"context", "decision"}, Context}
  BY DEF Calls, Notify, Debts, Owes
<1>4. Owes(c) = Owes(s)
  BY <1>1, UpdateStages
<1>5. CASE c = Inserting(s)
  <2>1. Stage(c, "insert", s)
    BY <1>1, <1>5, UpdateStages
  <2>2. Successors["insert"] = {"copy", "context"}
    BY DEF Successors
  <2> QED BY <1>1, <1>2, <1>3, <1>4, <2>1, <2>2 DEF Stage, CodeFacts
<1>6. CASE c = DroppingNodes(s)
  <2>1. Stage(c, "dropNodes", Inserting(s)) /\ Stage(Inserting(s), "insert", s)
    BY <1>1, <1>6, UpdateStages
  <2>2. Successors["dropNodes"] = {"insert"} /\ Inserting(s) \in Updating(s)
    BY DEF Successors, Updating
  <2>3. Owes(Inserting(s)) = Owes(s)
    BY <1>1, <2>2, UpdateStages
  <2> QED BY <1>1, <1>2, <1>3, <1>4, <2>1, <2>2, <2>3 DEF Stage, CodeFacts
<1>7. CASE c = DroppingEdges(s)
  <2>1. Stage(c, "dropEdges", DroppingNodes(s)) /\ Stage(DroppingNodes(s), "dropNodes", Inserting(s))
    BY <1>1, <1>7, UpdateStages
  <2>2. Successors["dropEdges"] = {"dropNodes"} /\ DroppingNodes(s) \in Updating(s)
    BY DEF Successors, Updating
  <2>3. Owes(DroppingNodes(s)) = Owes(s)
    BY <1>1, <2>2, UpdateStages
  <2> QED BY <1>1, <1>2, <1>3, <1>4, <2>1, <2>2, <2>3 DEF Stage, CodeFacts
<1>8. CASE c = Collecting(s)
  <2>1. Stage(c, "collect", DroppingEdges(s)) /\ Stage(DroppingEdges(s), "dropEdges", DroppingNodes(s))
    BY <1>1, <1>8, UpdateStages
  <2>2. Successors["collect"] = {"dropEdges"} /\ DroppingEdges(s) \in Updating(s)
    BY DEF Successors, Updating
  <2>3. Owes(DroppingEdges(s)) = Owes(s)
    BY <1>1, <2>2, UpdateStages
  <2> QED BY <1>1, <1>2, <1>3, <1>4, <2>1, <2>2, <2>3 DEF Stage, CodeFacts
<1> QED BY <1>5, <1>6, <1>7, <1>8 DEF Updating

\* What is left of a code, with a call other than those of an update before it.
LEMMA CodeFrom ==
  ASSUME NEW h \in Calls \ Notify, NEW t \in Codes, t \in Seq(Calls), t # <<>>,
         h \notin Owes(t), Owes(t) \cup {h} \in Debts[h], Head(t) \in Successors[h]
  PROVE  CodeFacts(Cons(h, t))
<1>1. Stage(Cons(h, t), h, t)
  BY OneStage
<1>2. Owes(Cons(h, t)) = Owes(t) \cup {h}
  BY <1>1 DEF Stage, Owes
<1> QED BY <1>1, <1>2 DEF Stage, CodeFacts

\* Of any code a request may be at, the next call leads to another such code.
LEMMA CodeStep ==
  ASSUME NEW c \in Codes, c # <<>>
  PROVE  CodeFacts(c)
<1>1. CASE c \in Updating(<<>>) \cup Updating(Placing) \cup Updating(Copying)
  BY <1>1, UpdateFacts
<1>2. CASE c \in {Refreshing, Reading, Deciding, Placing, Proving, Copying,
                  Cons("save", Reading), Cons("save", Collecting(<<>>)),
                  Cons("create", Collecting(<<>>)), Cons("create", Collecting(Copying))}
  <2>0. \A s \in {<<>>, Placing, Copying} :
          LET t == Collecting(s) IN
          t \in Codes /\ t \in Seq(Calls) /\ t # <<>> /\ Head(t) = "collect" /\ Owes(t) = Owes(s)
    <3>1. \A s \in {<<>>, Placing, Copying} : s \in Seq(Calls)
      BY NoneOwed, ContextStages DEF Stage
    <3>2. \A s \in {<<>>, Placing, Copying} : Collecting(s) \in Codes /\ Collecting(s) \in Updating(s)
      BY DEF Codes, Updating
    <3> QED BY <3>1, <3>2, UpdateStages DEF Stage
  <2>1. {"create", "copy", "evidence", "context", "decision", "save", "read", "refresh"}
          \subseteq Calls \ Notify
    BY DEF Calls, Notify
  <2>2. {Refreshing, Reading, Deciding, Placing, Proving, Copying} \subseteq Codes
    BY DEF Codes
  <2>3. CASE c = Refreshing
    <3>1. "collect" \in Successors["refresh"] /\ {"refresh"} \in Debts["refresh"]
      BY DEF Successors, Debts
    <3> QED BY <2>0, <2>1, <2>3, <3>1, CodeFrom, NoneOwed DEF Refreshing
  <2>4. CASE c = Reading
    <3>1. "refresh" \in Successors["read"] /\ {"read", "refresh"} \in Debts["read"]
      BY DEF Successors, Debts
    <3> QED BY <2>1, <2>2, <2>4, <3>1, CodeFrom, SaveStages DEF Reading, Stage
  <2>5. CASE c = Cons("save", Reading)
    <3>1. "read" \in Successors["save"] /\ {"save", "read", "refresh"} \in Debts["save"]
      BY DEF Successors, Debts
    <3>2. /\ Reading \in Seq(Calls) /\ Reading # <<>> /\ Head(Reading) = "read"
          /\ "save" \notin Owes(Reading) /\ Owes(Reading) \cup {"save"} = {"save", "read", "refresh"}
      BY SaveStages DEF Stage
    <3> QED BY <2>1, <2>2, <2>5, <3>1, <3>2, CodeFrom
  <2>6. CASE c = Cons("save", Collecting(<<>>))
    <3>1. "collect" \in Successors["save"] /\ {"save"} \in Debts["save"]
      BY DEF Successors, Debts
    <3> QED BY <2>0, <2>1, <2>6, <3>1, CodeFrom, NoneOwed
  <2>7. CASE c = Deciding
    <3>1. "collect" \in Successors["decision"] /\ {"decision"} \in Debts["decision"]
      BY DEF Successors, Debts
    <3> QED BY <2>0, <2>1, <2>7, <3>1, CodeFrom, NoneOwed DEF Deciding
  <2>8. CASE c = Placing
    <3>1. "decision" \in Successors["context"] /\ {"context", "decision"} \in Debts["context"]
      BY DEF Successors, Debts
    <3>2. /\ Deciding \in Seq(Calls) /\ Deciding # <<>> /\ Head(Deciding) = "decision"
          /\ "context" \notin Owes(Deciding) /\ Owes(Deciding) \cup {"context"} = {"context", "decision"}
      BY ContextStages DEF Stage
    <3> QED BY <2>1, <2>2, <2>8, <3>1, <3>2, CodeFrom DEF Placing
  <2>9. CASE c = Proving
    <3>1. /\ "collect" \in Successors["evidence"]
          /\ {"evidence", "context", "decision"} \in Debts["evidence"]
      BY DEF Successors, Debts
    <3> QED BY <2>0, <2>1, <2>9, <3>1, CodeFrom, ContextStages DEF Proving
  <2>10. CASE c = Copying
    <3>1. "evidence" \in Successors["copy"] /\ Context \in Debts["copy"]
      BY DEF Successors, Debts
    <3>2. {"evidence", "context", "decision"} \cup {"copy"} = Context
      BY DEF Context
    <3> QED BY <2>1, <2>2, <2>10, <3>1, <3>2, CodeFrom, ContextStages DEF Copying, Stage
  <2>11. CASE c = Cons("create", Collecting(<<>>))
    <3>1. "collect" \in Successors["create"] /\ {"create"} \in Debts["create"]
      BY DEF Successors, Debts
    <3> QED BY <2>0, <2>1, <2>11, <3>1, CodeFrom, NoneOwed
  <2>12. CASE c = Cons("create", Collecting(Copying))
    <3>1. /\ "collect" \in Successors["create"] /\ {"create"} \cup Context \in Debts["create"]
          /\ "create" \notin Context
      BY DEF Successors, Debts, Context
    <3> QED BY <2>0, <2>1, <2>12, <3>1, CodeFrom, ContextStages
  <2> QED BY <1>2, <2>3, <2>4, <2>5, <2>6, <2>7, <2>8, <2>9, <2>10, <2>11, <2>12
<1> QED BY <1>1, <1>2 DEF Codes

-----------------------------------------------------------------------------
(* The graph of a journey                                                   *)

\* What each row contributes is in what is listed, and nothing else.
LEMMA OfListed ==
  ASSUME Children \in Seq(Ids), NEW T, NEW w, DOMAIN w \subseteq Ids,
         NEW f \in [DOMAIN w -> Seq(T)]
  PROVE  /\ Listed(w, f) \in Seq(T)
         /\ Range(Listed(w, f)) = UNION {Range(f[c]) : c \in DOMAIN w}
<1> DEFINE n == Len(Children)
           b == [i \in 1..n |-> IF Children[i] \in DOMAIN w THEN f[Children[i]] ELSE <<>>]
<1>1. n \in Nat /\ DOMAIN Children = 1..n
  OBVIOUS
<1>2. <<>> \in Seq(T) /\ Range(<<>>) = {}
  BY OfNone
<1>3. b \in [1..n -> Seq(T)]
  BY <1>2
<1>4. Listed(w, f) = FlattenSeq(b)
  BY <1>1 DEF Listed
<1>5. \A i \in 1..n : b[i] = IF Children[i] \in DOMAIN w THEN f[Children[i]] ELSE <<>>
  OBVIOUS
<1>6. \A c \in DOMAIN w : \E i \in 1..n : c = Children[i]
  BY <1>1 DEF Ids, Range
<1> HIDE DEF n, b
<1>7. FlattenSeq(b) \in Seq(T) /\ Range(FlattenSeq(b)) = UNION {Range(b[i]) : i \in 1..n}
  BY <1>1, <1>3, OfFlatten
<1>8. UNION {Range(b[i]) : i \in 1..n} = UNION {Range(f[c]) : c \in DOMAIN w}
  <2>1. ASSUME NEW y, NEW i \in 1..n, y \in Range(b[i]) PROVE \E c \in DOMAIN w : y \in Range(f[c])
    BY <1>2, <1>5, <2>1
  <2>2. ASSUME NEW y, NEW c \in DOMAIN w, y \in Range(f[c]) PROVE \E i \in 1..n : y \in Range(b[i])
    BY <1>5, <1>6, <2>2
  <2> QED BY <2>1, <2>2
<1> QED BY <1>4, <1>7, <1>8

\* What a graph that mirrors journey j with rows w is made of.
NodeInserts(j, w) ==
  {NodeInsert(Journey, j), NodeInsert(j.phase, PhaseNode)}
    \cup {NodeInsert(c, NodeOf(w[c])) : c \in DOMAIN w}
EdgeInserts(j, w) == {EdgeInsert(e) : e \in MirrorEdges(j, w)}

\* Each link of a row is inserted as an edge.
LEMMA OfLinks ==
  ASSUME NEW w, NEW j
  PROVE  /\ \A c \in DOMAIN w : /\ EdgeInsert(<<Parent(w, c), c>>) \in EdgeInserts(j, w)
                                /\ LinkInserts(w, c) \in Seq(EdgeInserts(j, w))
         /\ \A x \in EdgeInserts(j, w) :
              \/ x = EdgeInsert(<<Journey, j.phase>>)
              \/ \E c \in DOMAIN w : x = EdgeInsert(<<Parent(w, c), c>>)
                                       \/ x \in Range(LinkInserts(w, c))
<1>1. ASSUME NEW c \in DOMAIN w
      PROVE  /\ EdgeInsert(<<Parent(w, c), c>>) \in EdgeInserts(j, w)
             /\ LinkInserts(w, c) \in Seq(EdgeInserts(j, w))
  <2>1. <<Parent(w, c), c>> \in MirrorEdges(j, w)
    BY DEF MirrorEdges
  <2>2. LinkInserts(w, c) \in Seq(EdgeInserts(j, w))
    <3>1. CASE w[c].link \in DOMAIN w /\ w[c].kind = "action"
      <4>1. <<c, w[c].link>> \in MirrorEdges(j, w)
        BY <3>1 DEF MirrorEdges, OfKind
      <4>2. LinkInserts(w, c) = <<EdgeInsert(<<c, w[c].link>>)>>
        BY <3>1 DEF LinkInserts
      <4> QED BY <4>1, <4>2, OfOne DEF EdgeInserts
    <3>2. CASE w[c].link \in DOMAIN w /\ w[c].kind = "decision"
      <4>1. <<w[c].link, c>> \in MirrorEdges(j, w)
        BY <3>2 DEF MirrorEdges, OfKind
      <4>2. LinkInserts(w, c) = <<EdgeInsert(<<w[c].link, c>>)>>
        BY <3>2 DEF LinkInserts
      <4> QED BY <4>1, <4>2, OfOne DEF EdgeInserts
    <3>3. CASE w[c].link \notin DOMAIN w \/ w[c].kind \notin {"action", "decision"}
      <4>1. LinkInserts(w, c) = <<>>
        BY <3>3 DEF LinkInserts
      <4> QED BY <4>1, OfNone
    <3> QED BY <3>1, <3>2, <3>3
  <2> QED BY <2>1, <2>2 DEF EdgeInserts
<1>2. ASSUME NEW e \in MirrorEdges(j, w), e # <<Journey, j.phase>>
      PROVE  \E c \in DOMAIN w : e = <<Parent(w, c), c>> \/ EdgeInsert(e) \in Range(LinkInserts(w, c))
  <2>1. CASE \E c \in DOMAIN w : e = <<Parent(w, c), c>>
    BY <2>1
  <2>2. CASE \E a \in OfKind(w, "action") : w[a].link \in DOMAIN w /\ e = <<a, w[a].link>>
    <3>1. PICK a \in OfKind(w, "action") : w[a].link \in DOMAIN w /\ e = <<a, w[a].link>>
      BY <2>2
    <3>2. a \in DOMAIN w /\ LinkInserts(w, a) = <<EdgeInsert(e)>>
      BY <3>1 DEF OfKind, LinkInserts
    <3>3. Range(<<EdgeInsert(e)>>) = {EdgeInsert(e)}
      BY OfOne
    <3> QED BY <3>2, <3>3
  <2>3. CASE \E d \in OfKind(w, "decision") : w[d].link \in DOMAIN w /\ e = <<w[d].link, d>>
    <3>1. PICK d \in OfKind(w, "decision") : w[d].link \in DOMAIN w /\ e = <<w[d].link, d>>
      BY <2>3
    <3>2. d \in DOMAIN w /\ LinkInserts(w, d) = <<EdgeInsert(e)>>
      BY <3>1 DEF OfKind, LinkInserts
    <3>3. Range(<<EdgeInsert(e)>>) = {EdgeInsert(e)}
      BY OfOne
    <3> QED BY <3>2, <3>3
  <2> QED BY <1>2, <2>1, <2>2, <2>3 DEF MirrorEdges
<1>3. ASSUME NEW x \in EdgeInserts(j, w)
      PROVE  \/ x = EdgeInsert(<<Journey, j.phase>>)
             \/ \E c \in DOMAIN w : x = EdgeInsert(<<Parent(w, c), c>>)
                                      \/ x \in Range(LinkInserts(w, c))
  <2>1. PICK e \in MirrorEdges(j, w) : x = EdgeInsert(e)
    BY <1>3 DEF EdgeInserts
  <2> QED BY <1>2, <2>1
<1> QED BY <1>1, <1>3

\* Build lists what the mirror is made of.
LEMMA OfBuild ==
  ASSUME Children \in Seq(Ids), NEW j, NEW w, DOMAIN w \subseteq Ids
  PROVE  /\ Build(j, w) # <<>>
         /\ Build(j, w) \in Seq(NodeInserts(j, w) \cup EdgeInserts(j, w))
         /\ Range(Build(j, w)) = NodeInserts(j, w) \cup EdgeInserts(j, w)
<1> DEFINE T     == NodeInserts(j, w) \cup EdgeInserts(j, w)
           two   == <<NodeInsert(Journey, j), NodeInsert(j.phase, PhaseNode)>>
           f     == [c \in DOMAIN w |-> <<NodeInsert(c, NodeOf(w[c]))>>]
           one   == <<EdgeInsert(<<Journey, j.phase>>)>>
           links == [c \in DOMAIN w |->
                       <<EdgeInsert(<<Parent(w, c), c>>)>> \o LinkInserts(w, c)]
<1>1. \A x : x \in T => <<x>> \in Seq(T) /\ Range(<<x>>) = {x}
  BY OfOne
<1>2. two \in Seq(T) /\ Range(two) = {NodeInsert(Journey, j), NodeInsert(j.phase, PhaseNode)}
  <2>1. NodeInsert(Journey, j) \in T /\ NodeInsert(j.phase, PhaseNode) \in T
    BY DEF NodeInserts
  <2> QED BY <2>1, OfTwo
<1>3. one \in Seq(T) /\ Range(one) = {EdgeInsert(<<Journey, j.phase>>)}
  <2>1. EdgeInsert(<<Journey, j.phase>>) \in T
    BY DEF EdgeInserts, MirrorEdges
  <2> QED BY <1>1, <2>1
<1>4. f \in [DOMAIN w -> Seq(T)] /\ \A c \in DOMAIN w : Range(f[c]) = {NodeInsert(c, NodeOf(w[c]))}
  <2>1. \A c \in DOMAIN w : NodeInsert(c, NodeOf(w[c])) \in T
    BY DEF NodeInserts
  <2> QED BY <1>1, <2>1
<1>5. /\ links \in [DOMAIN w -> Seq(T)]
      /\ \A c \in DOMAIN w : Range(links[c]) = {EdgeInsert(<<Parent(w, c), c>>)} \cup Range(LinkInserts(w, c))
  <2>1. ASSUME NEW c \in DOMAIN w
        PROVE  LET s == <<EdgeInsert(<<Parent(w, c), c>>)>> \o LinkInserts(w, c) IN
               s \in Seq(T)
               /\ Range(s) = {EdgeInsert(<<Parent(w, c), c>>)} \cup Range(LinkInserts(w, c))
    <3>1. EdgeInsert(<<Parent(w, c), c>>) \in T /\ LinkInserts(w, c) \in Seq(T)
      <4>1. EdgeInsert(<<Parent(w, c), c>>) \in EdgeInserts(j, w) /\ LinkInserts(w, c) \in Seq(EdgeInserts(j, w))
        BY OfLinks
      <4> QED BY <4>1
    <3>2. <<EdgeInsert(<<Parent(w, c), c>>)>> \in Seq(T)
          /\ Range(<<EdgeInsert(<<Parent(w, c), c>>)>>) = {EdgeInsert(<<Parent(w, c), c>>)}
      BY <1>1, <3>1
    <3> HIDE DEF T
    <3>3. \A s, t \in Seq(T) : s \o t \in Seq(T) /\ Range(s \o t) = Range(s) \cup Range(t)
      BY OfConcat
    <3> QED BY <3>1, <3>2, <3>3
  <2> QED BY <2>1
<1> HIDE DEF two, f, one, links
<1> DEFINE U == UNION {Range(f[c]) : c \in DOMAIN w}
           V == UNION {Range(links[c]) : c \in DOMAIN w}
<1>6. (Range(two) \cup U) \cup (Range(one) \cup V) = T
  <2>1. Range(two) \cup U = NodeInserts(j, w)
    BY <1>2, <1>4 DEF NodeInserts
  <2>2. Range(one) \cup V \subseteq EdgeInserts(j, w)
    <3>1. ASSUME NEW c \in DOMAIN w
          PROVE  Range(links[c]) \subseteq EdgeInserts(j, w)
      <4>1. EdgeInsert(<<Parent(w, c), c>>) \in EdgeInserts(j, w) /\ LinkInserts(w, c) \in Seq(EdgeInserts(j, w))
        BY OfLinks
      <4>2. Range(LinkInserts(w, c)) \subseteq EdgeInserts(j, w)
        BY <4>1 DEF Range
      <4> QED BY <1>5, <4>1, <4>2
    <3>2. EdgeInsert(<<Journey, j.phase>>) \in EdgeInserts(j, w)
      BY DEF EdgeInserts, MirrorEdges
    <3> QED BY <1>3, <3>1, <3>2
  <2>3. EdgeInserts(j, w) \subseteq Range(one) \cup V
    <3>1. \A x \in EdgeInserts(j, w) :
              \/ x = EdgeInsert(<<Journey, j.phase>>)
              \/ \E c \in DOMAIN w : x = EdgeInsert(<<Parent(w, c), c>>)
                                       \/ x \in Range(LinkInserts(w, c))
      BY OfLinks
    <3> QED BY <1>3, <1>5, <3>1
  <2> QED BY <2>1, <2>2, <2>3
<1> DEFINE A == Listed(w, f)
           B == Listed(w, links)
<1> HIDE DEF T
<1>7. A \in Seq(T) /\ Range(A) = U /\ B \in Seq(T) /\ Range(B) = V
  BY <1>4, <1>5, OfListed
<1>8. Build(j, w) = two \o A \o one \o B
  BY DEF Build, two, f, one, links
<1> HIDE DEF A, B, U, V
<1>9. Build(j, w) \in Seq(T) /\ Range(Build(j, w)) = Range(two) \cup Range(A) \cup Range(one) \cup Range(B)
  <2>1. \A s, t \in Seq(T) : s \o t \in Seq(T) /\ Range(s \o t) = Range(s) \cup Range(t)
    BY OfConcat
  <2> DEFINE x == two \o A
             y == x \o one
  <2>2. Build(j, w) = y \o B
    BY <1>8
  <2>3. x \in Seq(T) /\ Range(x) = Range(two) \cup Range(A)
    BY <1>2, <1>7, <2>1, Zenon
  <2> HIDE DEF x
  <2>4. y \in Seq(T) /\ Range(y) = Range(x) \cup Range(one)
    BY <1>3, <2>1, <2>3, Zenon
  <2> HIDE DEF y
  <2>5. y \o B \in Seq(T) /\ Range(y \o B) = Range(y) \cup Range(B)
    BY <1>7, <2>1, <2>4, Zenon
  <2> QED BY <2>2, <2>3, <2>4, <2>5
<1>10. Range(Build(j, w)) = T
  BY <1>6, <1>7, <1>9
<1>11. NodeInsert(Journey, j) \in T
  BY DEF T, NodeInserts
<1>12. Build(j, w) # <<>>
  BY <1>10, <1>11, OfNone
<1> QED BY <1>9, <1>10, <1>12 DEF T

\* Inserts of nodes and of edges do not get mixed up.
LEMMA OfInserts ==
  ASSUME NEW n, NEW v, NEW e
  PROVE  /\ IsNode(NodeInsert(n, v)) /\ NodeInsert(n, v).node = n /\ NodeInsert(n, v).value = v
         /\ ~IsNode(EdgeInsert(e)) /\ EdgeInsert(e).edge = e
BY DEF IsNode, NodeInsert, EdgeInsert

\* Each node and each edge of the mirror is built, and nothing else is.
LEMMA BuildsMirror ==
  ASSUME JourneyConstants, NEW j \in Journeys, NEW w, RowsOf(w)
  PROVE  /\ DOMAIN MirrorNodes(j, w) \subseteq Names
         /\ MirrorNodes(j, w) = [n \in DOMAIN MirrorNodes(j, w) |-> MirrorNodes(j, w)[n]]
         /\ Build(j, w) # <<>> /\ Build(j, w) \in Seq(Range(Build(j, w)))
         /\ \A x \in Range(Build(j, w)) :
              /\ IsInsert(x)
              /\ IsNode(x) => /\ x.node \in DOMAIN MirrorNodes(j, w)
                              /\ x.value = MirrorNodes(j, w)[x.node]
              /\ ~IsNode(x) => x.edge \in MirrorEdges(j, w)
         /\ \A n \in DOMAIN MirrorNodes(j, w) :
              \E x \in Range(Build(j, w)) : IsNode(x) /\ x.node = n
         /\ \A e \in MirrorEdges(j, w) :
              \E x \in Range(Build(j, w)) : ~IsNode(x) /\ x.edge = e
<1> DEFINE M == MirrorNodes(j, w)
           N == NodeInserts(j, w)
           E == EdgeInserts(j, w)
<1>0. /\ Children \in Seq(Ids) /\ Journey \notin Ids \cup Phases /\ Phases \cap Ids = {}
      /\ DOMAIN w \subseteq Ids /\ j.phase \in Phases
  BY DEF JourneyConstants, RowsOf, Journeys
<1>1. Build(j, w) # <<>> /\ Build(j, w) \in Seq(N \cup E) /\ Range(Build(j, w)) = N \cup E
  BY <1>0, OfBuild
<1>2. /\ DOMAIN M = DOMAIN w \cup {j.phase, Journey}
      /\ M[Journey] = j /\ M[j.phase] = PhaseNode /\ \A c \in DOMAIN w : M[c] = NodeOf(w[c])
      /\ M = [n \in DOMAIN M |-> M[n]]
  <2> DEFINE A == [c \in DOMAIN w |-> NodeOf(w[c])]
             B == With(A, j.phase, PhaseNode)
  <2>1. DOMAIN A = DOMAIN w /\ \A c \in DOMAIN w : A[c] = NodeOf(w[c])
    OBVIOUS
  <2> HIDE DEF A
  <2>2. /\ DOMAIN B = DOMAIN w \cup {j.phase} /\ B[j.phase] = PhaseNode
        /\ \A c \in DOMAIN w : B[c] = NodeOf(w[c])
    <3>1. /\ DOMAIN B = DOMAIN A \cup {j.phase} /\ B[j.phase] = PhaseNode
          /\ \A c \in DOMAIN A : c # j.phase => B[c] = A[c]
      BY DEF With
    <3> HIDE DEF B
    <3> QED BY <1>0, <2>1, <3>1
  <2> HIDE DEF B
  <2>3. M = With(B, Journey, j)
    BY DEF MirrorNodes, A, B
  <2>4. /\ DOMAIN With(B, Journey, j) = DOMAIN B \cup {Journey} /\ With(B, Journey, j)[Journey] = j
        /\ \A c \in DOMAIN B : c # Journey => With(B, Journey, j)[c] = B[c]
    BY DEF With
  <2> HIDE DEF M
  <2>5. /\ DOMAIN M = DOMAIN B \cup {Journey} /\ M[Journey] = j
        /\ \A c \in DOMAIN B : c # Journey => M[c] = B[c]
    BY <2>3, <2>4 DEF M
  <2>6. M = [n \in DOMAIN M |-> M[n]]
    BY <2>3 DEF M, With
  <2> QED BY <1>0, <2>2, <2>5, <2>6
<1> HIDE DEF M
<1>3. MirrorEdges(j, w) \subseteq Names \X Names
  <2>1. \A c \in DOMAIN w : Parent(w, c) \in DOMAIN w \cup {Journey}
    BY DEF Parent
  <2>2. DOMAIN w \cup {Journey, j.phase} \subseteq Names
    BY <1>0 DEF Names
  <2> QED BY <2>1, <2>2 DEF MirrorEdges, OfKind
<1>4. ASSUME NEW x \in N
      PROVE  IsNode(x) /\ x.node \in DOMAIN M /\ x.value = M[x.node]
  BY <1>2, <1>4, OfInserts DEF NodeInserts
<1>5. ASSUME NEW x \in E
      PROVE  ~IsNode(x) /\ x.edge \in MirrorEdges(j, w)
  BY <1>5, OfInserts DEF EdgeInserts
<1>6. ASSUME NEW n \in DOMAIN M PROVE \E x \in N : IsNode(x) /\ x.node = n
  <2>1. n \in DOMAIN w \cup {j.phase, Journey}
    BY <1>2, <1>6
  <2>2. \E v : NodeInsert(n, v) \in N
    BY <2>1 DEF NodeInserts
  <2> QED BY <2>2, OfInserts
<1>7. ASSUME NEW e \in MirrorEdges(j, w) PROVE \E x \in E : ~IsNode(x) /\ x.edge = e
  BY <1>7, OfInserts DEF EdgeInserts
<1>8. DOMAIN M \subseteq Names
  BY <1>0, <1>2 DEF Names
<1>9. \A x \in N \cup E : IsInsert(x)
  <2> HIDE DEF N, E
  <2> QED BY <1>3, <1>4, <1>5, <1>8 DEF IsInsert
<1> HIDE DEF N, E
<1> QED BY <1>1, <1>2, <1>4, <1>5, <1>6, <1>7, <1>8, <1>9 DEF M

-----------------------------------------------------------------------------
(* Progress                                                                 *)

\* g adds up f over every subset of S of at most m elements.
AddsUp(g, f, S, m) ==
  \A s \in SUBSET S : Cardinality(s) <= m =>
    g[s] = IF s = {} THEN 0
           ELSE LET x == CHOOSE x \in s : TRUE IN f[x] + g[s \ {x}]

LEMMA Smaller ==
  ASSUME NEW S, IsFiniteSet(S), NEW s \in SUBSET S, s # {}
  PROVE  LET x == CHOOSE x \in s : TRUE IN
         /\ x \in s /\ s \ {x} \in SUBSET S
         /\ Cardinality(s) \in Nat /\ Cardinality(s) <= Cardinality(S)
         /\ Cardinality(s) # 0 /\ Cardinality(s \ {x}) = Cardinality(s) - 1
<1>1. (CHOOSE x \in s : TRUE) \in s
  OBVIOUS
<1>2. IsFiniteSet(s)
  BY FS_Subset
<1>3. Cardinality(s) <= Cardinality(S) /\ Cardinality(S) \in Nat
  BY FS_Subset, FS_CardinalityType
<1>4. Cardinality(s) \in Nat /\ Cardinality(s) # 0
  BY <1>2, FS_CardinalityType, FS_EmptySet
<1>5. \A x \in s : Cardinality(s \ {x}) = Cardinality(s) - 1
  BY <1>2, FS_RemoveElement
<1> QED BY <1>1, <1>3, <1>4, <1>5

\* There is a function that adds up the subsets of each size.
LEMMA Sums ==
  ASSUME NEW S, IsFiniteSet(S), NEW f
  PROVE  \A m \in Nat : \E g : AddsUp(g, f, S, m)
<1> DEFINE Found(m) == \E g : AddsUp(g, f, S, m)
           Missed   == {m \in Nat : ~Found(m)}
<1> HIDE DEF Found
<1>1. SUFFICES ASSUME Missed # {} PROVE FALSE
  BY DEF Found
<1>2. PICK m \in Missed : \A k \in Missed : m <= k
  <2>1. Missed \in SUBSET Nat
    OBVIOUS
  <2> HIDE DEF Missed
  <2> QED BY <1>1, <2>1, Least
<1>3. m \in Nat /\ ~Found(m)
  BY <1>2
<1>4. \A s \in SUBSET S : s # {} =>
        LET x == CHOOSE x \in s : TRUE IN
        /\ s \ {x} \in SUBSET S /\ Cardinality(s) \in Nat /\ Cardinality(s) # 0
        /\ Cardinality(s \ {x}) = Cardinality(s) - 1
  BY Smaller
<1>5. Cardinality({}) = 0
  BY FS_EmptySet
<1>6. CASE m = 0
  <2> DEFINE g == [s \in SUBSET S |-> 0]
  <2>1. \A s \in SUBSET S : Cardinality(s) <= m => s = {} /\ g[s] = 0
    <3>1. \A s \in SUBSET S : s # {} => Cardinality(s) \in Nat /\ Cardinality(s) # 0
      BY <1>4
    <3> QED BY <1>6, <3>1
  <2> HIDE DEF g
  <2>2. AddsUp(g, f, S, m)
    BY <2>1 DEF AddsUp
  <2> QED BY <1>3, <2>2 DEF Found
<1>7. CASE m # 0
  <2>1. m - 1 \in Nat /\ ~(m <= m - 1)
    BY <1>3, <1>7
  <2>2. Found(m - 1)
    <3>1. m - 1 \notin Missed
      <4> HIDE DEF Missed
      <4> QED BY <1>2, <2>1
    <3> QED BY <2>1, <3>1
  <2>3. PICK h : AddsUp(h, f, S, m - 1)
    BY <2>2 DEF Found
  <2> DEFINE g == [s \in SUBSET S |->
                     IF Cardinality(s) = m
                     THEN LET x == CHOOSE x \in s : TRUE IN f[x] + h[s \ {x}]
                     ELSE h[s]]
  <2>4. \A s \in SUBSET S :
          g[s] = IF Cardinality(s) = m
                 THEN LET x == CHOOSE x \in s : TRUE IN f[x] + h[s \ {x}]
                 ELSE h[s]
    OBVIOUS
  <2> HIDE DEF g
  <2>5. ASSUME NEW s \in SUBSET S, Cardinality(s) <= m
        PROVE  g[s] = IF s = {} THEN 0
                      ELSE LET x == CHOOSE x \in s : TRUE IN f[x] + g[s \ {x}]
    <3>1. CASE s = {}
      <4>1. Cardinality(s) = 0 /\ Cardinality(s) # m /\ Cardinality(s) <= m - 1
        BY <1>3, <1>5, <1>7, <3>1
      <4>2. g[s] = h[s] /\ h[s] = 0
        BY <2>3, <2>4, <3>1, <4>1 DEF AddsUp
      <4> QED BY <3>1, <4>2
    <3>2. CASE s # {}
      <4> DEFINE x == CHOOSE x \in s : TRUE
      <4>1. /\ s \ {x} \in SUBSET S /\ Cardinality(s) \in Nat
            /\ Cardinality(s \ {x}) = Cardinality(s) - 1
        BY <1>4, <3>2
      <4>2. g[s] = IF Cardinality(s) = m THEN f[x] + h[s \ {x}] ELSE h[s]
        BY <2>4
      <4>3. Cardinality(s) # m => Cardinality(s) <= m - 1 /\ h[s] = f[x] + h[s \ {x}]
        BY <1>3, <2>3, <2>5, <3>2, <4>1 DEF AddsUp
      <4> HIDE DEF x
      <4>4. g[s \ {x}] = h[s \ {x}]
        <5>1. Cardinality(s \ {x}) # m
          BY <1>3, <2>5, <4>1
        <5> QED BY <2>4, <4>1, <5>1
      <4> QED BY <3>2, <4>2, <4>3, <4>4 DEF x
    <3> QED BY <3>1, <3>2
  <2>6. AddsUp(g, f, S, m)
    BY <2>5 DEF AddsUp
  <2> QED BY <1>3, <2>6 DEF Found
<1> QED BY <1>6, <1>7

LEMMA SumsAreNat ==
  ASSUME NEW S, IsFiniteSet(S), NEW f, \A x \in S : f[x] \in Nat,
         NEW g, AddsUp(g, f, S, Cardinality(S))
  PROVE  g[S] \in Nat
<1> DEFINE Wrong == {m \in Nat : \E s \in SUBSET S : Cardinality(s) = m /\ g[s] \notin Nat}
<1>0. \A s \in SUBSET S : Cardinality(s) \in Nat /\ Cardinality(s) <= Cardinality(S)
  <2>1. \A s \in SUBSET S : IsFiniteSet(s) /\ Cardinality(s) <= Cardinality(S)
    BY FS_Subset
  <2> QED BY <2>1, FS_CardinalityType
<1>1. SUFFICES ASSUME Wrong # {} PROVE FALSE
  <2>1. Cardinality(S) \in Nat /\ S \in SUBSET S
    BY <1>0
  <2> QED BY <2>1
<1>2. PICK m \in Wrong : \A k \in Wrong : m <= k
  <2>1. Wrong \in SUBSET Nat
    OBVIOUS
  <2> HIDE DEF Wrong
  <2> QED BY <1>1, <2>1, Least
<1>3. PICK s \in SUBSET S : Cardinality(s) = m /\ g[s] \notin Nat
  BY <1>2
<1>4. g[s] = IF s = {} THEN 0
             ELSE LET x == CHOOSE x \in s : TRUE IN f[x] + g[s \ {x}]
  BY <1>0, <1>3 DEF AddsUp
<1>5. s # {}
  BY <1>3, <1>4
<1> DEFINE x == CHOOSE x \in s : TRUE
<1>6. /\ x \in s /\ s \ {x} \in SUBSET S /\ m \in Nat /\ m # 0
      /\ Cardinality(s \ {x}) = m - 1
  BY <1>3, <1>5, Smaller
<1>7. g[s] = f[x] + g[s \ {x}]
  BY <1>4, <1>5
<1> HIDE DEF x
<1>8. m - 1 \notin Wrong /\ m - 1 \in Nat
  <2>1. m - 1 \in Nat /\ ~(m <= m - 1)
    BY <1>6
  <2> HIDE DEF Wrong
  <2> QED BY <1>2, <2>1
<1>9. g[s \ {x}] \in Nat
  BY <1>6, <1>8
<1> QED BY <1>3, <1>6, <1>7, <1>9

\* The total of natural numbers is one.
LEMMA OfTotal ==
  ASSUME NEW S, IsFiniteSet(S), NEW f \in [S -> Nat]
  PROVE  Total(f) \in Nat
<1> DEFINE F == CHOOSE g : g = [s \in SUBSET S |->
                     IF s = {} THEN 0
                     ELSE LET x == CHOOSE x \in s : TRUE IN f[x] + g[s \ {x}]]
           Found(g) == g = [s \in SUBSET S |->
                     IF s = {} THEN 0
                     ELSE LET x == CHOOSE x \in s : TRUE IN f[x] + g[s \ {x}]]
<1>1. Total(f) = F[S]
  BY DEF Total, FoldFunction, FoldFunctionOnSet, MapThenFoldSet
<1>2. \A s \in SUBSET S : Cardinality(s) \in Nat /\ Cardinality(s) <= Cardinality(S)
  <2>1. \A s \in SUBSET S : IsFiniteSet(s) /\ Cardinality(s) <= Cardinality(S)
    BY FS_Subset
  <2> QED BY <2>1, FS_CardinalityType
<1>3. PICK h : AddsUp(h, f, S, Cardinality(S))
  BY <1>2, Sums
<1> DEFINE g == [s \in SUBSET S |-> h[s]]
<1>4. \A s \in SUBSET S : g[s] = h[s]
  OBVIOUS
<1>5. g = [s \in SUBSET S |-> g[s]]
  OBVIOUS
<1> HIDE DEF g
<1>6. ASSUME NEW s \in SUBSET S
      PROVE  g[s] = IF s = {} THEN 0
                    ELSE LET x == CHOOSE x \in s : TRUE IN f[x] + g[s \ {x}]
  <2>1. h[s] = IF s = {} THEN 0
               ELSE LET x == CHOOSE x \in s : TRUE IN f[x] + h[s \ {x}]
    BY <1>2, <1>3 DEF AddsUp
  <2> DEFINE x == CHOOSE x \in s : TRUE
  <2>2. g[s \ {x}] = h[s \ {x}] /\ g[s] = h[s]
    BY <1>4
  <2> HIDE DEF x
  <2>3. h[s] = IF s = {} THEN 0 ELSE f[x] + h[s \ {x}]
    BY <2>1 DEF x
  <2>4. g[s] = IF s = {} THEN 0 ELSE f[x] + g[s \ {x}]
    BY <2>2, <2>3
  <2> QED BY <2>4 DEF x
<1>7. Found(g)
  BY <1>5, <1>6
<1>8. Found(F)
  <2> HIDE DEF Found
  <2>1. F = CHOOSE u : Found(u)
    BY DEF Found
  <2> QED BY <1>7, <2>1
<1>9. AddsUp(F, f, S, Cardinality(S))
  <2> HIDE DEF F
  <2> DEFINE G == [s \in SUBSET S |->
                     IF s = {} THEN 0
                     ELSE LET x == CHOOSE x \in s : TRUE IN f[x] + F[s \ {x}]]
  <2>1. F = G
    BY <1>8
  <2>2. \A s \in SUBSET S : G[s] = IF s = {} THEN 0
                     ELSE LET x == CHOOSE x \in s : TRUE IN f[x] + F[s \ {x}]
    OBVIOUS
  <2> HIDE DEF G
  <2>3. \A s \in SUBSET S : F[s] = IF s = {} THEN 0
                     ELSE LET x == CHOOSE x \in s : TRUE IN f[x] + F[s \ {x}]
    BY <2>1, <2>2
  <2> QED BY <2>3 DEF AddsUp
<1> HIDE DEF F, Found
<1>10. F[S] \in Nat
  BY <1>9, SumsAreNat
<1> QED BY <1>1, <1>10

\* Progress looks at goals, milestones and blockers only.
Measured(w) == OfKind(w, "goal") \cup OfKind(w, "milestone") \cup OfKind(w, "blocker")

\* Rows that agree on what counts have the same progress.
LEMMA ProgressFrame ==
  ASSUME NEW v, NEW w, \A c \in Measured(v) \cup Measured(w) :
                         c \in DOMAIN v /\ c \in DOMAIN w /\ v[c] = w[c]
  PROVE  Progress(v) = Progress(w)
<1>1. ASSUME NEW k \in {"goal", "milestone", "blocker"}
      PROVE  /\ OfKind(v, k) = OfKind(w, k)
             /\ \A c \in OfKind(v, k) : v[c] = w[c]
  BY DEF Measured, OfKind
<1>2. ASSUME NEW S, NEW V, \A c \in S : v[c] = w[c]
      PROVE  InStatus(v, S, V) = InStatus(w, S, V)
  BY <1>2 DEF InStatus
<1>3. ASSUME NEW S, \A c \in S : v[c] = w[c]
      PROVE  Weight(v, S) = Weight(w, S)
  <2>1. [c \in S |-> v[c].level] = [c \in S |-> w[c].level]
    BY <1>3
  <2> QED BY <2>1 DEF Weight
<1>4. Penalty(v) = Penalty(w)
  <2>1. Blocking(v) = Blocking(w) /\ \A c \in Blocking(v) : v[c] = w[c]
    <3>1. InStatus(v, OfKind(v, "blocker"), {"open", "mitigating"})
            = InStatus(w, OfKind(w, "blocker"), {"open", "mitigating"})
      BY <1>1, <1>2
    <3> QED BY <1>1, <3>1 DEF Blocking, InStatus
  <2>2. [b \in Blocking(v) |-> SeverityWeight[v[b].level]] = [b \in Blocking(w) |-> SeverityWeight[w[b].level]]
    BY <2>1
  <2> QED BY <2>2 DEF Penalty
<1> DEFINE goals   == OfKind(v, "goal")
           stones  == OfKind(v, "milestone")
           counted == stones \ InStatus(v, stones, {"skipped"})
<1>5. /\ goals = OfKind(w, "goal") /\ InStatus(v, goals, {"cancelled"}) = InStatus(w, goals, {"cancelled"})
      /\ InStatus(v, goals, {"completed"}) = InStatus(w, goals, {"completed"})
  BY <1>1, <1>2
<1>6. /\ stones = OfKind(w, "milestone")
      /\ InStatus(v, stones, {"skipped"}) = InStatus(w, stones, {"skipped"})
  BY <1>1, <1>2
<1>7. \A c \in counted : v[c] = w[c]
  BY <1>1
<1>8. InStatus(v, counted, {"completed"}) = InStatus(w, counted, {"completed"})
      /\ Weight(v, counted) = Weight(w, counted)
  BY <1>2, <1>3, <1>7
<1>9. Weight(v, InStatus(v, counted, {"completed"})) = Weight(w, InStatus(v, counted, {"completed"}))
  <2>1. \A c \in InStatus(v, counted, {"completed"}) : v[c] = w[c]
    BY <1>7 DEF InStatus
  <2> QED BY <1>3, <2>1
<1> QED BY <1>4, <1>5, <1>6, <1>8, <1>9 DEF Progress

\* Nothing adds up to nothing.
LEMMA TotalNone ==
  ASSUME NEW f, DOMAIN f = {}
  PROVE  Total(f) = 0
<1> DEFINE F == CHOOSE g : g = [s \in SUBSET {} |->
                     IF s = {} THEN 0
                     ELSE LET x == CHOOSE x \in s : TRUE IN f[x] + g[s \ {x}]]
           G == [s \in SUBSET {} |-> 0]
<1>1. Total(f) = F[{}]
  BY DEF Total, FoldFunction, FoldFunctionOnSet, MapThenFoldSet
<1>2. \E g : g = [s \in SUBSET {} |->
                     IF s = {} THEN 0
                     ELSE LET x == CHOOSE x \in s : TRUE IN f[x] + g[s \ {x}]]
  <2>1. G = [s \in SUBSET {} |->
                     IF s = {} THEN 0
                     ELSE LET x == CHOOSE x \in s : TRUE IN f[x] + G[s \ {x}]]
    OBVIOUS
  <2> HIDE DEF G
  <2> QED BY <2>1
<1>3. F = [s \in SUBSET {} |->
                     IF s = {} THEN 0
                     ELSE LET x == CHOOSE x \in s : TRUE IN f[x] + F[s \ {x}]]
  BY <1>2, Zenon
<1> HIDE DEF F
<1>4. F[{}] = 0
  BY <1>3
<1> QED BY <1>1, <1>4

\* Nothing that holds no rows has made progress.
LEMMA ProgressNone ==
  ASSUME NEW w, DOMAIN w = {}
  PROVE  Progress(w) = 0
<1>1. \A k : OfKind(w, k) = {}
  BY DEF OfKind
<1>2. \A V : InStatus(w, {}, V) = {}
  BY DEF InStatus
<1>4. Weight(w, {}) = 0
  BY TotalNone DEF Weight
<1>5. Penalty(w) = 0
  BY <1>1, <1>2, TotalNone DEF Penalty, Blocking, Clamp, One
<1> DEFINE goals   == OfKind(w, "goal")
           wanted  == goals \ InStatus(w, goals, {"cancelled"})
           reached == InStatus(w, goals, {"completed"})
           stones  == OfKind(w, "milestone")
           counted == stones \ InStatus(w, stones, {"skipped"})
           total   == Weight(w, counted)
           passed  == Weight(w, InStatus(w, counted, {"completed"}))
           r       == Cardinality(reached)
           n       == IF goals = {} THEN 1 ELSE Cardinality(wanted)
           m       == IF total = 0 THEN 1 ELSE total
           share   == 4 * r * m + 6 * passed * n
<1>6. reached = {} /\ counted = {} /\ InStatus(w, counted, {"completed"}) = {} /\ goals = {}
  BY <1>1, <1>2
<1>7. r = 0 /\ n = 1 /\ m = 1 /\ passed = 0
  BY <1>4, <1>6, FS_EmptySet
<1>8. Progress(w) = IF n = 0 THEN NaN ELSE Clamp(Rounded(share * (One - Penalty(w)), 10 * n * m))
  BY DEF Progress
<1>9. share = 4 * r * m + 6 * passed * n
  OBVIOUS
<1> HIDE DEF n, m, r, passed, share
<1>10. share = 0
  BY <1>7, <1>9
<1>11. Rounded(0 * (One - 0), 10 * 1 * 1) = 0
  BY DEF Rounded, One
<1>12. Clamp(0) = 0
  BY DEF Clamp, One
<1> QED BY <1>5, <1>7, <1>8, <1>10, <1>11, <1>12

LEMMA Products ==
  /\ \A a, b \in Nat : a * b \in Nat
  /\ \A a, b \in Nat \ {0} : a * b \in Nat \ {0}
  /\ \A a, b \in Int : a * b \in Int
OBVIOUS

LEMMA OfClamp ==
  ASSUME NEW x \in Int
  PROVE  Clamp(x) \in 0..One
BY DEF Clamp, One

LEMMA OfRounded ==
  ASSUME NEW a \in Int, NEW b \in Nat \ {0}
  PROVE  Rounded(a, b) \in Int
<1>1. 2 * a + b \in Int /\ 2 * b \in Nat \ {0}
  OBVIOUS
<1> QED BY <1>1 DEF Rounded

LEMMA IdsFinite == Children \in Seq(Ids) => IsFiniteSet(Ids)
<1> SUFFICES ASSUME Children \in Seq(Ids) PROVE IsFiniteSet(Ids)
  OBVIOUS
<1> DEFINE n == Len(Children)
<1>1. n \in Nat /\ DOMAIN Children = 1..n
  OBVIOUS
<1>2. IsFiniteSet(1..n)
  BY <1>1, FS_Interval
<1>3. Children \in Surjection(1..n, Ids)
  BY <1>1 DEF Surjection, Ids, Range
<1> QED BY <1>2, <1>3, FS_Surjection

\* What progress is computed from: the goals and the weights it divides by are not
\* zero, the penalty is a share.
LEMMA MeasuresTyped ==
  ASSUME JourneyConstants, NEW w, RowsOf(w)
  PROVE  LET goals   == OfKind(w, "goal")
             wanted  == goals \ InStatus(w, goals, {"cancelled"})
             stones  == OfKind(w, "milestone")
             counted == stones \ InStatus(w, stones, {"skipped"})
             total   == Weight(w, counted)
             n       == IF goals = {} THEN 1 ELSE Cardinality(wanted)
             m       == IF total = 0 THEN 1 ELSE total
         IN  /\ n \in Nat \ {0} /\ m \in Nat \ {0} /\ Penalty(w) \in 0..One
             /\ Cardinality(InStatus(w, goals, {"completed"})) \in Nat
             /\ Weight(w, InStatus(w, counted, {"completed"})) \in Nat
<1>1. \A S \in SUBSET DOMAIN w : IsFiniteSet(S)
  <2>1. IsFiniteSet(Ids)
    BY IdsFinite DEF JourneyConstants
  <2> QED BY <2>1, FS_Subset DEF RowsOf
<1>2. \A c \in DOMAIN w : w[c].level \in Nat
  BY DEF RowsOf, RowOf, Rows
<1>3. ASSUME NEW S \in SUBSET DOMAIN w PROVE Weight(w, S) \in Nat
  <2>1. [c \in S |-> w[c].level] \in [S -> Nat]
    BY <1>2
  <2> QED BY <1>1, <2>1, OfTotal DEF Weight
<1>4. Penalty(w) \in 0..One
  <2>1. Blocking(w) \in SUBSET DOMAIN w
    BY DEF Blocking, InStatus, OfKind
  <2>2. \A b \in Blocking(w) : w[b].level \in DOMAIN SeverityWeight
    BY DEF Blocking, InStatus, OfKind, RowsOf, RowOf
  <2>3. \A l \in DOMAIN SeverityWeight : SeverityWeight[l] \in Nat
    BY DEF SeverityWeight
  <2>4. [b \in Blocking(w) |-> SeverityWeight[w[b].level]] \in [Blocking(w) -> Nat]
    BY <2>2, <2>3
  <2>5. Total([b \in Blocking(w) |-> SeverityWeight[w[b].level]]) \in Nat
    BY <1>1, <2>1, <2>4, OfTotal
  <2> QED BY <2>5, OfClamp DEF Penalty
<1> DEFINE goals   == OfKind(w, "goal")
           wanted  == goals \ InStatus(w, goals, {"cancelled"})
           reached == InStatus(w, goals, {"completed"})
           stones  == OfKind(w, "milestone")
           counted == stones \ InStatus(w, stones, {"skipped"})
           total   == Weight(w, counted)
           passed  == Weight(w, InStatus(w, counted, {"completed"}))
           n       == IF goals = {} THEN 1 ELSE Cardinality(wanted)
           m       == IF total = 0 THEN 1 ELSE total
           share   == 4 * Cardinality(reached) * m + 6 * passed * n
<1>5. wanted = goals
  BY DEF InStatus, OfKind, RowsOf, RowOf
<1>6. n \in Nat \ {0}
  <2>1. IsFiniteSet(goals)
    BY <1>1 DEF OfKind
  <2>2. Cardinality(goals) \in Nat /\ (goals # {} => Cardinality(goals) # 0)
    BY <2>1, FS_CardinalityType, FS_EmptySet
  <2> QED BY <1>5, <2>2
<1>7. total \in Nat /\ passed \in Nat
  <2>1. counted \in SUBSET DOMAIN w /\ InStatus(w, counted, {"completed"}) \in SUBSET DOMAIN w
    BY DEF InStatus, OfKind
  <2> QED BY <1>3, <2>1
<1>8. m \in Nat \ {0}
  BY <1>7
<1>9. Cardinality(reached) \in Nat
  <2>1. reached \in SUBSET DOMAIN w
    BY DEF InStatus, OfKind
  <2> QED BY <1>1, <2>1, FS_CardinalityType
<1> QED BY <1>4, <1>6, <1>7, <1>8, <1>9

\* The progress of saved rows is one, never the not-a-number of cancelled goals.
LEMMA OfProgress ==
  ASSUME JourneyConstants, NEW w, RowsOf(w)
  PROVE  Progress(w) \in 0..One
<1> DEFINE goals   == OfKind(w, "goal")
           wanted  == goals \ InStatus(w, goals, {"cancelled"})
           reached == InStatus(w, goals, {"completed"})
           stones  == OfKind(w, "milestone")
           counted == stones \ InStatus(w, stones, {"skipped"})
           total   == Weight(w, counted)
           passed  == Weight(w, InStatus(w, counted, {"completed"}))
           n       == IF goals = {} THEN 1 ELSE Cardinality(wanted)
           m       == IF total = 0 THEN 1 ELSE total
           share   == 4 * Cardinality(reached) * m + 6 * passed * n
<1>1. /\ n \in Nat \ {0} /\ m \in Nat \ {0} /\ Penalty(w) \in 0..One
      /\ Cardinality(reached) \in Nat /\ passed \in Nat
  BY MeasuresTyped
<1> DEFINE r == Cardinality(reached)
           p == passed
<1>2. Progress(w) = IF n = 0 THEN NaN ELSE Clamp(Rounded(share * (One - Penalty(w)), 10 * n * m))
  BY DEF Progress
<1>3. share = 4 * r * m + 6 * p * n
  OBVIOUS
<1> HIDE DEF n, m, r, p, share
<1>4. share \in Nat
  <2>1. r \in Nat /\ p \in Nat /\ n \in Nat /\ m \in Nat
    BY <1>1 DEF r, p
  <2>2. 4 * r \in Nat /\ 6 * p \in Nat
    BY <2>1
  <2>3. 4 * r * m \in Nat /\ 6 * p * n \in Nat
    BY <2>1, <2>2, Products
  <2> QED BY <1>3, <2>3
<1>5. share * (One - Penalty(w)) \in Int
  <2>1. One - Penalty(w) \in Int
    <3>1. One \in Int /\ \A x \in 0..One : One - x \in Int
      BY DEF One
    <3> QED BY <1>1, <3>1
  <2> QED BY <1>4, <2>1, Products
<1>6. 10 * n * m \in Nat \ {0}
  <2>1. 10 * n \in Nat \ {0}
    BY <1>1
  <2> QED BY <1>1, <2>1, Products
<1>7. Rounded(share * (One - Penalty(w)), 10 * n * m) \in Int
  BY <1>5, <1>6, OfRounded
<1> QED BY <1>1, <1>2, <1>7, OfClamp

\* Rows of which none is completed make no progress.
LEMMA ProgressNotYet ==
  ASSUME JourneyConstants, NEW w, RowsOf(w), \A c \in DOMAIN w : w[c].status # "completed"
  PROVE  Progress(w) = 0
<1> DEFINE goals   == OfKind(w, "goal")
           wanted  == goals \ InStatus(w, goals, {"cancelled"})
           reached == InStatus(w, goals, {"completed"})
           stones  == OfKind(w, "milestone")
           counted == stones \ InStatus(w, stones, {"skipped"})
           total   == Weight(w, counted)
           passed  == Weight(w, InStatus(w, counted, {"completed"}))
           r       == Cardinality(reached)
           n       == IF goals = {} THEN 1 ELSE Cardinality(wanted)
           m       == IF total = 0 THEN 1 ELSE total
           share   == 4 * r * m + 6 * passed * n
<1>1. reached = {} /\ InStatus(w, counted, {"completed"}) = {}
  BY DEF InStatus, OfKind
<1>2. r = 0 /\ passed = 0
  BY <1>1, TotalNone, FS_EmptySet DEF Weight
<1>3. n \in Nat \ {0} /\ m \in Nat \ {0} /\ Penalty(w) \in 0..One
  BY MeasuresTyped
<1>4. Progress(w) = IF n = 0 THEN NaN ELSE Clamp(Rounded(share * (One - Penalty(w)), 10 * n * m))
  BY DEF Progress
<1>5. share = 4 * r * m + 6 * passed * n
  OBVIOUS
<1> HIDE DEF n, m, r, passed, share
<1>6. share = 0
  <2>1. 4 * 0 * m + 6 * 0 * n = 0
    BY <1>3
  <2> QED BY <1>2, <1>5, <2>1
<1>7. share * (One - Penalty(w)) = 0
  <2>1. \A x \in 0..One : 0 * (One - x) = 0
    BY DEF One
  <2> QED BY <1>3, <1>6, <2>1
<1>8. 10 * n * m \in Nat \ {0}
  <2>1. 10 * n \in Nat \ {0}
    BY <1>3
  <2> QED BY <1>3, <2>1, Products
<1>9. \A b \in Nat \ {0} : Rounded(0, b) = 0
  BY DEF Rounded
<1>10. Clamp(0) = 0
  BY DEF Clamp, One
<1> QED BY <1>3, <1>4, <1>7, <1>8, <1>9, <1>10

-----------------------------------------------------------------------------
(* Rows and their ids                                                       *)

LEMMA OfPosition ==
  ASSUME Children \in Seq(Ids), NEW c \in Ids
  PROVE  Position(c) \in Nat
<1>1. Len(Children) \in Nat /\ DOMAIN Children = 1..Len(Children)
  OBVIOUS
<1>2. \E i \in DOMAIN Children : Children[i] = c
  BY DEF Ids, Range
<1> QED BY <1>1, <1>2 DEF Position

LEMMA OfFirst ==
  ASSUME Children \in Seq(Ids), NEW S \in SUBSET Ids, S # {}
  PROVE  First(S) \in S /\ \A d \in S : Position(First(S)) <= Position(d)
<1> DEFINE P == {Position(c) : c \in S}
<1>1. P \in SUBSET Nat /\ P # {}
  BY OfPosition
<1> HIDE DEF P
<1>2. PICK m \in P : \A y \in P : m <= y
  BY <1>1, Least
<1>3. \E c \in S : \A d \in S : Position(c) <= Position(d)
  BY <1>2 DEF P
<1> QED BY <1>3 DEF First

LEMMA OfUnused ==
  ASSUME NEW k
  PROVE  /\ Unused(k) \in SUBSET Ids
         /\ \A c \in Unused(k) : c \notin DOMAIN rows /\ KindOf[c] = k
BY DEF Unused, Ids

LEMMA OfKinds ==
  ASSUME NEW w, RowsOf(w), NEW k
  PROVE  OfKind(w, k) = {c \in DOMAIN w : KindOf[c] = k}
BY DEF RowsOf, RowOf, OfKind

\* A row saved at its id leaves the other rows alone.
LEMMA OfSaved ==
  ASSUME NEW w, RowsOf(w), NEW id \in Ids, NEW row, RowOf(id, row)
  PROVE  /\ RowsOf(With(w, id, row))
         /\ DOMAIN With(w, id, row) = DOMAIN w \cup {id}
         /\ With(w, id, row)[id] = row
         /\ \A c \in DOMAIN w : c # id => With(w, id, row)[c] = w[c]
         /\ \A k : OfKind(w, k) \subseteq OfKind(With(w, id, row), k)
         /\ \A k : k # KindOf[id] => OfKind(With(w, id, row), k) = OfKind(w, k)
         /\ OfKind(With(w, id, row), KindOf[id]) = OfKind(w, KindOf[id]) \cup {id}
<1> DEFINE v == With(w, id, row)
<1>1. /\ DOMAIN v = DOMAIN w \cup {id} /\ v[id] = row
      /\ \A c \in DOMAIN w : c # id => v[c] = w[c]
  BY DEF With
<1> HIDE DEF v
<1>2. RowsOf(v)
  BY <1>1 DEF RowsOf
<1>3. \A k : /\ OfKind(w, k) = {c \in DOMAIN w : KindOf[c] = k}
             /\ OfKind(v, k) = {c \in DOMAIN v : KindOf[c] = k}
  BY <1>2, OfKinds
<1>4. /\ \A k : OfKind(w, k) \subseteq OfKind(v, k)
      /\ \A k : k # KindOf[id] => OfKind(v, k) = OfKind(w, k)
      /\ OfKind(v, KindOf[id]) = OfKind(w, KindOf[id]) \cup {id}
  BY <1>1, <1>3
<1> QED BY <1>1, <1>2, <1>4 DEF v

\* Rows of no goal, milestone or blocker do not count.
LEMMA SameProgress ==
  ASSUME NEW w, RowsOf(w), NEW id \in Ids, NEW row, RowOf(id, row),
         KindOf[id] \notin {"goal", "milestone", "blocker"}
  PROVE  Progress(With(w, id, row)) = Progress(w)
<1> DEFINE v == With(w, id, row)
<1>1. /\ \A c \in DOMAIN w : c # id => v[c] = w[c]
      /\ DOMAIN v = DOMAIN w \cup {id}
      /\ \A k : k # KindOf[id] => OfKind(v, k) = OfKind(w, k)
  BY OfSaved
<1> HIDE DEF v
<1>2. \A k : OfKind(w, k) = {c \in DOMAIN w : KindOf[c] = k}
  BY OfKinds
<1>3. Measured(v) = Measured(w)
  BY <1>1 DEF Measured
<1>4. \A c \in Measured(w) : c \in DOMAIN w /\ c # id
  BY <1>2 DEF Measured
<1>5. \A c \in Measured(v) \cup Measured(w) : c \in DOMAIN v /\ c \in DOMAIN w /\ v[c] = w[c]
  BY <1>1, <1>3, <1>4
<1>6. Progress(v) = Progress(w)
  BY <1>5, ProgressFrame
<1> QED BY <1>6 DEF v

\* A row that is no decision, and no evidence that was saved, explains as much.
LEMMA SameExplained ==
  ASSUME NEW w, RowsOf(w), NEW id \in Ids, NEW row, RowOf(id, row),
         KindOf[id] # "decision", NEW j, Explained(j, w)
  PROVE  Explained(j, With(w, id, row))
<1> DEFINE v == With(w, id, row)
<1>1. /\ \A c \in DOMAIN w : c # id => v[c] = w[c]
      /\ DOMAIN v = DOMAIN w \cup {id}
      /\ \A k : k # KindOf[id] => OfKind(v, k) = OfKind(w, k)
  BY OfSaved
<1>2. \A d \in OfKind(w, "decision") : d \in DOMAIN w /\ d # id
  BY OfKinds
<1> HIDE DEF v
<1>3. OfKind(w, "evidence") \subseteq OfKind(v, "evidence")
  <2>1. RowsOf(v)
    BY OfSaved DEF v
  <2> QED BY <1>1, <2>1, OfKinds
<1>4. Explained(j, v)
  BY <1>1, <1>2, <1>3 DEF Explained
<1> QED BY <1>4 DEF v

LEMMA StillInOrder ==
  ASSUME Children \in Seq(Ids), NEW w, RowsOf(w), InOrder(w), NEW id \in Ids, NEW row, RowOf(id, row),
         KindOf[id] = "decision"
           => \A d \in Ids \ DOMAIN w : KindOf[d] = "decision" => Position(id) <= Position(d)
  PROVE  InOrder(With(w, id, row))
<1> DEFINE v == With(w, id, row)
<1>1. /\ DOMAIN v = DOMAIN w \cup {id}
      /\ \A k : k # KindOf[id] => OfKind(v, k) = OfKind(w, k)
      /\ OfKind(v, KindOf[id]) = OfKind(w, KindOf[id]) \cup {id}
  BY OfSaved
<1> HIDE DEF v
<1>2. ASSUME NEW c \in OfKind(v, "decision"), NEW d \in Ids \ DOMAIN v, KindOf[d] = "decision"
      PROVE  Position(c) <= Position(d)
  <2>1. d \in Ids \ DOMAIN w
    BY <1>1
  <2>2. CASE c \in OfKind(w, "decision")
    BY <1>2, <2>1, <2>2 DEF InOrder
  <2>3. CASE c \notin OfKind(w, "decision")
    BY <1>1, <1>2, <2>1, <2>3
  <2> QED BY <2>2, <2>3
<1>3. InOrder(v)
  BY <1>2 DEF InOrder
<1> QED BY <1>3 DEF v

-----------------------------------------------------------------------------
(* The steps of a request                                                   *)

\* Request r is through with its call h.
Moved(r, h) ==
  /\ r \in InFlight /\ code[r] # <<>> /\ Head(code[r]) = h
  /\ DOMAIN code' = Request /\ code'[r] \in Codes
  /\ \A q \in Request \ {r} : code'[q] = code[q]
  /\ Owed(r) \in Debts[h] /\ Owed(r)' = Owed(r) \ {h} /\ "create" \notin Owed(r)'
  /\ IF code'[r] = <<>> THEN h = "insert" /\ Owed(r)' = {}
     ELSE r \in InFlight' /\ Head(code'[r]) \in Successors[h]

\* A call takes a request from one of its codes to the next.
LEMMA Move ==
  ASSUME TypeInv, NEW r \in Request, NEW h, code[r] # <<>>, Head(code[r]) = h,
         code' = [code EXCEPT ![r] = Tail(@)]
  PROVE  Moved(r, h)
<1>1. DOMAIN code = Request /\ code[r] \in Codes
  BY DEF TypeInv, Slots
<1>2. CodeFacts(code[r])
  BY <1>1, CodeStep
<1>3. /\ DOMAIN code' = Request /\ code'[r] = Tail(code[r])
      /\ \A q \in Request \ {r} : code'[q] = code[q]
  BY <1>1
<1>4. /\ h \in Calls /\ Tail(code[r]) \in Codes
      /\ Owes(Tail(code[r])) = Owes(code[r]) \ {h} /\ Owes(code[r]) \in Debts[h]
      /\ IF Tail(code[r]) = <<>> THEN h = "insert" ELSE Head(Tail(code[r])) \in Successors[h]
  BY <1>2 DEF CodeFacts
<1>5. Owed(r) = Owes(code[r]) /\ Owed(r)' = Owes(code'[r])
  BY DEF Owed, Owes, Notify
<1>6. "create" \notin Owes(code[r]) \ {h}
  <2>1. \A g \in Calls : g # "create" => \A D \in Debts[g] : "create" \notin D
    BY DEF Calls, Debts, Context
  <2> QED BY <1>4, <2>1
<1>7. code'[r] = <<>> => Owed(r)' = {}
  BY <1>5, NoneOwed
<1> QED BY <1>1, <1>3, <1>4, <1>5, <1>6, <1>7 DEF InFlight, Moved

\* A step of r leaves what other requests hold alone, and marks nothing right
\* but what r, if it is on its own, has put right.
Kept(r) ==
  \A q \in Request \ {r} : /\ code'[q] = code[q] /\ copy'[q] = copy[q]
                           /\ arg'[q] = arg[q] /\ inserts'[q] = inserts[q]
Parted(r) ==
  /\ together' = together
  /\ alone' \subseteq alone \cup {r} /\ (r \in alone' => r \in alone \/ InFlight = {r})
  /\ \A x \in Marks : x \notin excused' => Clear(r, x)

\* Types are kept when r keeps its own: the other requests did not move.
LEMMA TypeStep ==
  ASSUME TypeInv, NEW r \in Request, Kept(r),
         DOMAIN code' = Request, DOMAIN copy' = Request,
         DOMAIN arg' = Request, DOMAIN inserts' = Request,
         DOMAIN arg'[r] = {"id", "row", "phase"}, code'[r] \in Codes,
         ArgOf(r)', CopyOf(r)', InsertsOf(r)',
         OfKind(rows, "evidence") \subseteq OfKind(rows', "evidence"),
         TablesTyped', Begun', HistoryTyped'
  PROVE  TypeInv'
<1>1. ASSUME NEW q \in Request \ {r}
      PROVE  /\ ArgOf(q)' /\ CopyOf(q)' /\ InsertsOf(q)'
             /\ DOMAIN arg'[q] = {"id", "row", "phase"} /\ code'[q] \in Codes
  <2>1. code'[q] = code[q] /\ copy'[q] = copy[q] /\ arg'[q] = arg[q] /\ inserts'[q] = inserts[q]
    BY DEF Kept
  <2>2. ArgOf(q) /\ CopyOf(q) /\ InsertsOf(q) /\ DOMAIN arg[q] = {"id", "row", "phase"} /\ code[q] \in Codes
    BY DEF TypeInv, Slots
  <2>3. Owed(q)' = Owed(q)
    BY <2>1 DEF Owed, Owes, Notify
  <2>4. ArgOf(q)'
    BY <2>1, <2>2, <2>3 DEF ArgOf, RowOf, Rows, Statuses
  <2>5. CopyOf(q)'
    BY <2>1, <2>2, <2>3 DEF CopyOf, RowsOf, RowOf, Rows, Journeys, Statuses
  <2>6. InsertsOf(q)'
    BY <2>1, <2>2 DEF InsertsOf, At, IsInsert, Names
  <2> QED BY <2>1, <2>2, <2>4, <2>5, <2>6
<1>2. Slots'
  BY <1>1 DEF Slots
<1>3. \A q \in Request : ArgOf(q)' /\ CopyOf(q)' /\ InsertsOf(q)'
  BY <1>1
<1> QED BY <1>2, <1>3 DEF TypeInv

\* A request that met another is sure of nothing, and neither is the other.
LEMMA InCompany ==
  ASSUME Single, NEW r \in InFlight, Parted(r), NEW q \in InFlight, q # r
  PROVE  /\ \A x \in Marks : ~Clear(q, x)' /\ ~Clear(r, x)'
         /\ q \in together' /\ r \in together' /\ excused \cap Marks = Marks /\ excused' \cap Marks = Marks
<1>1. q \notin alone /\ r \notin alone /\ q \in together /\ r \in together /\ InFlight # {r}
  BY DEF Single
<1>2. q \notin alone' /\ r \notin alone' /\ q \in together' /\ r \in together'
  BY <1>1 DEF Parted
<1>3. excused = Marks
  BY DEF Single
<1>4. \A x \in Marks : x \in excused'
  BY <1>1, <1>3 DEF Parted, Clear
<1> QED BY <1>2, <1>3, <1>4 DEF Clear

\* A step of r that keeps what r may rely on keeps the invariant.
LEMMA JourneyStep ==
  ASSUME JourneyInv, NEW r \in InFlight, Kept(r), Parted(r), TypeInv',
         r \in InFlight' => Fresh(r)' /\ Updates(r)' /\ Resolves(r)' /\ "create" \notin Owed(r)',
         InFlight = {r} => ProgressInv' /\ PhaseInv' /\ GraphInv'
  PROVE  JourneyInv'
<1>0. Single /\ Uncreated
  BY DEF JourneyInv
<1>1. InFlight' \subseteq InFlight
  BY DEF InFlight, Kept
<1>2. CASE InFlight = {r}
  <2>1. InFlight' \subseteq {r}
    BY <1>1, <1>2
  <2>2. Single'
    BY <2>1 DEF Single
  <2>3. Uncreated'
    BY <2>1 DEF Uncreated
  <2>4. \A q \in InFlight' : Fresh(q)' /\ Updates(q)' /\ Resolves(q)'
    BY <2>1
  <2> QED BY <1>2, <2>2, <2>3, <2>4 DEF JourneyInv
<1>3. CASE InFlight # {r}
  <2>1. PICK p \in InFlight : p # r
    BY <1>3
  <2>2. Marks \subseteq excused'
    BY <1>0, <2>1, InCompany
  <2>3. \A q \in InFlight' : q \notin alone' /\ q \in together'
    <3>1. ASSUME NEW q \in InFlight PROVE q \notin alone' /\ q \in together'
      <4>1. "graph" \in Marks
        BY DEF Marks
      <4>2. CASE q = r BY <1>0, <2>1, <4>1, <4>2, InCompany DEF Clear
      <4>3. CASE q # r BY <1>0, <4>1, <4>3, InCompany DEF Clear
      <4> QED BY <4>2, <4>3
    <3> QED BY <1>1, <3>1
  <2>4. excused' = Marks
    BY <2>2 DEF TypeInv, HistoryTyped, Marks
  <2>5. \A q \in InFlight', x \in Marks : ~Clear(q, x)'
    BY <2>2, <2>3 DEF Clear
  <2>6. Single' /\ Uncreated'
    BY <2>3, <2>4 DEF Single, Uncreated, Marks
  <2>7. {"graph", "progress", "phase"} = Marks
    BY DEF Marks
  <2>8. ProgressInv' /\ PhaseInv' /\ GraphInv'
    BY <2>4, <2>7 DEF ProgressInv, PhaseInv, GraphInv
  <2>9. ASSUME NEW q \in InFlight' PROVE Fresh(q)' /\ Updates(q)' /\ Resolves(q)'
    <3>1. "progress" \in excused' /\ ~Clear(q, "progress")' /\ ~Clear(q, "phase")' /\ ~Clear(q, "graph")'
      BY <2>4, <2>5, <2>7
    <3>2. q \in together'
      BY <2>3
    <3>3. Fresh(q)'
      BY <3>1 DEF Fresh
    <3>4. Updates(q)'
      BY <3>1 DEF Updates
    <3>5. Resolves(q)'
      BY <3>2 DEF Resolves
    <3> QED BY <3>3, <3>4, <3>5
  <2> QED BY <2>6, <2>8, <2>9 DEF JourneyInv
<1> QED BY <1>2, <1>3

\* While its graph has still to be told, r need not be mirrored.
LEMMA GraphPending ==
  ASSUME NEW r \in InFlight', Head(code'[r]) \notin {"create", "copy", "evidence", "context", "save"}
  PROVE  GraphInv'
BY DEF GraphInv, At

LEMMA ArgKept ==
  ASSUME NEW r \in Request, ArgOf(r), arg'[r] = arg[r], NEW h, Owed(r)' = Owed(r) \ {h},
         h # "evidence", h = "refresh" => "save" \notin Owed(r),
         OfKind(rows, "evidence") \subseteq OfKind(rows', "evidence")
  PROVE  ArgOf(r)'
BY DEF ArgOf, RowOf, Rows, Statuses

LEMMA CopyKept ==
  ASSUME NEW r \in Request, CopyOf(r), copy'[r] = copy[r], NEW h, Owed(r)' = Owed(r) \ {h},
         h \notin {"copy", "read"}
  PROVE  CopyOf(r)'
BY DEF CopyOf, RowsOf, RowOf, Rows, Journeys, Statuses

LEMMA BegunKept ==
  ASSUME Begun, NEW r \in InFlight, Kept(r), journey' # NoJourney
  PROVE  Begun'
BY DEF Begun

LEMMA CreateStep ==
  ASSUME JourneyConstants, JourneyInv, NEW r \in Request, Create(r)
  PROVE  JourneyInv'
<1>0. /\ TypeInv /\ Uncreated /\ ArgOf(r) /\ CopyOf(r) /\ TablesTyped /\ Begun /\ HistoryTyped
      /\ DOMAIN code = Request /\ DOMAIN copy = Request
      /\ DOMAIN arg = Request /\ DOMAIN inserts = Request /\ DOMAIN arg[r] = {"id", "row", "phase"}
  BY DEF JourneyInv, TypeInv, Slots
<1>1. /\ code[r] # <<>> /\ Head(code[r]) = "create" /\ code' = [code EXCEPT ![r] = Tail(@)]
      /\ journey' = [phase |-> arg[r].phase, status |-> "active", progress |-> 0]
      /\ rows' = rows /\ nodes' = nodes /\ edges' = edges /\ copy' = copy /\ arg' = arg
      /\ inserts' = inserts /\ ops' = ops /\ faults' = faults
      /\ together' = together /\ alone' = alone /\ excused' = excused
  BY DEF Create, Makes, SaveJourney, bounds, history
<1>2. Moved(r, "create") /\ r \in InFlight
  BY <1>0, <1>1, Move DEF Moved
<1>3. /\ "create" \in Owed(r) /\ ("context" \in Owed(r) => "copy" \in Owed(r))
      /\ r \in InFlight' /\ Head(code'[r]) = "collect"
  BY <1>2 DEF Moved, Debts, Successors, Context
<1>4. journey' \in Journeys /\ journey' # NoJourney
  <2>1. arg[r].phase \in Phases
    BY <1>0, <1>3 DEF ArgOf
  <2> QED BY <1>1, <2>1 DEF Journeys, JourneyConstants, One
<1>5. Kept(r) /\ Parted(r)
  BY <1>1, <1>2 DEF Kept, Parted, Clear, Moved
<1>6. TypeInv'
  <2>1. ArgOf(r)'
    BY <1>0, <1>1, <1>2, ArgKept DEF Moved
  <2>2. CopyOf(r)'
    BY <1>0, <1>1, <1>2, CopyKept DEF Moved
  <2>3. InsertsOf(r)'
    BY <1>3 DEF InsertsOf, At
  <2>4. TablesTyped'
    BY <1>0, <1>1, <1>4 DEF TablesTyped, RowsOf, RowOf, Rows, Statuses, InOrder, OfKind, Names, Journeys, Position
  <2>5. Begun'
    BY <1>0, <1>2, <1>4, <1>5, BegunKept
  <2>6. HistoryTyped'
    BY <1>0, <1>1 DEF HistoryTyped, Marks
  <2> QED BY <1>0, <1>1, <1>2, <1>5, <2>1, <2>2, <2>3, <2>4, <2>5, <2>6, TypeStep DEF Moved
<1>7. Fresh(r)' /\ Updates(r)' /\ Resolves(r)'
  <2>1. ~At(r, {"refresh"})' /\ ~At(r, {"decision"})' /\ ~At(r, {"dropEdges", "dropNodes"})'
        /\ ~At(r, {"dropNodes"})' /\ ~At(r, {"insert"})' /\ ~At(r, {"save"})'
    BY <1>3 DEF At
  <2>2. "context" \in Owed(r)' => "copy" \in Owed(r)'
    BY <1>2, <1>3 DEF Moved
  <2> QED BY <2>1, <2>2 DEF Fresh, Updates, Resolves
<1>8. ASSUME InFlight = {r} PROVE ProgressInv' /\ PhaseInv' /\ GraphInv'
  <2>1. ProgressInv'
    <3>1. ASSUME "progress" \notin excused' PROVE journey'.progress = Progress(rows')
      <4>1. journey = NoJourney
        BY <1>0, <1>1, <1>2, <1>3, <3>1 DEF Uncreated, Marks
      <4>2. DOMAIN rows = {}
        BY <1>0, <4>1 DEF Begun
      <4> QED BY <1>1, <4>2, ProgressNone
    <3> QED BY <3>1 DEF ProgressInv
  <2>2. PhaseInv'
    <3>1. ASSUME "phase" \notin excused' PROVE Explained(journey', rows')
      <4>1. journey = NoJourney
        BY <1>0, <1>1, <1>2, <1>3, <3>1 DEF Uncreated, Marks
      <4>2. DOMAIN rows' = {}
        BY <1>0, <1>1, <4>1 DEF Begun
      <4> QED BY <4>2 DEF Explained, OfKind
    <3> QED BY <3>1 DEF PhaseInv
  <2>3. GraphInv'
    BY <1>3, GraphPending
  <2> QED BY <2>1, <2>2, <2>3
<1> QED BY <1>2, <1>5, <1>6, <1>7, <1>8, JourneyStep DEF Moved

\* What the tables hold stays typed when nothing is written.
LEMMA TablesKept ==
  ASSUME TablesTyped, UNCHANGED tables
  PROVE  TablesTyped' /\ OfKind(rows, "evidence") \subseteq OfKind(rows', "evidence")
BY DEF TablesTyped, tables, RowsOf, RowOf, Rows, Statuses, InOrder, OfKind, Names, Journeys, Position

\* What was right stays right: these calls write no row.
LEMMA RightKept ==
  ASSUME JourneyInv, NEW r \in Request, InFlight = {r}, journey' = journey, rows' = rows,
         \A x \in {"progress", "phase"} : x \notin excused' => x \notin excused,
         Head(code[r]) # "decision",
         "refresh" \in Owed(r)
           => r \in InFlight' /\ "refresh" \in Owed(r)' /\ "save" \notin Owed(r)'
  PROVE  ProgressInv' /\ PhaseInv'
<1>1. ProgressInv'
  <2>1. SUFFICES ASSUME journey # NoJourney, "progress" \notin excused,
                        \A q \in InFlight' : "refresh" \in Owed(q)' => "save" \in Owed(q)'
                 PROVE  journey.progress = Progress(rows)
    BY DEF ProgressInv
  <2>2. "refresh" \notin Owed(r)
    BY <2>1
  <2> QED BY <2>1, <2>2 DEF JourneyInv, ProgressInv
<1>2. PhaseInv'
  <2>1. SUFFICES ASSUME journey # NoJourney, "phase" \notin excused PROVE Explained(journey, rows)
    BY DEF PhaseInv
  <2>2. ~At(r, {"decision"})
    BY DEF At
  <2> QED BY <2>1, <2>2 DEF JourneyInv, PhaseInv
<1> QED BY <1>1, <1>2

LEMMA ReadStep ==
  ASSUME JourneyConstants, JourneyInv, NEW r \in Request, Read(r)
  PROVE  JourneyInv'
<1>0. /\ TypeInv /\ Single /\ ArgOf(r) /\ TablesTyped /\ Begun /\ HistoryTyped
      /\ DOMAIN code = Request /\ DOMAIN copy = Request
      /\ DOMAIN arg = Request /\ DOMAIN inserts = Request /\ DOMAIN arg[r] = {"id", "row", "phase"}
  BY DEF JourneyInv, TypeInv, Slots
<1>1. PICK h \in {"copy", "read"} : Makes(r, h)
  BY DEF Read
<1>2. /\ code[r] # <<>> /\ Head(code[r]) = h /\ code' = [code EXCEPT ![r] = Tail(@)]
      /\ copy' = [copy EXCEPT ![r] = [journey |-> journey, rows |-> rows]]
      /\ UNCHANGED tables /\ journey' = journey /\ rows' = rows /\ nodes' = nodes /\ edges' = edges
      /\ arg' = arg /\ inserts' = inserts /\ ops' = ops /\ faults' = faults
      /\ together' = together /\ excused' = excused
      /\ alone' = IF InFlight = {r} THEN alone \cup {r} ELSE alone \ {r}
  BY <1>1 DEF Read, Makes, bounds, tables
<1>3. Moved(r, h) /\ r \in InFlight
  BY <1>0, <1>2, Move DEF Moved
<1>4. /\ r \in InFlight' /\ "create" \notin Owed(r)
      /\ h = "copy" => Head(code'[r]) = "evidence" /\ "refresh" \notin Owed(r)
      /\ h = "read" => Head(code'[r]) = "refresh" /\ "context" \notin Owed(r)
  BY <1>1, <1>3 DEF Moved, Debts, Successors, Context
<1>5. journey \in Journeys /\ journey # NoJourney
  BY <1>0, <1>3, <1>4 DEF Begun, TablesTyped
<1>6. copy'[r].journey = journey /\ copy'[r].rows = rows
  BY <1>0, <1>2
<1>7. Kept(r) /\ Parted(r)
  BY <1>0, <1>2, <1>3 DEF Kept, Parted, Clear, Moved
<1>8. TypeInv'
  <2>1. TablesTyped' /\ OfKind(rows, "evidence") \subseteq OfKind(rows', "evidence")
    BY <1>0, <1>2, TablesKept
  <2>2. ArgOf(r)'
    BY <1>0, <1>1, <1>2, <1>3, <2>1, ArgKept DEF Moved
  <2>3. CopyOf(r)'
    BY <1>0, <1>5, <1>6 DEF CopyOf, TablesTyped, RowsOf, RowOf, Rows, Journeys, Statuses
  <2>4. InsertsOf(r)'
    BY <1>1, <1>4 DEF InsertsOf, At
  <2>5. Begun'
    BY <1>0, <1>2, <1>3, <1>5, <1>7, BegunKept
  <2>6. HistoryTyped'
    BY <1>0, <1>2 DEF HistoryTyped, Marks
  <2>7. DOMAIN copy' = Request
    BY <1>0, <1>2
  <2> QED BY <1>0, <1>2, <1>3, <1>7, <2>1, <2>2, <2>3, <2>4, <2>5, <2>6, <2>7, TypeStep DEF Moved
<1>9. Fresh(r)' /\ Updates(r)' /\ Resolves(r)'
  <2>1. ~At(r, {"decision"})' /\ ~At(r, {"dropEdges", "dropNodes"})'
        /\ ~At(r, {"dropNodes"})' /\ ~At(r, {"insert"})' /\ ~At(r, {"save"})'
    BY <1>1, <1>4 DEF At
  <2> QED BY <1>2, <1>6, <2>1 DEF Fresh, Updates, Resolves
<1>10. ASSUME InFlight = {r} PROVE ProgressInv' /\ PhaseInv' /\ GraphInv'
  <2>1. ProgressInv' /\ PhaseInv'
    <3>1. "refresh" \in Owed(r) => "refresh" \in Owed(r)' /\ "save" \notin Owed(r)'
      BY <1>1, <1>3 DEF Moved, Debts, Context
    <3> QED BY <1>1, <1>2, <1>4, <1>10, <3>1, RightKept
  <2>2. GraphInv'
    <3>1. CASE h = "copy"
      <4>1. At(r, {"create", "copy", "evidence", "context", "save"})
        BY <1>2, <3>1 DEF At
      <4>2. journey # NoJourney /\ "graph" \notin excused => Mirrored
        BY <1>10, <4>1 DEF JourneyInv, GraphInv
      <4>3. Mirrored' <=> Mirrored
        BY <1>2 DEF Mirrored, MirrorNodes, MirrorEdges, With, NodeOf, NodeActive, PhaseNode, Parent, OfKind
      <4> QED BY <1>2, <4>2, <4>3 DEF GraphInv
    <3>2. CASE h = "read"
      BY <1>4, <3>2, GraphPending
    <3> QED BY <1>1, <3>1, <3>2
  <2> QED BY <2>1, <2>2
<1> QED BY <1>3, <1>7, <1>8, <1>9, <1>10, JourneyStep DEF Moved

LEMMA TablesSaved ==
  ASSUME TablesTyped, journey' = journey, nodes' = nodes, edges' = edges,
         RowsOf(rows'), InOrder(rows')
  PROVE  TablesTyped'
BY DEF TablesTyped, Names, Journeys

LEMMA SaveRowStep ==
  ASSUME JourneyConstants, JourneyInv, NEW r \in Request, SaveRow(r)
  PROVE  JourneyInv'
<1>0. /\ TypeInv /\ ArgOf(r) /\ CopyOf(r) /\ TablesTyped /\ Begun /\ HistoryTyped
      /\ DOMAIN code = Request /\ DOMAIN copy = Request
      /\ DOMAIN arg = Request /\ DOMAIN inserts = Request /\ DOMAIN arg[r] = {"id", "row", "phase"}
  BY DEF JourneyInv, TypeInv, Slots
<1> DEFINE id  == arg[r].id
           row == arg[r].row
<1>1. /\ code[r] # <<>> /\ Head(code[r]) = "save" /\ code' = [code EXCEPT ![r] = Tail(@)]
      /\ rows' = With(rows, id, row)
      /\ journey' = journey /\ nodes' = nodes /\ edges' = edges
      /\ copy' = copy /\ arg' = arg /\ inserts' = inserts /\ ops' = ops /\ faults' = faults
      /\ together' = together /\ excused' = excused /\ alone' = alone
  BY DEF SaveRow, Makes, bounds, history
<1>2. Moved(r, "save") /\ r \in InFlight
  BY <1>0, <1>1, Move DEF Moved
<1>3. /\ r \in InFlight' /\ Head(code'[r]) \in {"read", "collect"}
      /\ "save" \in Owed(r) /\ "context" \notin Owed(r) /\ "create" \notin Owed(r)
  BY <1>2 DEF Moved, Debts, Successors, Context
<1>4. journey # NoJourney
  BY <1>0, <1>2, <1>3 DEF Begun
<1>5. /\ id \in Ids /\ RowOf(id, row) /\ KindOf[id] # "decision" /\ KindOf[id] # "evidence"
      /\ "refresh" \notin Owed(r) => KindOf[id] = "action"
  BY <1>0, <1>3 DEF ArgOf, RowOf
<1> HIDE DEF id, row
<1>6. Kept(r) /\ Parted(r)
  BY <1>0, <1>1, <1>2 DEF Kept, Parted, Clear, Moved
<1>7. RowsOf(rows) /\ InOrder(rows) /\ Children \in Seq(Ids)
  BY <1>0 DEF TablesTyped, JourneyConstants
<1>8. /\ RowsOf(rows') /\ \A k : k # KindOf[id] => OfKind(rows', k) = OfKind(rows, k)
  <2>1. RowsOf(With(rows, id, row))
    BY <1>5, <1>7, OfSaved
  <2>2. \A k : k # KindOf[id] => OfKind(With(rows, id, row), k) = OfKind(rows, k)
    BY <1>5, <1>7, OfSaved
  <2> QED BY <1>1, <2>1, <2>2
<1>9. TypeInv'
  <2>1. TablesTyped'
    <3>1. InOrder(rows')
      BY <1>1, <1>5, <1>7, StillInOrder
    <3> QED BY <1>0, <1>1, <1>8, <3>1, TablesSaved
  <2>2. OfKind(rows, "evidence") \subseteq OfKind(rows', "evidence")
    BY <1>5, <1>8
  <2>3. ArgOf(r)'
    BY <1>0, <1>1, <1>2, <2>2, ArgKept DEF Moved
  <2>4. CopyOf(r)'
    BY <1>0, <1>1, <1>2, CopyKept DEF Moved
  <2>5. InsertsOf(r)'
    BY <1>3 DEF InsertsOf, At
  <2>6. Begun'
    BY <1>0, <1>1, <1>2, <1>4, <1>6, BegunKept
  <2>7. HistoryTyped'
    BY <1>0, <1>1 DEF HistoryTyped, Marks
  <2> QED BY <1>0, <1>1, <1>2, <1>6, <2>1, <2>2, <2>3, <2>4, <2>5, <2>6, <2>7, TypeStep DEF Moved
<1>10. Fresh(r)' /\ Updates(r)' /\ Resolves(r)'
  <2>1. ~At(r, {"decision"})' /\ ~At(r, {"refresh"})' /\ ~At(r, {"dropEdges", "dropNodes"})'
        /\ ~At(r, {"dropNodes"})' /\ ~At(r, {"insert"})' /\ ~At(r, {"save"})'
    BY <1>3 DEF At
  <2>2. "context" \notin Owed(r)'
    BY <1>2, <1>3 DEF Moved
  <2> QED BY <2>1, <2>2 DEF Fresh, Updates, Resolves
<1>11. ASSUME InFlight = {r} PROVE ProgressInv' /\ PhaseInv' /\ GraphInv'
  <2>1. ProgressInv'
    <3>1. SUFFICES ASSUME "progress" \notin excused, "refresh" \in Owed(r)' => "save" \in Owed(r)'
                   PROVE  journey.progress = Progress(rows')
      BY <1>1, <1>3 DEF ProgressInv
    <3>2. "refresh" \notin Owed(r)
      BY <1>2, <3>1 DEF Moved
    <3>3. journey.progress = Progress(rows)
      BY <1>4, <1>11, <3>1, <3>2 DEF JourneyInv, ProgressInv
    <3>4. KindOf[id] \notin {"goal", "milestone", "blocker"}
      BY <1>5, <3>2
    <3>5. Progress(rows') = Progress(rows)
      BY <1>1, <1>5, <1>7, <3>4, SameProgress
    <3> QED BY <3>3, <3>5
  <2>2. PhaseInv'
    <3>1. SUFFICES ASSUME "phase" \notin excused PROVE Explained(journey, rows')
      BY <1>1 DEF PhaseInv, Explained, OfKind, Position
    <3>2. ~At(r, {"decision"})
      BY <1>1 DEF At
    <3>3. Explained(journey, rows)
      BY <1>4, <1>11, <3>1, <3>2 DEF JourneyInv, PhaseInv
    <3> QED BY <1>1, <1>5, <1>7, <3>3, SameExplained
  <2>3. GraphInv'
    BY <1>3, GraphPending
  <2> QED BY <2>1, <2>2, <2>3
<1> QED BY <1>2, <1>6, <1>9, <1>10, <1>11, JourneyStep DEF Moved

LEMMA AddEvidenceStep ==
  ASSUME JourneyConstants, JourneyInv, NEW r \in Request, AddEvidence(r)
  PROVE  JourneyInv'
<1>0. /\ TypeInv /\ ArgOf(r) /\ CopyOf(r) /\ TablesTyped /\ Begun /\ HistoryTyped
      /\ DOMAIN code = Request /\ DOMAIN copy = Request
      /\ DOMAIN arg = Request /\ DOMAIN inserts = Request /\ DOMAIN arg[r] = {"id", "row", "phase"}
  BY DEF JourneyInv, TypeInv, Slots
<1> DEFINE id  == First(Unused("evidence"))
           row == Row("evidence", arg[r].phase, 0, NoLink)
<1>1. /\ code[r] # <<>> /\ Head(code[r]) = "evidence" /\ code' = [code EXCEPT ![r] = Tail(@)]
      /\ Unused("evidence") # {} /\ rows' = With(rows, id, row) /\ arg' = [arg EXCEPT ![r].id = id]
      /\ journey' = journey /\ nodes' = nodes /\ edges' = edges
      /\ copy' = copy /\ inserts' = inserts /\ ops' = ops /\ faults' = faults
      /\ together' = together /\ excused' = excused /\ alone' = alone
  BY DEF AddEvidence, Makes, bounds, history
<1>2. Moved(r, "evidence") /\ r \in InFlight
  BY <1>0, <1>1, Move DEF Moved
<1>3. /\ r \in InFlight' /\ Head(code'[r]) = "collect"
      /\ Owed(r) = {"evidence", "context", "decision"} /\ Owed(r)' = {"context", "decision"}
  BY <1>2 DEF Moved, Debts, Successors, Context
<1>4. journey # NoJourney
  BY <1>0, <1>2, <1>3 DEF Begun
<1>5. arg[r].phase \in Phases
  BY <1>0, <1>3 DEF ArgOf
<1>6. RowsOf(rows) /\ InOrder(rows) /\ Children \in Seq(Ids)
  BY <1>0 DEF TablesTyped, JourneyConstants
<1>7. id \in Ids /\ id \notin DOMAIN rows /\ KindOf[id] = "evidence"
  <2>1. Unused("evidence") \in SUBSET Ids
    BY OfUnused
  <2>2. id \in Unused("evidence")
    BY <1>1, <1>6, <2>1, OfFirst
  <2> QED BY <2>1, <2>2, OfUnused
<1>8. RowOf(id, row)
  BY <1>5, <1>7 DEF RowOf, Row, Rows, Statuses
<1>9. /\ DOMAIN arg' = Request /\ DOMAIN arg'[r] = {"id", "row", "phase"}
      /\ arg'[r].id = id /\ arg'[r].phase = arg[r].phase
      /\ \A q \in Request \ {r} : arg'[q] = arg[q]
  BY <1>0, <1>1
<1> HIDE DEF id, row
<1>10. Kept(r) /\ Parted(r)
  BY <1>0, <1>1, <1>2, <1>9 DEF Kept, Parted, Clear, Moved
<1>11. /\ RowsOf(rows') /\ \A k : k # KindOf[id] => OfKind(rows', k) = OfKind(rows, k)
       /\ OfKind(rows', KindOf[id]) = OfKind(rows, KindOf[id]) \cup {id}
  <2>1. RowsOf(With(rows, id, row))
    BY <1>6, <1>7, <1>8, OfSaved
  <2>2. \A k : k # KindOf[id] => OfKind(With(rows, id, row), k) = OfKind(rows, k)
    BY <1>6, <1>7, <1>8, OfSaved
  <2>3. OfKind(With(rows, id, row), KindOf[id]) = OfKind(rows, KindOf[id]) \cup {id}
    BY <1>6, <1>7, <1>8, OfSaved
  <2> QED BY <1>1, <2>1, <2>2, <2>3
<1>12. TypeInv'
  <2>1. TablesTyped'
    <3>1. InOrder(rows')
      BY <1>1, <1>6, <1>7, <1>8, StillInOrder
    <3> QED BY <1>0, <1>1, <1>11, <3>1, TablesSaved
  <2>2. OfKind(rows, "evidence") \subseteq OfKind(rows', "evidence") /\ id \in OfKind(rows', "evidence")
    BY <1>7, <1>11
  <2>3. ArgOf(r)'
    BY <1>3, <1>5, <1>7, <1>9, <2>2 DEF ArgOf
  <2>4. CopyOf(r)'
    BY <1>0, <1>1, <1>2, CopyKept DEF Moved
  <2>5. InsertsOf(r)'
    BY <1>3 DEF InsertsOf, At
  <2>6. Begun'
    BY <1>0, <1>1, <1>2, <1>4, <1>10, BegunKept
  <2>7. HistoryTyped'
    BY <1>0, <1>1 DEF HistoryTyped, Marks
  <2> QED BY <1>0, <1>1, <1>2, <1>9, <1>10, <2>1, <2>2, <2>3, <2>4, <2>5, <2>6, <2>7, TypeStep DEF Moved
<1>13. Fresh(r)' /\ Updates(r)' /\ Resolves(r)'
  <2>1. ~At(r, {"decision"})' /\ ~At(r, {"refresh"})' /\ ~At(r, {"dropEdges", "dropNodes"})'
        /\ ~At(r, {"dropNodes"})' /\ ~At(r, {"insert"})' /\ ~At(r, {"save"})'
    BY <1>3 DEF At
  <2>2. "progress" \notin excused => copy[r].journey = journey
    BY <1>2, <1>3 DEF JourneyInv, Fresh
  <2> QED BY <1>1, <2>1, <2>2 DEF Fresh, Updates, Resolves
<1>14. ASSUME InFlight = {r} PROVE ProgressInv' /\ PhaseInv' /\ GraphInv'
  <2>1. ProgressInv'
    <3>1. SUFFICES ASSUME "progress" \notin excused PROVE journey.progress = Progress(rows')
      BY <1>1 DEF ProgressInv
    <3>2. journey.progress = Progress(rows)
      BY <1>3, <1>4, <1>14, <3>1 DEF JourneyInv, ProgressInv
    <3>3. Progress(rows') = Progress(rows)
      BY <1>1, <1>6, <1>7, <1>8, SameProgress
    <3> QED BY <3>2, <3>3
  <2>2. PhaseInv'
    <3>1. SUFFICES ASSUME "phase" \notin excused PROVE Explained(journey, rows')
      BY <1>1 DEF PhaseInv, Explained, OfKind, Position
    <3>2. ~At(r, {"decision"})
      BY <1>1 DEF At
    <3>3. Explained(journey, rows)
      BY <1>4, <1>14, <3>1, <3>2 DEF JourneyInv, PhaseInv
    <3>4. KindOf[id] # "decision"
      BY <1>7
    <3> QED BY <1>1, <1>6, <1>7, <1>8, <3>3, <3>4, SameExplained
  <2>3. GraphInv'
    BY <1>3, GraphPending
  <2> QED BY <2>1, <2>2, <2>3
<1> QED BY <1>2, <1>10, <1>12, <1>13, <1>14, JourneyStep DEF Moved

LEMMA TablesMoved ==
  ASSUME TablesTyped, journey' \in Journeys, nodes' = nodes, edges' = edges, rows' = rows
  PROVE  TablesTyped' /\ OfKind(rows, "evidence") \subseteq OfKind(rows', "evidence")
BY DEF TablesTyped, Names, Journeys, RowsOf, RowOf, Rows, Statuses, InOrder, OfKind, Position

LEMMA SaveContextStep ==
  ASSUME JourneyConstants, JourneyInv, NEW r \in Request, SaveContext(r)
  PROVE  JourneyInv'
<1>0. /\ TypeInv /\ ArgOf(r) /\ CopyOf(r) /\ TablesTyped /\ Begun /\ HistoryTyped
      /\ DOMAIN code = Request /\ DOMAIN copy = Request
      /\ DOMAIN arg = Request /\ DOMAIN inserts = Request /\ DOMAIN arg[r] = {"id", "row", "phase"}
  BY DEF JourneyInv, TypeInv, Slots
<1>1. /\ code[r] # <<>> /\ Head(code[r]) = "context" /\ code' = [code EXCEPT ![r] = Tail(@)]
      /\ journey' = [copy[r].journey EXCEPT !.phase = arg[r].phase]
      /\ rows' = rows /\ nodes' = nodes /\ edges' = edges
      /\ copy' = [copy EXCEPT ![r] = NoCopy] /\ arg' = arg /\ inserts' = inserts
      /\ ops' = ops /\ faults' = faults
      /\ together' = together /\ excused' = excused /\ alone' = alone
  BY DEF SaveContext, SaveJourney, Makes, bounds, history
<1>2. Moved(r, "context") /\ r \in InFlight
  BY <1>0, <1>1, Move DEF Moved
<1>3. /\ r \in InFlight' /\ Head(code'[r]) = "decision"
      /\ Owed(r) = {"context", "decision"} /\ Owed(r)' = {"decision"}
  BY <1>2 DEF Moved, Debts, Successors, Context
<1>4. journey # NoJourney
  BY <1>0, <1>2, <1>3 DEF Begun
<1>5. arg[r].phase \in Phases /\ copy[r].journey \in Journeys
  BY <1>0, <1>3 DEF ArgOf, CopyOf
<1>6. /\ journey' \in Journeys /\ journey' # NoJourney
      /\ journey'.phase = arg[r].phase /\ journey'.progress = copy[r].journey.progress
  BY <1>1, <1>5 DEF Journeys, JourneyConstants
<1>7. Kept(r) /\ Parted(r)
  BY <1>0, <1>1, <1>2 DEF Kept, Parted, Clear, Moved
<1>8. TypeInv'
  <2>1. TablesTyped' /\ OfKind(rows, "evidence") \subseteq OfKind(rows', "evidence")
    BY <1>0, <1>1, <1>6, TablesMoved
  <2>2. ArgOf(r)'
    BY <1>0, <1>1, <1>2, <2>1, ArgKept DEF Moved
  <2>3. CopyOf(r)'
    BY <1>3 DEF CopyOf
  <2>4. InsertsOf(r)'
    BY <1>3 DEF InsertsOf, At
  <2>5. Begun'
    BY <1>0, <1>2, <1>6, <1>7, BegunKept
  <2>6. HistoryTyped'
    BY <1>0, <1>1 DEF HistoryTyped, Marks
  <2>7. DOMAIN copy' = Request
    BY <1>0, <1>1
  <2> QED BY <1>0, <1>1, <1>2, <1>7, <2>1, <2>2, <2>3, <2>4, <2>5, <2>6, <2>7, TypeStep DEF Moved
<1>9. Fresh(r)' /\ Updates(r)' /\ Resolves(r)'
  <2>1. ~At(r, {"refresh"})' /\ ~At(r, {"dropEdges", "dropNodes"})'
        /\ ~At(r, {"dropNodes"})' /\ ~At(r, {"insert"})' /\ ~At(r, {"save"})'
    BY <1>3 DEF At
  <2> QED BY <1>1, <1>3, <1>6, <2>1 DEF Fresh, Updates, Resolves
<1>10. ASSUME InFlight = {r} PROVE ProgressInv' /\ PhaseInv' /\ GraphInv'
  <2>1. ProgressInv'
    <3>1. SUFFICES ASSUME "progress" \notin excused PROVE journey'.progress = Progress(rows)
      BY <1>1 DEF ProgressInv
    <3>2. journey.progress = Progress(rows)
      BY <1>3, <1>4, <1>10, <3>1 DEF JourneyInv, ProgressInv
    <3>3. copy[r].journey = journey
      BY <1>2, <1>3, <3>1 DEF JourneyInv, Fresh
    <3> QED BY <1>6, <3>2, <3>3
  <2>2. PhaseInv'
    <3>1. At(r, {"decision"})'
      BY <1>3 DEF At, InFlight
    <3> QED BY <1>3, <3>1 DEF PhaseInv
  <2>3. GraphInv'
    BY <1>3, GraphPending
  <2> QED BY <2>1, <2>2, <2>3
<1> QED BY <1>2, <1>7, <1>8, <1>9, <1>10, JourneyStep DEF Moved

LEMMA RecordDecisionStep ==
  ASSUME JourneyConstants, JourneyInv, NEW r \in Request, RecordDecision(r)
  PROVE  JourneyInv'
<1>0. /\ TypeInv /\ ArgOf(r) /\ CopyOf(r) /\ TablesTyped /\ Begun /\ HistoryTyped
      /\ DOMAIN code = Request /\ DOMAIN copy = Request
      /\ DOMAIN arg = Request /\ DOMAIN inserts = Request /\ DOMAIN arg[r] = {"id", "row", "phase"}
  BY DEF JourneyInv, TypeInv, Slots
<1> DEFINE id  == First(Unused("decision"))
           row == Row("decision", arg[r].phase, 0, arg[r].id)
<1>1. /\ code[r] # <<>> /\ Head(code[r]) = "decision" /\ code' = [code EXCEPT ![r] = Tail(@)]
      /\ Unused("decision") # {} /\ rows' = With(rows, id, row)
      /\ journey' = journey /\ nodes' = nodes /\ edges' = edges
      /\ copy' = copy /\ arg' = arg /\ inserts' = inserts /\ ops' = ops /\ faults' = faults
      /\ together' = together /\ alone' = alone
      /\ excused' = IF r \in alone THEN excused \ {"phase"} ELSE excused
  BY DEF RecordDecision, Makes, bounds
<1>2. Moved(r, "decision") /\ r \in InFlight
  BY <1>0, <1>1, Move DEF Moved
<1>3. /\ r \in InFlight' /\ Head(code'[r]) = "collect"
      /\ Owed(r) = {"decision"} /\ Owed(r)' = {}
  BY <1>2 DEF Moved, Debts, Successors, Context
<1>4. journey # NoJourney
  BY <1>0, <1>2, <1>3 DEF Begun
<1>5. arg[r].phase \in Phases /\ arg[r].id \in OfKind(rows, "evidence") /\ arg[r].id \in Ids \cup {NoLink}
  BY <1>0, <1>3 DEF ArgOf
<1>6. RowsOf(rows) /\ InOrder(rows) /\ Children \in Seq(Ids)
  BY <1>0 DEF TablesTyped, JourneyConstants
<1>7. id \in Ids /\ id \notin DOMAIN rows /\ KindOf[id] = "decision"
      /\ \A d \in Unused("decision") : Position(id) <= Position(d)
  <2>1. Unused("decision") \in SUBSET Ids
    BY OfUnused
  <2>2. id \in Unused("decision") /\ \A d \in Unused("decision") : Position(id) <= Position(d)
    BY <1>1, <1>6, <2>1, OfFirst
  <2> QED BY <2>1, <2>2, OfUnused
<1>8. RowOf(id, row) /\ row.status = arg[r].phase /\ row.link = arg[r].id
  BY <1>5, <1>7 DEF RowOf, Row, Rows, Statuses, Ids
<1> HIDE DEF id, row
\* Nobody has promised an id to a decision.
<1>9. \A d \in Ids \ DOMAIN rows : KindOf[d] = "decision" => Position(id) <= Position(d)
  <2>1. \A q \in Request : arg[q].id \in Ids => KindOf[arg[q].id] # "decision"
    BY DEF JourneyInv, TypeInv, ArgOf
  <2> QED BY <1>7, <2>1 DEF Unused, Ids
<1>10. Kept(r) /\ Parted(r)
  BY <1>0, <1>1, <1>2 DEF Kept, Parted, Clear, Moved
<1>11. /\ RowsOf(rows') /\ \A k : k # KindOf[id] => OfKind(rows', k) = OfKind(rows, k)
       /\ OfKind(rows', KindOf[id]) = OfKind(rows, KindOf[id]) \cup {id} /\ rows'[id] = row
  <2>1. RowsOf(With(rows, id, row))
    BY <1>6, <1>7, <1>8, OfSaved
  <2>2. \A k : k # KindOf[id] => OfKind(With(rows, id, row), k) = OfKind(rows, k)
    BY <1>6, <1>7, <1>8, OfSaved
  <2>3. OfKind(With(rows, id, row), KindOf[id]) = OfKind(rows, KindOf[id]) \cup {id}
    BY <1>6, <1>7, <1>8, OfSaved
  <2>4. With(rows, id, row)[id] = row
    BY DEF With
  <2> QED BY <1>1, <2>1, <2>2, <2>3, <2>4
<1>12. TypeInv'
  <2>1. TablesTyped'
    <3>1. InOrder(rows')
      BY <1>1, <1>6, <1>7, <1>8, <1>9, StillInOrder
    <3> QED BY <1>0, <1>1, <1>11, <3>1, TablesSaved
  <2>2. OfKind(rows, "evidence") \subseteq OfKind(rows', "evidence")
    BY <1>7, <1>11
  <2>3. ArgOf(r)'
    BY <1>0, <1>1, <1>2, <2>2, ArgKept DEF Moved
  <2>4. CopyOf(r)'
    BY <1>0, <1>1, <1>2, CopyKept DEF Moved
  <2>5. InsertsOf(r)'
    BY <1>3 DEF InsertsOf, At
  <2>6. Begun'
    BY <1>0, <1>1, <1>2, <1>4, <1>10, BegunKept
  <2>7. HistoryTyped'
    BY <1>0, <1>1 DEF HistoryTyped, Marks
  <2> QED BY <1>0, <1>1, <1>2, <1>10, <2>1, <2>2, <2>3, <2>4, <2>5, <2>6, <2>7, TypeStep DEF Moved
<1>13. Fresh(r)' /\ Updates(r)' /\ Resolves(r)'
  <2>1. ~At(r, {"decision"})' /\ ~At(r, {"refresh"})' /\ ~At(r, {"dropEdges", "dropNodes"})'
        /\ ~At(r, {"dropNodes"})' /\ ~At(r, {"insert"})' /\ ~At(r, {"save"})'
    BY <1>3 DEF At
  <2> QED BY <1>3, <2>1 DEF Fresh, Updates, Resolves
<1>14. ASSUME InFlight = {r} PROVE ProgressInv' /\ PhaseInv' /\ GraphInv'
  <2>1. ProgressInv'
    <3>1. SUFFICES ASSUME "progress" \notin excused PROVE journey.progress = Progress(rows')
      BY <1>1 DEF ProgressInv
    <3>2. journey.progress = Progress(rows)
      BY <1>3, <1>4, <1>14, <3>1 DEF JourneyInv, ProgressInv
    <3>3. KindOf[id] \notin {"goal", "milestone", "blocker"}
      BY <1>7
    <3>4. Progress(With(rows, id, row)) = Progress(rows)
      BY <1>6, <1>7, <1>8, <3>3, SameProgress
    <3> QED BY <1>1, <3>2, <3>4
  <2>2. PhaseInv'
    <3>1. SUFFICES ASSUME "phase" \notin excused' PROVE Explained(journey, rows')
      BY <1>1 DEF PhaseInv, Explained, OfKind, Position
    <3>2. At(r, {"decision"}) /\ Clear(r, "phase")
      BY <1>1, <3>1 DEF At, Clear
    <3>3. journey.phase = arg[r].phase
      BY <1>2, <3>2 DEF JourneyInv, Fresh
    <3>4. OfKind(rows', "decision") = OfKind(rows, "decision") \cup {id}
          /\ OfKind(rows', "evidence") = OfKind(rows, "evidence")
      BY <1>7, <1>11
    <3>5. \A c \in OfKind(rows, "decision") : Position(c) <= Position(id)
      BY <1>6, <1>7 DEF InOrder
    <3>6. Position(id) <= Position(id)
      BY <1>6, <1>7, OfPosition
    <3> QED BY <1>5, <1>8, <1>11, <3>3, <3>4, <3>5, <3>6 DEF Explained
  <2>3. GraphInv'
    BY <1>3, GraphPending
  <2> QED BY <2>1, <2>2, <2>3
<1> QED BY <1>2, <1>10, <1>12, <1>13, <1>14, JourneyStep DEF Moved

LEMMA SaveProgressStep ==
  ASSUME JourneyConstants, JourneyInv, NEW r \in Request, SaveProgress(r)
  PROVE  JourneyInv'
<1>0. /\ TypeInv /\ ArgOf(r) /\ CopyOf(r) /\ TablesTyped /\ Begun /\ HistoryTyped
      /\ DOMAIN code = Request /\ DOMAIN copy = Request
      /\ DOMAIN arg = Request /\ DOMAIN inserts = Request /\ DOMAIN arg[r] = {"id", "row", "phase"}
  BY DEF JourneyInv, TypeInv, Slots
<1> DEFINE p == Progress(copy[r].rows)
<1>1. /\ code[r] # <<>> /\ Head(code[r]) = "refresh" /\ code' = [code EXCEPT ![r] = Tail(@)]
      /\ journey' = [copy[r].journey EXCEPT
                       !.progress = p, !.status = IF p >= One THEN "completed" ELSE @]
      /\ rows' = rows /\ nodes' = nodes /\ edges' = edges
      /\ copy' = [copy EXCEPT ![r] = NoCopy] /\ arg' = arg /\ inserts' = inserts
      /\ ops' = ops /\ faults' = faults /\ together' = together /\ alone' = alone
      /\ excused' = IF r \in alone THEN excused \ {"progress"} ELSE excused
  BY DEF SaveProgress, SaveJourney, Makes, bounds
<1>2. Moved(r, "refresh") /\ r \in InFlight
  BY <1>0, <1>1, Move DEF Moved
<1>3. /\ r \in InFlight' /\ Head(code'[r]) = "collect"
      /\ Owed(r) = {"refresh"} /\ Owed(r)' = {}
  BY <1>2 DEF Moved, Debts, Successors, Context
<1>4. journey # NoJourney
  BY <1>0, <1>2, <1>3 DEF Begun
<1>5. copy[r].journey \in Journeys /\ p \in 0..One
  BY <1>0, <1>3, OfProgress DEF CopyOf
<1> HIDE DEF p
<1>6. /\ journey' \in Journeys /\ journey' # NoJourney
      /\ journey'.phase = copy[r].journey.phase /\ journey'.progress = p
  BY <1>1, <1>5 DEF Journeys, JourneyConstants
<1>7. Kept(r) /\ Parted(r)
  BY <1>0, <1>1, <1>2 DEF Kept, Parted, Clear, Moved
<1>8. TypeInv'
  <2>1. TablesTyped' /\ OfKind(rows, "evidence") \subseteq OfKind(rows', "evidence")
    BY <1>0, <1>1, <1>6, TablesMoved
  <2>2. ArgOf(r)'
    BY <1>0, <1>1, <1>2, <1>3, <2>1, ArgKept DEF Moved
  <2>3. CopyOf(r)'
    BY <1>3 DEF CopyOf
  <2>4. InsertsOf(r)'
    BY <1>3 DEF InsertsOf, At
  <2>5. Begun'
    BY <1>0, <1>2, <1>6, <1>7, BegunKept
  <2>6. HistoryTyped'
    BY <1>0, <1>1 DEF HistoryTyped, Marks
  <2>7. DOMAIN copy' = Request
    BY <1>0, <1>1
  <2> QED BY <1>0, <1>1, <1>2, <1>7, <2>1, <2>2, <2>3, <2>4, <2>5, <2>6, <2>7, TypeStep DEF Moved
<1>9. Fresh(r)' /\ Updates(r)' /\ Resolves(r)'
  <2>1. ~At(r, {"refresh"})' /\ ~At(r, {"decision"})' /\ ~At(r, {"dropEdges", "dropNodes"})'
        /\ ~At(r, {"dropNodes"})' /\ ~At(r, {"insert"})' /\ ~At(r, {"save"})'
    BY <1>3 DEF At
  <2> QED BY <1>3, <2>1 DEF Fresh, Updates, Resolves
<1>10. ASSUME InFlight = {r} PROVE ProgressInv' /\ PhaseInv' /\ GraphInv'
  <2>0. At(r, {"refresh"}) /\ Fresh(r)
    BY <1>1, <1>2 DEF At, JourneyInv
  <2>1. ProgressInv'
    <3>1. SUFFICES ASSUME "progress" \notin excused' PROVE p = Progress(rows)
      BY <1>1, <1>6 DEF ProgressInv
    <3>2. Clear(r, "progress")
      BY <1>1, <3>1 DEF Clear
    <3>3. copy[r].rows = rows
      BY <2>0, <3>2 DEF Fresh
    <3> QED BY <3>3 DEF p
  <2>2. PhaseInv'
    <3>1. SUFFICES ASSUME "phase" \notin excused PROVE Explained(journey', rows)
      BY <1>1 DEF PhaseInv, Explained, OfKind, Position
    <3>2. ~At(r, {"decision"}) /\ Clear(r, "phase")
      BY <1>1, <3>1 DEF At, Clear
    <3>3. Explained(journey, rows)
      BY <1>4, <1>10, <3>1, <3>2 DEF JourneyInv, PhaseInv
    <3>4. journey'.phase = journey.phase
      BY <1>6, <2>0, <3>2 DEF Fresh
    <3> QED BY <3>3, <3>4 DEF Explained
  <2>3. GraphInv'
    BY <1>3, GraphPending
  <2> QED BY <2>1, <2>2, <2>3
<1> QED BY <1>2, <1>7, <1>8, <1>9, <1>10, JourneyStep DEF Moved

-----------------------------------------------------------------------------
(* The update of the graph                                                  *)

LEMMA OfOwn ==
  ASSUME NEW S, NEW s \in Seq(S)
  PROVE  s \in Seq(Range(s))
<1>1. Len(s) \in Nat /\ s = [i \in 1..Len(s) |-> s[i]] /\ \A i \in 1..Len(s) : s[i] \in Range(s)
  BY DEF Range
<1> QED BY <1>1, SeqDef

\* The next insert puts a part of the mirror in its place.
LEMMA InsertPlaces ==
  ASSUME JourneyConstants, NEW j \in Journeys, NEW w, RowsOf(w),
         NEW s, s # <<>>, s \in Seq(Range(s)), NEW n, NEW e, Placed(s, n, e, j, w),
         NEW m, NEW f,
         IF IsNode(Head(s)) THEN m = UpsertNode(n, Head(s)) /\ f = e
         ELSE f = e \cup {Head(s).edge} /\ m = n
  PROVE  Placed(Tail(s), m, f, j, w)
<1> DEFINE x == Head(s)
           M == MirrorNodes(j, w)
           B == Range(Build(j, w))
<1>1. x \in Range(s) /\ Range(s) = {x} \cup Range(Tail(s))
  BY OfTail
<1>2. \A y \in B : /\ IsNode(y) => y.node \in DOMAIN M /\ y.value = M[y.node]
                   /\ ~IsNode(y) => y.edge \in MirrorEdges(j, w)
  BY BuildsMirror
<1>3. /\ Range(s) \subseteq B /\ DOMAIN n \subseteq DOMAIN M /\ e \subseteq MirrorEdges(j, w)
      /\ \A c \in DOMAIN n : n[c] = M[c]
      /\ \A y \in B : y \in Range(s) \/ (IF IsNode(y) THEN y.node \in DOMAIN n ELSE y.edge \in e)
  BY DEF Placed
<1> HIDE DEF x, M, B
<1>4. Range(Tail(s)) \subseteq B /\ x \in B
  BY <1>1, <1>3
<1>5. CASE IsNode(x)
  <2>1. f = e /\ m = With(n, x.node, x.value)
    BY <1>5 DEF x, UpsertNode
  <2>2. /\ DOMAIN m = DOMAIN n \cup {x.node} /\ m[x.node] = x.value
        /\ \A c \in DOMAIN n : c # x.node => m[c] = n[c]
    BY <2>1 DEF With
  <2>3. DOMAIN m \subseteq DOMAIN M /\ \A c \in DOMAIN m : m[c] = M[c]
    BY <1>2, <1>3, <1>4, <1>5, <2>2
  <2>4. \A y \in B : y \in Range(Tail(s)) \/ (IF IsNode(y) THEN y.node \in DOMAIN m ELSE y.edge \in f)
    BY <1>1, <1>3, <1>5, <2>1, <2>2
  <2> QED BY <1>3, <1>4, <2>1, <2>3, <2>4 DEF Placed, B, M
<1>6. CASE ~IsNode(x)
  <2>1. m = n /\ f = e \cup {x.edge}
    BY <1>6 DEF x
  <2>2. \A y \in B : y \in Range(Tail(s)) \/ (IF IsNode(y) THEN y.node \in DOMAIN m ELSE y.edge \in f)
    BY <1>1, <1>3, <1>6, <2>1
  <2>3. f \subseteq MirrorEdges(j, w)
    BY <1>2, <1>3, <1>4, <1>6, <2>1
  <2> QED BY <1>3, <1>4, <2>1, <2>2, <2>3 DEF Placed, B, M
<1> QED BY <1>5, <1>6

\* When there is none left to make, the mirror is complete.
LEMMA AllPlaced ==
  ASSUME JourneyConstants, NEW j \in Journeys, NEW w, RowsOf(w),
         NEW n, NEW e, Placed(<<>>, n, e, j, w), n = [c \in DOMAIN n |-> n[c]]
  PROVE  n = MirrorNodes(j, w) /\ e = MirrorEdges(j, w)
<1> DEFINE M == MirrorNodes(j, w)
           B == Range(Build(j, w))
<1>1. /\ M = [c \in DOMAIN M |-> M[c]]
      /\ \A c \in DOMAIN M : \E x \in B : IsNode(x) /\ x.node = c
      /\ \A d \in MirrorEdges(j, w) : \E x \in B : ~IsNode(x) /\ x.edge = d
  BY BuildsMirror
<1>2. /\ DOMAIN n \subseteq DOMAIN M /\ e \subseteq MirrorEdges(j, w) /\ \A c \in DOMAIN n : n[c] = M[c]
      /\ \A x \in B : IF IsNode(x) THEN x.node \in DOMAIN n ELSE x.edge \in e
  <2>1. Range(<<>>) = {}
    BY OfNone
  <2> QED BY <2>1 DEF Placed
<1> HIDE DEF M, B
<1>3. DOMAIN n = DOMAIN M
  BY <1>1, <1>2
<1>4. n = M
  BY <1>1, <1>2, <1>3
<1>5. e = MirrorEdges(j, w)
  BY <1>1, <1>2
<1> QED BY <1>4, <1>5 DEF M

\* Before the first insert, all of it is still to be made.
LEMMA NonePlaced ==
  ASSUME NEW j, NEW w
  PROVE  Placed(Build(j, w), <<>>, {}, j, w)
<1>1. DOMAIN <<>> = {}
  OBVIOUS
<1> QED BY <1>1 DEF Placed

\* What a request read is as fresh as it was: these calls move no journey.
LEMMA FreshKept ==
  ASSUME JourneyInv, NEW r \in InFlight, journey' = journey, copy' = copy,
         "progress" \notin excused' => "progress" \notin excused,
         Owed(r)' \subseteq Owed(r), "copy" \in Owed(r) => "copy" \in Owed(r)',
         code'[r] # <<>> => Head(code'[r]) \notin {"refresh", "decision", "save"}
  PROVE  Fresh(r)' /\ Resolves(r)'
<1>1. ~At(r, {"refresh"})' /\ ~At(r, {"decision"})' /\ ~At(r, {"save"})'
  BY DEF At
<1>2. "context" \in Owed(r) /\ "copy" \notin Owed(r) /\ "progress" \notin excused
        => copy[r].journey = journey
  BY DEF JourneyInv, Fresh
<1> QED BY <1>1, <1>2 DEF Fresh, Resolves

\* What the calls of an update of the graph have in common.
Updated(r, h) ==
  /\ code[r] # <<>> /\ Head(code[r]) = h /\ code' = [code EXCEPT ![r] = Tail(@)]
  /\ journey' = journey /\ rows' = rows /\ copy' = copy /\ arg' = arg
  /\ ops' = ops /\ faults' = faults /\ together' = together /\ excused' = excused

LEMMA UpdateStep ==
  ASSUME JourneyConstants, JourneyInv, NEW r \in Request,
         NEW h \in {"collect", "dropEdges", "dropNodes"}, Updated(r, h),
         alone' \subseteq alone \cup {r}, r \in alone' => r \in alone \/ InFlight = {r},
         DOMAIN inserts' = Request, \A q \in Request \ {r} : inserts'[q] = inserts[q],
         TablesTyped', Updates(r)',
         inserts'[r] # <<>> /\ inserts'[r] \in Seq(Range(inserts'[r])),
         \A x \in Range(inserts'[r]) : IsInsert(x)
  PROVE  JourneyInv'
<1>0. /\ TypeInv /\ Single /\ ArgOf(r) /\ CopyOf(r) /\ TablesTyped /\ Begun /\ HistoryTyped
      /\ DOMAIN code = Request /\ DOMAIN copy = Request
      /\ DOMAIN arg = Request /\ DOMAIN inserts = Request /\ DOMAIN arg[r] = {"id", "row", "phase"}
  BY DEF JourneyInv, TypeInv, Slots
<1>1. /\ code[r] # <<>> /\ Head(code[r]) = h /\ code' = [code EXCEPT ![r] = Tail(@)]
      /\ journey' = journey /\ rows' = rows /\ copy' = copy /\ arg' = arg
      /\ ops' = ops /\ faults' = faults /\ together' = together /\ excused' = excused
  BY DEF Updated
<1>2. Moved(r, h) /\ r \in InFlight
  BY <1>0, <1>1, Move DEF Moved
<1>3. /\ r \in InFlight' /\ Head(code'[r]) \in {"dropEdges", "dropNodes", "insert"}
      /\ Owed(r)' = Owed(r) /\ "create" \notin Owed(r) /\ "refresh" \notin Owed(r)
  BY <1>2 DEF Moved, Debts, Successors, Context
<1>4. journey \in Journeys /\ journey # NoJourney
  BY <1>0, <1>2, <1>3 DEF Begun, TablesTyped
<1>5. Kept(r) /\ Parted(r)
  BY <1>0, <1>1, <1>2 DEF Kept, Parted, Clear, Moved
<1>6. TypeInv'
  <2>1. OfKind(rows, "evidence") \subseteq OfKind(rows', "evidence")
    BY <1>1
  <2>2. ArgOf(r)'
    BY <1>0, <1>1, <1>2, <2>1, ArgKept DEF Moved
  <2>3. CopyOf(r)'
    BY <1>0, <1>1, <1>2, CopyKept DEF Moved
  <2>4. InsertsOf(r)'
    BY DEF InsertsOf, IsInsert, Names
  <2>5. Begun'
    BY <1>0, <1>1, <1>2, <1>4, <1>5, BegunKept
  <2>6. HistoryTyped'
    BY <1>0, <1>1 DEF HistoryTyped, Marks
  <2> QED BY <1>0, <1>1, <1>2, <1>5, <2>1, <2>2, <2>3, <2>4, <2>5, <2>6, TypeStep DEF Moved
<1>7. Fresh(r)' /\ Resolves(r)'
  BY <1>1, <1>2, <1>3, FreshKept
<1>8. ASSUME InFlight = {r} PROVE ProgressInv' /\ PhaseInv' /\ GraphInv'
  <2>1. ProgressInv' /\ PhaseInv'
    BY <1>1, <1>3, <1>8, RightKept
  <2>2. GraphInv'
    BY <1>3, GraphPending
  <2> QED BY <2>1, <2>2
<1> QED BY <1>2, <1>5, <1>6, <1>7, <1>8, JourneyStep DEF Moved

LEMMA CollectStep ==
  ASSUME JourneyConstants, JourneyInv, NEW r \in Request, Collect(r)
  PROVE  JourneyInv'
<1>0. /\ TypeInv /\ TablesTyped /\ Begun /\ DOMAIN inserts = Request
  BY DEF JourneyInv, TypeInv, Slots
<1>1. /\ Updated(r, "collect") /\ code[r] # <<>> /\ Head(code[r]) = "collect"
      /\ code' = [code EXCEPT ![r] = Tail(@)] /\ UNCHANGED tables
      /\ inserts' = [inserts EXCEPT ![r] = Build(journey, rows)]
      /\ alone' = IF InFlight = {r} THEN alone \cup {r} ELSE alone \ {r}
  BY DEF Collect, Makes, bounds, tables, Updated
<1>2. Moved(r, "collect") /\ r \in InFlight
  BY <1>0, <1>1, Move DEF Moved
<1>3. /\ Head(code'[r]) = "dropEdges" /\ "create" \notin Owed(r)
  BY <1>2 DEF Moved, Debts, Successors, Context
<1>4. journey \in Journeys /\ RowsOf(rows)
  BY <1>0, <1>2, <1>3 DEF Begun, TablesTyped
<1>5. inserts'[r] = Build(journey, rows) /\ DOMAIN inserts' = Request
      /\ \A q \in Request \ {r} : inserts'[q] = inserts[q]
  BY <1>0, <1>1
<1>6. /\ inserts'[r] # <<>> /\ inserts'[r] \in Seq(Range(inserts'[r]))
      /\ \A x \in Range(inserts'[r]) : IsInsert(x)
  BY <1>4, <1>5, BuildsMirror
<1>7. TablesTyped'
  BY <1>0, <1>1, TablesKept
<1>8. Updates(r)'
  <2>1. ~At(r, {"dropNodes"})' /\ ~At(r, {"insert"})'
    BY <1>3 DEF At
  <2> QED BY <1>1, <1>5, <2>1 DEF Updates, tables
<1> QED BY <1>1, <1>5, <1>6, <1>7, <1>8, UpdateStep

LEMMA DropEdgesStep ==
  ASSUME JourneyConstants, JourneyInv, NEW r \in Request, DropEdges(r)
  PROVE  JourneyInv'
<1>0. /\ TypeInv /\ TablesTyped /\ InsertsOf(r) /\ DOMAIN inserts = Request
  BY DEF JourneyInv, TypeInv, Slots
<1>1. /\ Updated(r, "dropEdges") /\ code[r] # <<>> /\ Head(code[r]) = "dropEdges"
      /\ code' = [code EXCEPT ![r] = Tail(@)]
      /\ edges' = {} /\ nodes' = nodes /\ inserts' = inserts /\ alone' = alone
      /\ journey' = journey /\ rows' = rows /\ excused' = excused
  BY DEF DropEdges, Makes, bounds, history, Updated
<1>2. Moved(r, "dropEdges") /\ r \in InFlight
  BY <1>0, <1>1, Move DEF Moved
<1>3. Head(code'[r]) = "dropNodes" /\ At(r, {"dropEdges", "dropNodes"}) /\ At(r, {"dropEdges", "dropNodes", "insert"})
  BY <1>1, <1>2 DEF Moved, Successors, At
<1>4. /\ inserts'[r] # <<>> /\ inserts'[r] \in Seq(Range(inserts'[r]))
      /\ \A x \in Range(inserts'[r]) : IsInsert(x)
  BY <1>0, <1>1, <1>3 DEF InsertsOf
<1>5. TablesTyped'
  BY <1>0, <1>1 DEF TablesTyped, Names, Journeys
<1>6. Updates(r)'
  <2>1. ~At(r, {"insert"})'
    BY <1>3 DEF At
  <2>2. Clear(r, "graph") => inserts[r] = Build(journey, rows)
    BY <1>2, <1>3 DEF JourneyInv, Updates
  <2> QED BY <1>1, <2>1, <2>2 DEF Updates, Clear
<1> QED BY <1>0, <1>1, <1>4, <1>5, <1>6, UpdateStep

LEMMA DropNodesStep ==
  ASSUME JourneyConstants, JourneyInv, NEW r \in Request, DropNodes(r)
  PROVE  JourneyInv'
<1>0. /\ TypeInv /\ TablesTyped /\ InsertsOf(r) /\ DOMAIN inserts = Request
  BY DEF JourneyInv, TypeInv, Slots
<1>1. /\ Updated(r, "dropNodes") /\ code[r] # <<>> /\ Head(code[r]) = "dropNodes"
      /\ code' = [code EXCEPT ![r] = Tail(@)]
      /\ edges' = {} /\ nodes' = <<>> /\ inserts' = inserts /\ alone' = alone
      /\ journey' = journey /\ rows' = rows /\ excused' = excused
  BY DEF DropNodes, Makes, bounds, history, Updated
<1>2. Moved(r, "dropNodes") /\ r \in InFlight
  BY <1>0, <1>1, Move DEF Moved
<1>3. Head(code'[r]) = "insert" /\ At(r, {"dropEdges", "dropNodes"}) /\ At(r, {"dropEdges", "dropNodes", "insert"})
  BY <1>1, <1>2 DEF Moved, Successors, At
<1>4. /\ inserts'[r] # <<>> /\ inserts'[r] \in Seq(Range(inserts'[r]))
      /\ \A x \in Range(inserts'[r]) : IsInsert(x)
  BY <1>0, <1>1, <1>3 DEF InsertsOf
<1>5. TablesTyped'
  <2>1. nodes' = [n \in DOMAIN nodes' |-> nodes'[n]] /\ DOMAIN nodes' = {}
    BY <1>1
  <2> QED BY <1>0, <1>1, <2>1 DEF TablesTyped, Names, Journeys
<1>6. Updates(r)'
  <2>1. ~At(r, {"dropEdges", "dropNodes"})' /\ ~At(r, {"dropNodes"})'
    BY <1>3 DEF At
  <2>2. Clear(r, "graph") => inserts[r] = Build(journey, rows)
    BY <1>2, <1>3 DEF JourneyInv, Updates
  <2>3. Placed(Build(journey, rows), <<>>, {}, journey, rows)
    BY NonePlaced
  <2> QED BY <1>1, <2>1, <2>2, <2>3 DEF Updates, Clear
<1> QED BY <1>0, <1>1, <1>4, <1>5, <1>6, UpdateStep

LEMMA InsertStep ==
  ASSUME JourneyConstants, JourneyInv, NEW r \in Request, Insert(r)
  PROVE  JourneyInv'
<1> DEFINE x == Head(inserts[r])
<1>0. /\ TypeInv /\ Single /\ ArgOf(r) /\ CopyOf(r) /\ InsertsOf(r) /\ TablesTyped /\ Begun /\ HistoryTyped
      /\ DOMAIN code = Request /\ DOMAIN copy = Request /\ code[r] \in Codes
      /\ DOMAIN arg = Request /\ DOMAIN inserts = Request /\ DOMAIN arg[r] = {"id", "row", "phase"}
  BY DEF JourneyInv, TypeInv, Slots
<1>1. /\ code[r] # <<>> /\ Head(code[r]) = "insert"
      /\ IF IsNode(x) THEN nodes' = UpsertNode(nodes, x) /\ edges' = edges
         ELSE EndsExist(nodes, x) /\ edges' = edges \cup {x.edge} /\ nodes' = nodes
      /\ inserts' = [inserts EXCEPT ![r] = Tail(@)]
      /\ IF Tail(inserts[r]) = <<>>
         THEN /\ code' = [code EXCEPT ![r] = Tail(@)]
              /\ arg' = IF Tail(code[r]) = <<>> THEN [arg EXCEPT ![r] = NoArg] ELSE arg
              /\ excused' = IF r \in alone THEN excused \ {"graph"} ELSE excused
         ELSE code' = code /\ arg' = arg /\ excused' = excused
      /\ journey' = journey /\ rows' = rows /\ copy' = copy
      /\ ops' = ops /\ faults' = faults /\ together' = together /\ alone' = alone
  BY DEF Insert, bounds
<1>2. CodeFacts(code[r])
  BY <1>0, <1>1, CodeStep
<1>3. /\ r \in InFlight /\ At(r, {"insert"}) /\ At(r, {"dropEdges", "dropNodes", "insert"})
      /\ "create" \notin Owed(r) /\ "refresh" \notin Owed(r)
  <2>1. Owed(r) \in Debts["insert"]
    BY <1>1, <1>2 DEF CodeFacts, Owed
  <2> QED BY <1>1, <2>1 DEF InFlight, At, Debts, Context
<1>4. journey \in Journeys /\ journey # NoJourney /\ RowsOf(rows)
  BY <1>0, <1>3 DEF Begun, TablesTyped
<1>5. /\ inserts[r] # <<>> /\ inserts[r] \in Seq(Range(inserts[r])) /\ IsInsert(x)
      /\ Tail(inserts[r]) \in Seq(Range(inserts[r])) /\ Range(Tail(inserts[r])) \subseteq Range(inserts[r])
  <2>1. /\ inserts[r] # <<>> /\ inserts[r] \in Seq(Range(inserts[r]))
        /\ \A y \in Range(inserts[r]) : IsInsert(y)
    BY <1>0, <1>3 DEF InsertsOf
  <2>2. /\ x \in Range(inserts[r]) /\ Tail(inserts[r]) \in Seq(Range(inserts[r]))
        /\ Range(inserts[r]) = {x} \cup Range(Tail(inserts[r]))
    BY <2>1, OfTail
  <2> QED BY <2>1, <2>2
<1>6. inserts'[r] = Tail(inserts[r]) /\ DOMAIN inserts' = Request
      /\ \A q \in Request \ {r} : inserts'[q] = inserts[q]
  BY <1>0, <1>1
<1>7. Clear(r, "graph") => Placed(inserts'[r], nodes', edges', journey, rows)
  <2>1. SUFFICES ASSUME Clear(r, "graph") PROVE Placed(inserts'[r], nodes', edges', journey, rows)
    OBVIOUS
  <2>2. Placed(inserts[r], nodes, edges, journey, rows)
    BY <1>3, <2>1 DEF JourneyInv, Updates
  <2> QED BY <1>1, <1>4, <1>5, <1>6, <2>2, InsertPlaces
<1> HIDE DEF x
<1>8. TablesTyped'
  <2>0. DOMAIN nodes \subseteq Names /\ edges \subseteq (DOMAIN nodes) \X (DOMAIN nodes)
    BY <1>0 DEF TablesTyped
  <2>1. CASE IsNode(x)
    <3>1. nodes' = With(nodes, x.node, x.value) /\ edges' = edges /\ x.node \in Names
      BY <1>1, <1>5, <2>1 DEF UpsertNode, IsInsert
    <3>2. DOMAIN nodes' = DOMAIN nodes \cup {x.node} /\ nodes' = [n \in DOMAIN nodes' |-> nodes'[n]]
      BY <3>1 DEF With
    <3>3. DOMAIN nodes' \subseteq Names /\ edges' \subseteq (DOMAIN nodes') \X (DOMAIN nodes')
      BY <2>0, <3>1, <3>2
    <3> QED BY <1>0, <1>1, <3>2, <3>3 DEF TablesTyped, Names, Journeys
  <2>2. CASE ~IsNode(x)
    <3>1. nodes' = nodes /\ edges' = edges \cup {x.edge} /\ x.edge \in Names \X Names
          /\ Range(x.edge) \subseteq DOMAIN nodes
      BY <1>1, <1>5, <2>2 DEF IsInsert, EndsExist
    <3>2. PICK a \in Names, b \in Names : x.edge = <<a, b>>
      BY <3>1
    <3>3. Range(<<a, b>>) = {a, b}
      BY OfTwo
    <3>4. x.edge \in (DOMAIN nodes) \X (DOMAIN nodes)
      BY <3>1, <3>2, <3>3
    <3>5. edges' \subseteq (DOMAIN nodes) \X (DOMAIN nodes)
      BY <2>0, <3>1, <3>4
    <3> QED BY <1>0, <1>1, <3>1, <3>5 DEF TablesTyped, Names, Journeys
  <2> QED BY <2>1, <2>2
<1>9. OfKind(rows, "evidence") \subseteq OfKind(rows', "evidence")
  BY <1>1
<1>10. CASE Tail(inserts[r]) # <<>>
  <2>1. code' = code /\ arg' = arg /\ excused' = excused
    BY <1>1, <1>10
  <2>2. Owed(r)' = Owed(r) /\ r \in InFlight' /\ Head(code'[r]) = "insert"
    BY <1>1, <1>3, <2>1 DEF Owed, Owes, Notify, InFlight
  <2>3. Kept(r) /\ Parted(r)
    BY <1>1, <1>6, <2>1 DEF Kept, Parted, Clear
  <2>4. TypeInv'
    <3>1. ArgOf(r)'
      BY <1>0, <1>1, <1>9, <2>1, <2>2 DEF ArgOf, RowOf, Rows, Statuses
    <3>2. CopyOf(r)'
      BY <1>0, <1>1, <2>2 DEF CopyOf, RowsOf, RowOf, Rows, Journeys, Statuses
    <3>3. InsertsOf(r)'
      <4>1. \A y \in Range(inserts[r]) : IsInsert(y)
        BY <1>0, <1>3 DEF InsertsOf
      <4>2. inserts'[r] \in Seq(Range(inserts'[r])) /\ \A y \in Range(inserts'[r]) : IsInsert(y)
        BY <1>5, <1>6, <4>1, OfOwn
      <4> QED BY <1>6, <1>10, <4>2 DEF InsertsOf, IsInsert, Names
    <3>4. Begun'
      BY <1>0, <1>1, <1>3, <1>4, <2>3, BegunKept
    <3>5. HistoryTyped'
      BY <1>0, <1>1, <2>1 DEF HistoryTyped, Marks
    <3> QED BY <1>0, <1>1, <1>6, <1>8, <1>9, <2>1, <2>3, <3>1, <3>2, <3>3, <3>4, <3>5, TypeStep
  <2>5. Fresh(r)' /\ Resolves(r)'
    BY <1>1, <1>3, <2>1, <2>2, FreshKept
  <2>6. Updates(r)'
    <3>1. ~At(r, {"dropEdges", "dropNodes"})' /\ ~At(r, {"dropNodes"})'
      BY <2>2 DEF At
    <3> QED BY <1>1, <1>7, <2>1, <3>1 DEF Updates, Clear
  <2>7. ASSUME InFlight = {r} PROVE ProgressInv' /\ PhaseInv' /\ GraphInv'
    <3>1. ProgressInv' /\ PhaseInv'
      BY <1>1, <1>3, <2>1, <2>7, RightKept
    <3>2. GraphInv'
      BY <2>2, GraphPending
    <3> QED BY <3>1, <3>2
  <2> QED BY <1>3, <2>2, <2>3, <2>4, <2>5, <2>6, <2>7, JourneyStep
<1>11. CASE Tail(inserts[r]) = <<>>
  <2>1. /\ code' = [code EXCEPT ![r] = Tail(@)]
        /\ arg' = IF Tail(code[r]) = <<>> THEN [arg EXCEPT ![r] = NoArg] ELSE arg
        /\ excused' = IF r \in alone THEN excused \ {"graph"} ELSE excused
    BY <1>1, <1>11
  <2>2. Moved(r, "insert")
    BY <1>0, <1>1, <2>1, Move
  <2>3. /\ Owed(r)' = Owed(r) /\ code'[r] = Tail(code[r])
        /\ IF code'[r] = <<>> THEN Owed(r)' = {} ELSE Head(code'[r]) \in {"copy", "context"}
    BY <1>0, <2>1, <2>2 DEF Moved, Debts, Successors, Context
  <2>4. /\ DOMAIN arg' = Request /\ DOMAIN arg'[r] = {"id", "row", "phase"}
        /\ \A q \in Request \ {r} : arg'[q] = arg[q]
        /\ arg'[r] = IF code'[r] = <<>> THEN NoArg ELSE arg[r]
    BY <1>0, <2>1, <2>3 DEF NoArg
  <2>5. Kept(r) /\ Parted(r)
    BY <1>1, <1>6, <2>1, <2>2, <2>4 DEF Kept, Parted, Clear, Moved
  <2>6. TypeInv'
    <3>1. ArgOf(r)'
      <4>1. CASE code'[r] = <<>>
        <5>1. arg'[r].id = NoLink /\ NoLink \notin Ids
          BY <2>4, <4>1 DEF NoArg, JourneyConstants
        <5> QED BY <2>3, <4>1, <5>1 DEF ArgOf
      <4>2. CASE code'[r] # <<>>
        <5>1. arg'[r] = arg[r]
          BY <2>4, <4>2
        <5> QED BY <1>0, <1>9, <2>2, <5>1, ArgKept DEF Moved
      <4> QED BY <4>1, <4>2
    <3>2. CopyOf(r)'
      BY <1>0, <1>1, <2>2, CopyKept DEF Moved
    <3>3. InsertsOf(r)'
      BY <2>3 DEF InsertsOf, At
    <3>4. Begun'
      BY <1>0, <1>1, <1>3, <1>4, <2>5, BegunKept
    <3>5. HistoryTyped'
      BY <1>0, <1>1, <2>1 DEF HistoryTyped, Marks
    <3> QED BY <1>0, <1>1, <1>6, <1>8, <1>9, <2>2, <2>4, <2>5, <3>1, <3>2, <3>3, <3>4, <3>5, TypeStep
        DEF Moved
  <2>7. Fresh(r)' /\ Resolves(r)'
    <3>1. code'[r] # <<>> => Head(code'[r]) \notin {"refresh", "decision", "save"}
      BY <2>3
    <3>2. "progress" \notin excused' => "progress" \notin excused
      BY <2>1
    <3> QED BY <1>1, <1>3, <2>3, <3>1, <3>2, FreshKept
  <2>8. Updates(r)'
    <3>1. ~At(r, {"dropEdges", "dropNodes"})' /\ ~At(r, {"dropNodes"})' /\ ~At(r, {"insert"})'
      BY <2>3 DEF At
    <3> QED BY <3>1 DEF Updates
  <2>9. ASSUME InFlight = {r} PROVE ProgressInv' /\ PhaseInv' /\ GraphInv'
    <3>1. ProgressInv' /\ PhaseInv'
      BY <1>1, <1>3, <2>1, <2>9, RightKept
    <3>2. GraphInv'
      <4>1. SUFFICES ASSUME "graph" \notin excused' PROVE Mirrored'
        BY DEF GraphInv
      <4>2. Clear(r, "graph")
        BY <2>1, <4>1 DEF Clear
      <4>3. Placed(<<>>, nodes', edges', journey, rows)
        BY <1>6, <1>7, <1>11, <4>2
      <4>4. nodes' = [n \in DOMAIN nodes' |-> nodes'[n]]
        BY <1>8 DEF TablesTyped
      <4>5. nodes' = MirrorNodes(journey, rows) /\ edges' = MirrorEdges(journey, rows)
        BY <1>4, <4>3, <4>4, AllPlaced
      <4> QED BY <1>1, <4>5 DEF Mirrored
    <3> QED BY <3>1, <3>2
  <2> QED BY <1>3, <2>2, <2>5, <2>6, <2>7, <2>8, <2>9, JourneyStep DEF Moved
<1> QED BY <1>10, <1>11

\* A request that breaks off marks what it may have left wrong.
LEMMA AbandonStep ==
  ASSUME JourneyConstants, JourneyInv, NEW r \in Request, code[r] # <<>>, Abandon(r),
         faults' \in 0..MaxFaults
  PROVE  JourneyInv'
<1>0. /\ TypeInv /\ TablesTyped /\ Begun /\ HistoryTyped
      /\ DOMAIN code = Request /\ DOMAIN copy = Request /\ code[r] \in Codes
      /\ DOMAIN arg = Request /\ DOMAIN inserts = Request /\ DOMAIN arg[r] = {"id", "row", "phase"}
  BY DEF JourneyInv, TypeInv, Slots
<1>1. /\ code' = [code EXCEPT ![r] = <<>>] /\ copy' = [copy EXCEPT ![r] = NoCopy]
      /\ arg' = [arg EXCEPT ![r] = NoArg] /\ inserts' = [inserts EXCEPT ![r] = <<>>]
      /\ excused' = excused \cup LeftWrong(r)
      /\ UNCHANGED tables /\ journey' = journey /\ rows' = rows /\ nodes' = nodes /\ edges' = edges
      /\ ops' = ops /\ together' = together /\ alone' = alone
  BY DEF Abandon, tables
<1>2. /\ code'[r] = <<>> /\ arg'[r] = NoArg /\ DOMAIN code' = Request /\ DOMAIN copy' = Request
      /\ DOMAIN arg' = Request /\ DOMAIN inserts' = Request /\ DOMAIN arg'[r] = {"id", "row", "phase"}
      /\ r \in InFlight /\ r \notin InFlight'
  BY <1>0, <1>1 DEF NoArg, InFlight
<1>3. Owed(r)' = {}
  BY <1>2, NoneOwed DEF Owed
<1>4. Kept(r) /\ Parted(r)
  BY <1>0, <1>1 DEF Kept, Parted, Clear
<1>5. TypeInv'
  <2>1. TablesTyped' /\ OfKind(rows, "evidence") \subseteq OfKind(rows', "evidence")
    BY <1>0, <1>1, TablesKept
  <2>2. ArgOf(r)'
    <3>1. arg'[r].id = NoLink /\ NoLink \notin Ids
      BY <1>2 DEF NoArg, JourneyConstants
    <3> QED BY <1>3, <3>1 DEF ArgOf
  <2>3. CopyOf(r)'
    BY <1>3 DEF CopyOf
  <2>4. InsertsOf(r)'
    BY <1>2 DEF InsertsOf, At
  <2>5. Begun'
    <3>1. \A q \in InFlight' : q \in InFlight /\ Owed(q)' = Owed(q)
      BY <1>2, <1>4 DEF Kept, InFlight, Owed, Owes, Notify
    <3> QED BY <1>0, <1>1, <3>1 DEF Begun
  <2>6. HistoryTyped'
    <3>1. LeftWrong(r) \subseteq Marks
      BY DEF LeftWrong, Marks
    <3> QED BY <1>0, <1>1, <3>1 DEF HistoryTyped, Marks
  <2>7. code'[r] \in Codes
    BY <1>2 DEF Codes
  <2> QED BY <1>0, <1>2, <1>4, <2>1, <2>2, <2>3, <2>4, <2>5, <2>6, <2>7, TypeStep
<1>6. ASSUME InFlight = {r} PROVE ProgressInv' /\ PhaseInv' /\ GraphInv'
  <2>1. Owed(r) \in Debts[Head(code[r])] /\ Head(code[r]) \in Calls
    <3>1. CodeFacts(code[r])
      BY <1>0, CodeStep
    <3> QED BY <3>1 DEF CodeFacts, Owed
  <2>2. ProgressInv'
    <3>1. SUFFICES ASSUME journey # NoJourney, "progress" \notin excused'
                   PROVE  journey.progress = Progress(rows)
      BY <1>1 DEF ProgressInv
    <3>2. "progress" \notin excused /\ Head(code[r]) \notin {"read", "refresh"}
      BY <1>1, <3>1 DEF LeftWrong
    <3>3. \A g \in Calls \ {"read", "refresh"} : \A D \in Debts[g] : "refresh" \in D => "save" \in D
      BY DEF Calls, Debts, Context
    <3>4. "refresh" \in Owed(r) => "save" \in Owed(r)
      BY <2>1, <3>2, <3>3
    <3> QED BY <1>6, <3>1, <3>2, <3>4 DEF JourneyInv, ProgressInv
  <2>3. PhaseInv'
    <3>1. SUFFICES ASSUME journey # NoJourney, "phase" \notin excused' PROVE Explained(journey, rows)
      BY <1>1 DEF PhaseInv
    <3>2. "phase" \notin excused /\ ~At(r, {"decision"})
      BY <1>1, <3>1 DEF LeftWrong, At
    <3> QED BY <1>6, <3>1, <3>2 DEF JourneyInv, PhaseInv
  <2>4. GraphInv'
    <3>1. SUFFICES ASSUME journey # NoJourney, "graph" \notin excused' PROVE Mirrored
      BY <1>1 DEF GraphInv, Mirrored
    <3>2. "graph" \notin excused /\ At(r, {"create", "copy", "evidence", "context", "save"})
      BY <1>1, <3>1 DEF LeftWrong, At
    <3> QED BY <1>6, <3>1, <3>2 DEF JourneyInv, GraphInv
  <2> QED BY <2>2, <2>3, <2>4
<1> QED BY <1>2, <1>4, <1>5, <1>6, JourneyStep

-----------------------------------------------------------------------------
(* The start of a request                                                   *)

Openings ==
  {Cons("save", Reading), Cons("save", Collecting(<<>>)), Copying, Collecting(<<>>),
   Cons("create", Collecting(<<>>)), Cons("create", Collecting(Copying))}

\* What a request starts with.
LEMMA OfOpenings ==
  ASSUME NEW c \in Openings
  PROVE  /\ c \in Codes /\ c # <<>> /\ Head(c) \in {"create", "copy", "save", "collect"}
         /\ "context" \in Owes(c) => "copy" \in Owes(c)
         /\ "refresh" \in Owes(c) => "read" \in Owes(c)
         /\ "decision" \in Owes(c) => "evidence" \in Owes(c)
<1>1. c \in Codes
  BY DEF Openings, Codes, Updating
<1>2. Collecting(<<>>) \in Seq(Calls) /\ Owes(Collecting(<<>>)) = {} /\ Collecting(<<>>) # <<>>
      /\ Head(Collecting(<<>>)) = "collect"
  BY NoneOwed, UpdateStages DEF Updating, Stage
<1>3. CASE c = Collecting(<<>>)
  BY <1>1, <1>2, <1>3
<1>4. CASE c = Copying
  <2>1. c # <<>> /\ Head(c) = "copy" /\ Owes(c) = Context
    BY <1>4, ContextStages DEF Stage
  <2> QED BY <1>1, <2>1 DEF Context
<1>5. CASE c = Cons("save", Reading)
  <2>1. c # <<>> /\ Head(c) = "save" /\ Owes(c) = {"save", "read", "refresh"}
    BY <1>5, SaveStages DEF Stage
  <2> QED BY <1>1, <2>1
<1>6. CASE c = Cons("save", Collecting(<<>>))
  <2>1. c # <<>> /\ Head(c) = "save" /\ Owes(c) = {"save"}
    BY <1>6, SaveStages DEF Stage
  <2> QED BY <1>1, <2>1
<1>7. CASE c = Cons("create", Collecting(<<>>))
  <2>1. c # <<>> /\ Head(c) = "create" /\ Owes(c) = {"create"}
    BY <1>7, CreateStages DEF Stage
  <2> QED BY <1>1, <2>1
<1>8. CASE c = Cons("create", Collecting(Copying))
  <2>1. c # <<>> /\ Head(c) = "create" /\ Owes(c) = {"create"} \cup Context
    BY <1>8, CreateStages DEF Stage
  <2> QED BY <1>1, <2>1 DEF Context
<1> QED BY <1>3, <1>4, <1>5, <1>6, <1>7, <1>8 DEF Openings

\* The calls as the operations write them down.
LEMMA Written ==
  /\ NotifyChanged = Collecting(<<>>)
  /\ \A s \in Seq(Calls) : NotifyChanged \o s = Collecting(s)
  /\ Refresh = Reading
  /\ <<"save">> \o NotifyChanged = Cons("save", Collecting(<<>>))
  /\ <<"save">> \o Refresh = Cons("save", Reading)
  /\ <<"create">> \o NotifyChanged = Cons("create", Collecting(<<>>))
<1>1. NotifyChanged = Collecting(<<>>)
  BY DEF NotifyChanged, Collecting, DroppingEdges, DroppingNodes, Inserting, Cons, Calls
<1>2. \A s \in Seq(Calls) : NotifyChanged \o s = Collecting(s)
  BY DEF NotifyChanged, Collecting, DroppingEdges, DroppingNodes, Inserting, Cons, Calls
<1>3. \A s \in Seq(Calls) : <<"read", "refresh">> \o s = Cons("read", Cons("refresh", s))
  BY DEF Cons, Calls
<1>4. Refresh = Reading
  BY <1>1, <1>3, NoneOwed, UpdateStages DEF Refresh, Reading, Refreshing, Updating
<1> QED BY <1>1, <1>2, <1>4 DEF Cons

LEMMA WrittenContext ==
  /\ <<>> \o <<"copy", "evidence">> \o NotifyChanged \o <<"context", "decision">> \o NotifyChanged
       = Copying
  /\ <<"create">> \o NotifyChanged \o <<"copy", "evidence">> \o NotifyChanged
       \o <<"context", "decision">> \o NotifyChanged
       = Cons("create", Collecting(Copying))
<1>0. /\ {"create", "copy", "evidence", "context", "decision"} \subseteq Calls
      /\ NotifyChanged \in Seq(Calls)
  BY NoneOwed, UpdateStages, Written DEF Updating, Calls
<1>11. \A s, t, u \in Seq(Calls) : (s \o t) \o u = s \o (t \o u)
  BY ConcatAssociative
<1>1. \A s \in Seq(Calls) : <<"context", "decision">> \o s = Cons("context", Cons("decision", s))
  BY DEF Cons, Calls
<1>2. \A s \in Seq(Calls) : <<"copy", "evidence">> \o s = Cons("copy", Cons("evidence", s))
  BY DEF Cons, Calls
<1>3. <<"context", "decision">> \o NotifyChanged = Placing
  BY <1>0, <1>1, Written DEF Placing, Deciding
<1>4. NotifyChanged \o Placing = Collecting(Placing) /\ Placing \in Seq(Calls)
  BY Written, ContextStages DEF Stage
<1>12. Collecting(Placing) \in Seq(Calls)
  BY <1>4, UpdateStages DEF Updating
<1>5. <<"copy", "evidence">> \o (NotifyChanged \o Placing) = Copying
  <2>1. NotifyChanged \o Placing \in Seq(Calls)
    BY <1>4, <1>12
  <2> QED BY <1>2, <1>4, <2>1 DEF Copying, Proving
<1>6. /\ <<"copy", "evidence">> \in Seq(Calls) /\ <<"context", "decision">> \in Seq(Calls)
      /\ <<"create">> \in Seq(Calls)
  BY <1>0
<1>7. <<"copy", "evidence">> \o NotifyChanged \o <<"context", "decision">> \o NotifyChanged = Copying
  <2>1. <<"copy", "evidence">> \o NotifyChanged \o <<"context", "decision">> \o NotifyChanged
          = <<"copy", "evidence">> \o NotifyChanged \o (<<"context", "decision">> \o NotifyChanged)
    <3>1. <<"copy", "evidence">> \o NotifyChanged \in Seq(Calls)
      BY <1>0, <1>6
    <3> QED BY <1>0, <1>6, <3>1, <1>11
  <2>2. <<"copy", "evidence">> \o NotifyChanged \o Placing
          = <<"copy", "evidence">> \o (NotifyChanged \o Placing)
    BY <1>0, <1>4, <1>6, <1>11
  <2> QED BY <1>3, <1>5, <2>1, <2>2
<1>8. <<>> \o <<"copy", "evidence">> = <<"copy", "evidence">>
  BY <1>6, ConcatEmptySeq
<1>9. <<"create">> \o NotifyChanged \o <<"copy", "evidence">> \o NotifyChanged
        \o <<"context", "decision">> \o NotifyChanged
      = Cons("create", Collecting(Copying))
  <2> DEFINE a == <<"create">> \o NotifyChanged
             b == <<"copy", "evidence">>
             d == <<"context", "decision">>
             n == NotifyChanged
  <2>1. a \in Seq(Calls) /\ b \in Seq(Calls) /\ d \in Seq(Calls) /\ n \in Seq(Calls)
    BY <1>0, <1>6
  <2>2. a = Cons("create", Collecting(<<>>))
    BY Written
  <2>3. b \o n \o d \o n = Copying
    BY <1>7
  <2>4. a \o Copying = Cons("create", Collecting(Copying))
    <3>1. Copying \in Seq(Calls)
      BY ContextStages DEF Stage
    <3>2. a \o Copying = <<"create">> \o (NotifyChanged \o Copying)
      BY <1>0, <1>6, <3>1, <1>11
    <3> QED BY <3>1, <3>2, Written DEF Cons
  <2> HIDE DEF a, b, d, n
  <2>5. /\ b \o n \in Seq(Calls) /\ b \o n \o d \in Seq(Calls)
        /\ a \o b \in Seq(Calls) /\ a \o b \o n \in Seq(Calls)
    BY <2>1
  <2>6. a \o (b \o n \o d \o n) = a \o (b \o n \o d) \o n
    BY <2>1, <2>5, <1>11
  <2>7. a \o (b \o n \o d) = a \o (b \o n) \o d
    BY <2>1, <2>5, <1>11
  <2>8. a \o (b \o n) = a \o b \o n
    BY <2>1, <2>5, <1>11
  <2>9. a \o b \o n \o d \o n = Cons("create", Collecting(Copying))
    BY <2>3, <2>4, <2>6, <2>7, <2>8
  <2> QED BY <2>9 DEF a, b, d, n
<1> QED BY <1>7, <1>8, <1>9

\* Request r starts with the calls of c before it.
Begins(r, c) ==
  /\ code[r] = <<>> /\ ops < MaxOps /\ Meet(r)
  /\ code' = [code EXCEPT ![r] = c]
  /\ DOMAIN arg' = Request /\ DOMAIN arg'[r] = {"id", "row", "phase"}
  /\ \A q \in Request \ {r} : arg'[q] = arg[q]
  /\ UNCHANGED <<tables, copy, inserts, faults>>
  /\ IF "create" \in Owes(c) THEN journey = NoJourney ELSE journey # NoJourney

\* A request that starts alone finds what was at rest; one that does not excuses all.
LEMMA BeginStep ==
  ASSUME JourneyConstants, JourneyInv, NEW r \in Request, NEW c \in Openings, Begins(r, c),
         ArgOf(r)', Resolves(r)'
  PROVE  JourneyInv'
<1>0. /\ TypeInv /\ TablesTyped /\ Begun /\ HistoryTyped
      /\ DOMAIN code = Request /\ DOMAIN copy = Request /\ DOMAIN inserts = Request
  BY DEF JourneyInv, TypeInv, Slots
<1>1. /\ code[r] = <<>> /\ ops < MaxOps /\ Meet(r) /\ code' = [code EXCEPT ![r] = c]
      /\ UNCHANGED tables /\ journey' = journey /\ rows' = rows /\ nodes' = nodes /\ edges' = edges
      /\ copy' = copy /\ inserts' = inserts /\ faults' = faults
      /\ \A q \in Request \ {r} : arg'[q] = arg[q]
      /\ IF "create" \in Owes(c) THEN journey = NoJourney ELSE journey # NoJourney
  BY DEF Begins, tables
<1>2. /\ c \in Codes /\ c # <<>> /\ Head(c) \in {"create", "copy", "save", "collect"}
      /\ "context" \in Owes(c) => "copy" \in Owes(c)
      /\ "refresh" \in Owes(c) => "read" \in Owes(c)
  BY OfOpenings
<1>3. /\ code'[r] = c /\ DOMAIN code' = Request /\ \A q \in Request \ {r} : code'[q] = code[q]
      /\ r \notin InFlight /\ InFlight' = InFlight \cup {r} /\ Owed(r)' = Owes(c)
  BY <1>0, <1>1, <1>2 DEF InFlight, Owed, Owes, Notify
<1>4. Kept(r)
  BY <1>1, <1>3 DEF Kept
<1>5. ~At(r, {"refresh"})' /\ ~At(r, {"decision"})' /\ ~At(r, {"dropEdges", "dropNodes", "insert"})'
      /\ ~At(r, {"dropEdges", "dropNodes"})' /\ ~At(r, {"dropNodes"})' /\ ~At(r, {"insert"})'
  BY <1>2, <1>3 DEF At
<1>6. TypeInv'
  <2>1. TablesTyped' /\ OfKind(rows, "evidence") \subseteq OfKind(rows', "evidence")
    BY <1>0, <1>1, TablesKept
  <2>2. CopyOf(r)' /\ InsertsOf(r)'
    BY <1>2, <1>3, <1>5 DEF CopyOf, InsertsOf
  <2>3. Begun'
    <3>1. \A q \in InFlight : Owed(q)' = Owed(q)
      BY <1>3 DEF InFlight, Owed, Owes, Notify
    <3>2. \A q \in InFlight : "create" \in Owed(q)' \/ journey # NoJourney
      BY <1>0, <3>1 DEF Begun
    <3> QED BY <1>0, <1>1, <1>3, <3>2 DEF Begun
  <2>4. HistoryTyped'
    <3>1. InFlight \subseteq Request
      BY DEF InFlight
    <3>2. together' \subseteq Request /\ alone' \subseteq Request /\ excused' \subseteq Marks
      BY <1>0, <1>1, <3>1 DEF HistoryTyped, Meet, Marks
    <3>3. ops' \in 0..MaxOps
      BY <1>0, <1>1 DEF HistoryTyped, Meet, JourneyConstants
    <3> QED BY <1>0, <1>1, <3>2, <3>3 DEF HistoryTyped, Marks
  <2> QED BY <1>0, <1>1, <1>2, <1>3, <1>4, <2>1, <2>2, <2>3, <2>4, TypeStep DEF Begins
<1>7. CASE InFlight = {}
  <2>1. /\ InFlight' = {r} /\ together' = together \ {r} /\ alone' = alone /\ excused' = excused
    BY <1>1, <1>3, <1>7 DEF Meet
  <2>2. Single' /\ Uncreated'
    BY <1>1, <1>3, <2>1 DEF Single, Uncreated
  <2>3. Fresh(r)' /\ Updates(r)'
    BY <1>2, <1>3, <1>5 DEF Fresh, Updates
  <2>4. ProgressInv'
    BY <1>1, <1>7, <2>1 DEF JourneyInv, ProgressInv
  <2>5. PhaseInv'
    BY <1>1, <1>7, <2>1 DEF JourneyInv, PhaseInv
  <2>6. GraphInv'
    BY <1>1, <1>7, <2>1 DEF JourneyInv, GraphInv, Mirrored
  <2> QED BY <1>6, <2>1, <2>2, <2>3, <2>4, <2>5, <2>6 DEF JourneyInv
<1>8. CASE InFlight # {}
  <2>1. /\ together' = together \cup InFlight \cup {r} /\ alone' = {}
        /\ excused' = {"graph", "progress", "phase"}
    BY <1>1, <1>8 DEF Meet
  <2>2. Single' /\ Uncreated'
    BY <1>3, <2>1 DEF Single, Uncreated, Marks
  <2>3. ProgressInv' /\ PhaseInv' /\ GraphInv'
    BY <2>1 DEF ProgressInv, PhaseInv, GraphInv
  <2>4. ASSUME NEW q \in InFlight' PROVE Fresh(q)' /\ Updates(q)' /\ Resolves(q)'
    <3>1. q \in together' /\ "progress" \in excused' /\ ~Clear(q, "progress")'
          /\ ~Clear(q, "phase")' /\ ~Clear(q, "graph")'
      BY <1>3, <2>1, <2>4 DEF Clear
    <3>2. Fresh(q)'
      BY <3>1 DEF Fresh
    <3>3. Updates(q)'
      BY <3>1 DEF Updates
    <3>4. Resolves(q)'
      BY <3>1 DEF Resolves
    <3> QED BY <3>2, <3>3, <3>4
  <2> QED BY <1>6, <2>2, <2>3, <2>4 DEF JourneyInv
<1> QED BY <1>7, <1>8

\* A request that goes on to save a row.
LEMMA SaveBegins ==
  ASSUME JourneyConstants, JourneyInv, NEW r \in Request, code[r] = <<>>, ops < MaxOps,
         NEW id \in Ids, NEW row, RowOf(id, row), NEW t \in {Refresh, NotifyChanged}, Save(r, id, row, t),
         row.kind \in {"goal", "milestone", "blocker", "action"},
         t = NotifyChanged => row.kind = "action",
         id \in OfKind(rows, "blocker") /\ rows[id].status = "resolved" => row.status = "resolved"
  PROVE  JourneyInv'
<1>0. DOMAIN arg = Request /\ DOMAIN code = Request
  BY DEF JourneyInv, TypeInv, Slots
<1>1. /\ journey # NoJourney /\ Meet(r) /\ UNCHANGED <<tables, copy, inserts, faults>> /\ rows' = rows
      /\ arg' = [arg EXCEPT ![r] = [id |-> id, row |-> row, phase |-> NoRow]]
      /\ code' = [code EXCEPT ![r] = <<"save">> \o t]
  BY DEF Save, tables
<1>2. PICK c \in {Cons("save", Reading), Cons("save", Collecting(<<>>))} :
        c = <<"save">> \o t /\ (t # NotifyChanged => c = Cons("save", Reading))
  BY Written
<1>3. c \in Openings
  BY DEF Openings
<1>4. /\ "save" \in Owes(c) /\ Owes(c) \subseteq {"save", "read", "refresh"}
      /\ ("refresh" \notin Owes(c) => row.kind = "action")
  <2>1. /\ Owes(Cons("save", Reading)) = {"save", "read", "refresh"}
        /\ Owes(Cons("save", Collecting(<<>>))) = {"save"}
    BY SaveStages
  <2> QED BY <1>2, <2>1
<1>5. /\ code'[r] = c /\ Owed(r)' = Owes(c)
      /\ arg'[r] = [id |-> id, row |-> row, phase |-> NoRow]
      /\ DOMAIN arg' = Request /\ DOMAIN arg'[r] = {"id", "row", "phase"}
      /\ \A q \in Request \ {r} : arg'[q] = arg[q]
  BY <1>0, <1>1, <1>2 DEF Owed, Owes, Notify
<1>6. Begins(r, c)
  BY <1>1, <1>2, <1>4, <1>5 DEF Begins
<1>7. ArgOf(r)'
  <2>1. arg'[r].id = id /\ arg'[r].row = row
    BY <1>5
  <2>2. KindOf[id] # "decision"
    BY DEF RowOf
  <2>3. RowOf(arg[r].id, arg[r].row)' /\ arg'[r].row.kind # "evidence"
    BY <2>1 DEF RowOf, Rows, Statuses
  <2> QED BY <1>4, <1>5, <2>1, <2>2, <2>3 DEF ArgOf
<1>8. Resolves(r)'
  BY <1>1, <1>5 DEF Resolves
<1> QED BY <1>3, <1>6, <1>7, <1>8, BeginStep

\* Operations that save no row: they go by the phase they were asked for.
LEMMA EnsureBegins ==
  ASSUME JourneyConstants, JourneyInv, NEW r \in Request, code[r] = <<>>, ops < MaxOps,
         NEW p \in Phases, NEW c \in Openings, Meet(r),
         arg' = [arg EXCEPT ![r].phase = p], code' = [code EXCEPT ![r] = c],
         UNCHANGED <<tables, copy, inserts, faults>>, "save" \notin Owes(c),
         IF "create" \in Owes(c) THEN journey = NoJourney ELSE journey # NoJourney
  PROVE  JourneyInv'
<1>0. /\ DOMAIN arg = Request /\ DOMAIN code = Request /\ ArgOf(r)
      /\ DOMAIN arg[r] = {"id", "row", "phase"}
  BY DEF JourneyInv, TypeInv, Slots
<1>1. /\ arg'[r].id = arg[r].id /\ arg'[r].phase = p
      /\ DOMAIN arg' = Request /\ DOMAIN arg'[r] = {"id", "row", "phase"}
      /\ \A q \in Request \ {r} : arg'[q] = arg[q]
  BY <1>0
<1>2. Owed(r)' = Owes(c) /\ c # <<>> /\ Head(c) # "save"
      /\ ("decision" \in Owes(c) => "evidence" \in Owes(c))
  <2>1. Owed(r)' = Owes(c)
    BY <1>0 DEF Owed, Owes, Notify
  <2>2. c \in Codes /\ c # <<>> /\ Head(c) \in {"create", "copy", "save", "collect"}
        /\ ("decision" \in Owes(c) => "evidence" \in Owes(c))
    BY OfOpenings
  <2>3. Owes(c) \in Debts[Head(c)]
    BY <2>2, CodeStep DEF CodeFacts
  <2>4. Head(c) # "save"
    BY <2>3 DEF Debts
  <2> QED BY <2>1, <2>2, <2>4
<1>3. Begins(r, c)
  BY <1>1 DEF Begins
<1>4. ArgOf(r)'
  BY <1>0, <1>1, <1>2 DEF ArgOf
<1>5. Resolves(r)'
  BY <1>0, <1>2 DEF Resolves, At
<1> QED BY <1>3, <1>4, <1>5, BeginStep

LEMMA EnsureStep ==
  ASSUME JourneyConstants, JourneyInv, NEW r \in Request, code[r] = <<>>, ops < MaxOps,
         NEW p \in Phases, EnsureJourney(r, p)
  PROVE  JourneyInv'
<1> DEFINE c == Cons("create", Collecting(<<>>))
<1>1. c \in Openings /\ Owes(c) = {"create"} /\ <<"create">> \o NotifyChanged = c
  BY CreateStages, Written DEF Openings
<1> HIDE DEF c
<1>2. /\ journey = NoJourney /\ Meet(r) /\ arg' = [arg EXCEPT ![r].phase = p]
      /\ code' = [code EXCEPT ![r] = c] /\ UNCHANGED <<tables, copy, inserts, faults>>
  BY <1>1 DEF EnsureJourney
<1> QED BY <1>1, <1>2, EnsureBegins

LEMMA ContextStep ==
  ASSUME JourneyConstants, JourneyInv, NEW r \in Request, code[r] = <<>>, ops < MaxOps,
         NEW p \in Phases, SynchronizeContext(r, p)
  PROVE  JourneyInv'
<1> DEFINE c == IF journey = NoJourney THEN Cons("create", Collecting(Copying)) ELSE Copying
<1>1. /\ c \in Openings /\ "save" \notin Owes(c)
      /\ IF "create" \in Owes(c) THEN journey = NoJourney ELSE journey # NoJourney
  BY CreateStages, ContextStages DEF Openings, Context
<1>2. (IF journey = NoJourney THEN <<"create">> \o NotifyChanged ELSE <<>>)
         \o <<"copy", "evidence">> \o NotifyChanged
         \o <<"context", "decision">> \o NotifyChanged = c
  BY WrittenContext
<1> HIDE DEF c
<1>3. /\ Meet(r) /\ arg' = [arg EXCEPT ![r].phase = p]
      /\ code' = [code EXCEPT ![r] = c] /\ UNCHANGED <<tables, copy, inserts, faults>>
  BY <1>2 DEF SynchronizeContext
<1> QED BY <1>1, <1>3, EnsureBegins

LEMMA SynchronizeStep ==
  ASSUME JourneyConstants, JourneyInv, NEW r \in Request, code[r] = <<>>, ops < MaxOps,
         Synchronize(r)
  PROVE  JourneyInv'
<1>0. /\ DOMAIN arg = Request /\ DOMAIN code = Request /\ ArgOf(r)
      /\ DOMAIN arg[r] = {"id", "row", "phase"}
  BY DEF JourneyInv, TypeInv, Slots
<1> DEFINE c == Collecting(<<>>)
<1>1. c \in Openings /\ Owes(c) = {} /\ c # <<>> /\ Head(c) = "collect" /\ NotifyChanged = c
  BY NoneOwed, UpdateStages, Written DEF Openings, Updating, Stage
<1> HIDE DEF c
<1>2. /\ journey # NoJourney /\ Meet(r) /\ code' = [code EXCEPT ![r] = c] /\ arg' = arg
      /\ UNCHANGED <<tables, copy, inserts, faults>>
  BY <1>1 DEF Synchronize
<1>3. Begins(r, c)
  BY <1>0, <1>1, <1>2 DEF Begins
<1>4. Owed(r)' = {} /\ ~At(r, {"save"})'
  BY <1>0, <1>1, <1>2 DEF Owed, Owes, Notify, At
<1>5. ArgOf(r)' /\ Resolves(r)'
  BY <1>0, <1>2, <1>4 DEF ArgOf, Resolves
<1> QED BY <1>1, <1>3, <1>5, BeginStep

\* A row of kind k that is not there yet.
LEMMA NewRow ==
  ASSUME JourneyConstants, NEW k, Unused(k) # {}
  PROVE  /\ First(Unused(k)) \in Ids /\ KindOf[First(Unused(k))] = k
         /\ \A b : First(Unused(k)) \notin OfKind(rows, b)
<1>1. First(Unused(k)) \in Unused(k)
  BY OfUnused, OfFirst DEF JourneyConstants
<1> QED BY <1>1, OfUnused DEF OfKind

\* A row that is there, with another level or status.
LEMMA OldRow ==
  ASSUME RowsOf(rows), NEW k, NEW id \in OfKind(rows, k)
  PROVE  /\ id \in Ids /\ RowOf(id, rows[id]) /\ rows[id].kind = k
         /\ \A n \in DOMAIN SeverityWeight : k = "blocker" => RowOf(id, [rows[id] EXCEPT !.level = n])
         /\ \A s \in Statuses : k # "goal" => RowOf(id, [rows[id] EXCEPT !.status = s])
<1>1. id \in Ids /\ RowOf(id, rows[id]) /\ rows[id].kind = k
  BY DEF RowsOf, OfKind
<1>2. \A n \in DOMAIN SeverityWeight : n \in Nat
  BY DEF SeverityWeight
<1>3. rows[id] \in Rows
  BY <1>1 DEF RowOf
<1>4. \A n \in DOMAIN SeverityWeight :
        k = "blocker" => RowOf(id, [rows[id] EXCEPT !.level = n])
  BY <1>1, <1>2, <1>3 DEF RowOf, Rows
<1>5. \A s \in Statuses : k # "goal" => RowOf(id, [rows[id] EXCEPT !.status = s])
  BY <1>1, <1>3 DEF RowOf, Rows
<1> QED BY <1>1, <1>4, <1>5

\* New goals, milestones and actions.
LEMMA SavingStep ==
  ASSUME JourneyConstants, JourneyInv, NEW r \in Request, code[r] = <<>>, ops < MaxOps,
         \/ AddGoal(r)
         \/ \E w \in Weights, g \in OfKind(rows, "goal") \cup {NoLink} : AddMilestone(r, w, g)
         \/ \E b \in OfKind(rows, "blocker") \cup {NoLink} : AddAction(r, b)
  PROVE  JourneyInv'
<1>0. RowsOf(rows)
  BY DEF JourneyInv, TypeInv, TablesTyped
<1>1. Refresh \in {Refresh, NotifyChanged} /\ NotifyChanged \in {Refresh, NotifyChanged}
      /\ Refresh # NotifyChanged
  <2>1. Head(Collecting(<<>>)) = "collect" /\ Head(Reading) = "read"
    BY NoneOwed, UpdateStages, SaveStages DEF Stage
  <2> QED BY <2>1, Written
<1>2. CASE AddGoal(r)
  <2> DEFINE id == First(Unused("goal"))
             row == Row("goal", "active", 0, NoLink)
  <2>1. id \in Ids /\ KindOf[id] = "goal" /\ id \notin OfKind(rows, "blocker")
    BY <1>2, NewRow DEF AddGoal
  <2>2. RowOf(id, row) /\ row.kind = "goal"
    BY <2>1 DEF RowOf, Rows, Row, Statuses
  <2>3. Save(r, id, row, Refresh)
    BY <1>2 DEF AddGoal
  <2> HIDE DEF id, row
  <2> QED BY <1>1, <2>1, <2>2, <2>3, SaveBegins
<1>3. CASE \E w \in Weights, g \in OfKind(rows, "goal") \cup {NoLink} : AddMilestone(r, w, g)
  <2>0. PICK w \in Weights, g \in OfKind(rows, "goal") \cup {NoLink} : AddMilestone(r, w, g)
    BY <1>3
  <2> DEFINE id == First(Unused("milestone"))
             row == Row("milestone", "pending", w, g)
  <2>1. id \in Ids /\ KindOf[id] = "milestone" /\ id \notin OfKind(rows, "blocker")
    BY <2>0, NewRow DEF AddMilestone
  <2>2. RowOf(id, row) /\ row.kind = "milestone"
    <3>1. w \in Nat /\ g \in Ids \cup {NoLink}
      BY <1>0 DEF JourneyConstants, RowsOf, OfKind
    <3> QED BY <2>1, <3>1 DEF RowOf, Rows, Row, Statuses, Ids
  <2>3. Save(r, id, row, Refresh)
    BY <2>0 DEF AddMilestone
  <2> HIDE DEF id, row
  <2> QED BY <1>1, <2>1, <2>2, <2>3, SaveBegins
<1>4. CASE \E b \in OfKind(rows, "blocker") \cup {NoLink} : AddAction(r, b)
  <2>0. PICK b \in OfKind(rows, "blocker") \cup {NoLink} : AddAction(r, b)
    BY <1>4
  <2> DEFINE id == First(Unused("action"))
             row == Row("action", "pending", 0, b)
  <2>1. id \in Ids /\ KindOf[id] = "action" /\ id \notin OfKind(rows, "blocker")
    BY <2>0, NewRow DEF AddAction
  <2>2. RowOf(id, row) /\ row.kind = "action"
    <3>1. b \in Ids \cup {NoLink}
      BY <1>0 DEF RowsOf, OfKind
    <3> QED BY <2>1, <3>1 DEF RowOf, Rows, Row, Statuses, Ids
  <2>3. Save(r, id, row, NotifyChanged)
    BY <2>0 DEF AddAction
  <2> HIDE DEF id, row
  <2> QED BY <1>1, <2>1, <2>2, <2>3, SaveBegins
<1> QED BY <1>2, <1>3, <1>4

\* A blocker found keeps its status, a new one is open.
LEMMA UpsertStep ==
  ASSUME JourneyConstants, JourneyInv, NEW r \in Request, code[r] = <<>>, ops < MaxOps,
         NEW severity \in Severities, UpsertBlocker(r, severity)
  PROVE  JourneyInv'
<1>0. RowsOf(rows) /\ severity \in DOMAIN SeverityWeight /\ severity \in Nat
  BY DEF JourneyInv, TypeInv, TablesTyped, JourneyConstants, SeverityWeight
<1>1. Refresh \in {Refresh, NotifyChanged} /\ Refresh # NotifyChanged
  <2>1. Head(Collecting(<<>>)) = "collect" /\ Head(Reading) = "read"
    BY NoneOwed, UpdateStages, SaveStages DEF Stage
  <2> QED BY <2>1, Written
<1>2. CASE OfKind(rows, "blocker") # {}
  <2> DEFINE id == First(OfKind(rows, "blocker"))
             row == [rows[id] EXCEPT !.level = severity]
  <2>1. id \in OfKind(rows, "blocker")
    <3>1. OfKind(rows, "blocker") \in SUBSET Ids
      BY <1>0 DEF RowsOf, OfKind
    <3> QED BY <1>2, <3>1, OfFirst DEF JourneyConstants
  <2>2. Save(r, id, row, Refresh)
    BY <1>2 DEF UpsertBlocker
  <2> HIDE DEF id
  <2>3. id \in Ids /\ RowOf(id, row) /\ RowOf(id, rows[id]) /\ rows[id].kind = "blocker"
    BY <1>0, <2>1, OldRow
  <2>4. row.kind = "blocker" /\ (rows[id].status = "resolved" => row.status = "resolved")
    BY <2>3 DEF RowOf, Rows
  <2> HIDE DEF row
  <2> QED BY <1>1, <2>1, <2>2, <2>3, <2>4, SaveBegins
<1>3. CASE OfKind(rows, "blocker") = {}
  <2> DEFINE id == First(Unused("blocker"))
             row == Row("blocker", "open", severity, NoLink)
  <2>1. Unused("blocker") # {} /\ Save(r, id, row, Refresh)
    BY <1>3 DEF UpsertBlocker
  <2>2. id \in Ids /\ KindOf[id] = "blocker" /\ id \notin OfKind(rows, "blocker")
    BY <2>1, NewRow
  <2>3. RowOf(id, row) /\ row.kind = "blocker"
    BY <1>0, <2>2 DEF RowOf, Rows, Row, Statuses
  <2> HIDE DEF id, row
  <2> QED BY <1>1, <2>1, <2>2, <2>3, SaveBegins
<1> QED BY <1>2, <1>3

\* A row that is there gets another status.
LEMMA RestateStep ==
  ASSUME JourneyConstants, JourneyInv, NEW r \in Request, code[r] = <<>>, ops < MaxOps,
         NEW k \in {"action", "milestone", "blocker"}, NEW id \in OfKind(rows, k),
         NEW s \in Statuses, k = "blocker" => s = "resolved",
         NEW t \in {Refresh, NotifyChanged}, t = NotifyChanged => k = "action",
         Save(r, id, [rows[id] EXCEPT !.status = s], t)
  PROVE  JourneyInv'
<1>0. RowsOf(rows)
  BY DEF JourneyInv, TypeInv, TablesTyped
<1> DEFINE row == [rows[id] EXCEPT !.status = s]
<1>1. id \in Ids /\ RowOf(id, row) /\ RowOf(id, rows[id]) /\ rows[id].kind = k
  BY <1>0, OldRow
<1>2. row.kind = k /\ row.status = s
  BY <1>1 DEF RowOf, Rows
<1>3. id \in OfKind(rows, "blocker") => k = "blocker"
  BY <1>1 DEF OfKind
<1>4. Save(r, id, row, t)
  OBVIOUS
<1> HIDE DEF row
<1> QED BY <1>1, <1>2, <1>3, <1>4, SaveBegins

LEMMA BeginsStep ==
  ASSUME JourneyConstants, JourneyInv, NEW r \in Request, Begin(r)
  PROVE  JourneyInv'
<1>0. code[r] = <<>> /\ ops < MaxOps
  BY DEF Begin
<1>1. Refresh \in {Refresh, NotifyChanged} /\ NotifyChanged \in {Refresh, NotifyChanged}
      /\ Refresh # NotifyChanged
  <2>1. Head(Collecting(<<>>)) = "collect" /\ Head(Reading) = "read"
    BY NoneOwed, UpdateStages, SaveStages DEF Stage
  <2> QED BY <2>1, Written
<1>2. CASE \E p \in Phases : EnsureJourney(r, p) \/ SynchronizeContext(r, p)
  BY <1>0, <1>2, EnsureStep, ContextStep
<1>3. CASE \/ AddGoal(r)
           \/ \E w \in Weights, g \in OfKind(rows, "goal") \cup {NoLink} : AddMilestone(r, w, g)
           \/ \E b \in OfKind(rows, "blocker") \cup {NoLink} : AddAction(r, b)
  BY <1>0, <1>3, SavingStep
<1>4. CASE \E s \in Severities : UpsertBlocker(r, s)
  BY <1>0, <1>4, UpsertStep
<1>5. CASE \E a \in OfKind(rows, "action"), s \in ActionStatuses : UpdateActionStatus(r, a, s)
  <2>1. PICK a \in OfKind(rows, "action"), s \in ActionStatuses : UpdateActionStatus(r, a, s)
    BY <1>5
  <2>2. s \in Statuses /\ Save(r, a, [rows[a] EXCEPT !.status = s], NotifyChanged)
    BY <2>1 DEF UpdateActionStatus, JourneyConstants
  <2> QED BY <1>0, <1>1, <2>2, RestateStep
<1>6. CASE \E m \in OfKind(rows, "milestone"), s \in MilestoneStatuses : UpdateMilestoneStatus(r, m, s)
  <2>1. PICK m \in OfKind(rows, "milestone"), s \in MilestoneStatuses : UpdateMilestoneStatus(r, m, s)
    BY <1>6
  <2>2. s \in Statuses /\ Save(r, m, [rows[m] EXCEPT !.status = s], Refresh)
    BY <2>1 DEF UpdateMilestoneStatus, JourneyConstants
  <2> QED BY <1>0, <1>1, <2>2, RestateStep
<1>7. CASE \E b \in OfKind(rows, "blocker") : ResolveBlocker(r, b)
  <2>1. PICK b \in OfKind(rows, "blocker") : ResolveBlocker(r, b)
    BY <1>7
  <2>2. "resolved" \in Statuses /\ Save(r, b, [rows[b] EXCEPT !.status = "resolved"], Refresh)
    BY <2>1 DEF ResolveBlocker, Statuses
  <2> QED BY <1>0, <1>1, <2>2, RestateStep
<1>8. CASE Synchronize(r)
  BY <1>0, <1>8, SynchronizeStep
<1> QED BY <1>2, <1>3, <1>4, <1>5, <1>6, <1>7, <1>8 DEF Begin

-----------------------------------------------------------------------------
(* The theorems                                                             *)

\* The edges of the mirror join nodes of it.
LEMMA MirrorJoins ==
  ASSUME NEW j, NEW w
  PROVE  MirrorEdges(j, w) \subseteq (DOMAIN MirrorNodes(j, w)) \X (DOMAIN MirrorNodes(j, w))
<1> DEFINE D == DOMAIN MirrorNodes(j, w)
<1>1. DOMAIN w \cup {j.phase, Journey} \subseteq D
  BY DEF MirrorNodes, With
<1> HIDE DEF D
<1>2. \A c \in DOMAIN w : Parent(w, c) \in D
  BY <1>1 DEF Parent
<1>3. \A k : OfKind(w, k) \subseteq D
  BY <1>1 DEF OfKind
<1>4. \A e \in MirrorEdges(j, w) : e \in D \X D
  BY <1>1, <1>2, <1>3 DEF MirrorEdges
<1> QED BY <1>4 DEF D

\* The starting tables satisfy the invariant.
LEMMA JourneyBegins ==
  ASSUME JourneyConstants, ReachedStarts, Init
  PROVE  JourneyInv
<1>1. PICK start \in Starts :
        /\ journey = start.journey /\ rows = start.rows
        /\ IF start.graph THEN nodes = MirrorNodes(journey, rows) /\ edges = MirrorEdges(journey, rows)
           ELSE nodes = <<>> /\ edges = {}
        /\ excused = IF start.graph THEN {} ELSE {"graph"}
  BY DEF Init
<1>2. /\ start.graph \in BOOLEAN /\ RowsOf(rows) /\ InOrder(rows)
      /\ \/ journey = NoJourney /\ rows = <<>> /\ ~start.graph
         \/ /\ journey \in Journeys
            /\ journey.progress = Progress(rows) /\ Explained(journey, rows)
  BY <1>1 DEF ReachedStarts
<1>3. /\ code = [r \in Request |-> <<>>] /\ copy = [r \in Request |-> NoCopy]
      /\ arg = [r \in Request |-> NoArg] /\ inserts = [r \in Request |-> <<>>]
      /\ ops = 0 /\ faults = 0 /\ together = {} /\ alone = {}
  BY DEF Init
<1>4. InFlight = {} /\ \A r \in Request : code[r] = <<>> /\ Owed(r) = {}
  BY <1>3, NoneOwed DEF InFlight, Owed
<1>5. TypeInv
  <2>1. Slots
    BY <1>3 DEF Slots, NoArg, Codes
  <2>2. ASSUME NEW r \in Request PROVE ArgOf(r) /\ CopyOf(r) /\ InsertsOf(r)
    <3>1. arg[r].id = NoLink /\ NoLink \notin Ids
      BY <1>3 DEF NoArg, JourneyConstants
    <3> QED BY <1>4, <3>1 DEF ArgOf, CopyOf, InsertsOf, At
  <2>3. TablesTyped
    <3>1. CASE start.graph
      <4>1. journey \in Journeys /\ nodes = MirrorNodes(journey, rows) /\ edges = MirrorEdges(journey, rows)
        BY <1>1, <1>2, <3>1
      <4>2. /\ DOMAIN MirrorNodes(journey, rows) \subseteq Names
            /\ MirrorNodes(journey, rows)
                 = [n \in DOMAIN MirrorNodes(journey, rows) |-> MirrorNodes(journey, rows)[n]]
        BY <1>2, <4>1, BuildsMirror
      <4>3. MirrorEdges(journey, rows)
              \subseteq (DOMAIN MirrorNodes(journey, rows)) \X (DOMAIN MirrorNodes(journey, rows))
        BY MirrorJoins
      <4> QED BY <1>2, <4>1, <4>2, <4>3 DEF TablesTyped
    <3>2. CASE ~start.graph
      <4>1. nodes = <<>> /\ edges = {}
        BY <1>1, <3>2
      <4>2. nodes = [n \in DOMAIN nodes |-> nodes[n]] /\ DOMAIN nodes = {}
        BY <4>1
      <4> QED BY <1>2, <4>1, <4>2 DEF TablesTyped
    <3> QED BY <3>1, <3>2
  <2>4. Begun
    <3>1. NoJourney \notin Journeys
      BY DEF JourneyConstants
    <3>2. DOMAIN <<>> = {}
      OBVIOUS
    <3> QED BY <1>2, <1>4, <3>1, <3>2 DEF Begun
  <2>5. HistoryTyped
    BY <1>1, <1>3 DEF HistoryTyped, JourneyConstants, Marks
  <2> QED BY <2>1, <2>2, <2>3, <2>4, <2>5 DEF TypeInv
<1>6. Single /\ Uncreated
  BY <1>4 DEF Single, Uncreated
<1>7. ProgressInv
  BY <1>2 DEF ProgressInv
<1>8. PhaseInv
  BY <1>2 DEF PhaseInv
<1>9. GraphInv
  BY <1>1, <1>2 DEF GraphInv, Mirrored
<1> QED BY <1>4, <1>5, <1>6, <1>7, <1>8, <1>9 DEF JourneyInv

LEMMA BrokenStep ==
  ASSUME JourneyConstants, JourneyInv, NEW r \in Request, InsertFails(r) \/ CallFails(r)
  PROVE  JourneyInv'
<1>1. code[r] # <<>> /\ Abandon(r)
  BY DEF InsertFails, CallFails
<1>2. faults' \in 0..MaxFaults
  <2>1. faults \in 0..MaxFaults /\ MaxFaults \in Nat
    BY DEF JourneyInv, TypeInv, HistoryTyped, JourneyConstants
  <2> QED BY <2>1 DEF InsertFails, CallFails
<1> QED BY <1>1, <1>2, AbandonStep

LEMMA JourneyStutters ==
  ASSUME JourneyInv, UNCHANGED vars
  PROVE  JourneyInv'
<1> USE DEF vars, tables, locals, bounds, history
<1>1. TypeInv'
  <2>1. Slots' /\ Begun'
    BY DEF JourneyInv, TypeInv, Slots, Begun, Owed, Owes, Notify, InFlight,
           Codes, Updating, Inserting, DroppingNodes, DroppingEdges, Collecting,
           Refreshing, Reading, Deciding, Placing, Proving, Copying
  <2>2. TablesTyped' /\ HistoryTyped'
    BY TablesKept DEF JourneyInv, TypeInv, HistoryTyped, Marks
  <2>3. ASSUME NEW r \in Request PROVE ArgOf(r)' /\ CopyOf(r)' /\ InsertsOf(r)'
    <3>1. ArgOf(r) /\ CopyOf(r) /\ InsertsOf(r) /\ Owed(r)' = Owed(r)
      BY DEF JourneyInv, TypeInv, Owed, Owes, Notify
    <3>2. ArgOf(r)'
      BY <3>1 DEF ArgOf, RowOf, Rows, Statuses
    <3>3. CopyOf(r)'
      BY <3>1 DEF CopyOf, RowsOf, RowOf, Rows, Journeys, Statuses
    <3>4. InsertsOf(r)'
      BY <3>1 DEF InsertsOf, At, IsInsert, Names
    <3> QED BY <3>2, <3>3, <3>4
  <2> QED BY <2>1, <2>2, <2>3 DEF TypeInv
<1>2. InFlight' = InFlight /\ \A r \in Request : Owed(r)' = Owed(r)
  BY DEF InFlight, Owed, Owes, Notify
<1>3. InFlight \subseteq Request
  BY DEF InFlight
<1>4. Single' /\ Uncreated'
  BY <1>2, <1>3 DEF JourneyInv, Single, Uncreated, Marks
<1>5. ProgressInv'
  BY <1>2, <1>3 DEF JourneyInv, ProgressInv
<1>6. PhaseInv'
  BY <1>2 DEF JourneyInv, PhaseInv, At
<1>7. GraphInv'
  BY <1>2 DEF JourneyInv, GraphInv, At, Mirrored
<1>8. ASSUME NEW r \in InFlight' PROVE Fresh(r)' /\ Updates(r)' /\ Resolves(r)'
  <2>1. r \in InFlight /\ Owed(r)' = Owed(r) /\ Fresh(r) /\ Updates(r) /\ Resolves(r)
    BY <1>2, <1>3 DEF JourneyInv
  <2>2. Fresh(r)'
    BY <2>1 DEF Fresh, Clear, At
  <2>3. Updates(r)'
    BY <2>1 DEF Updates, Clear, At, Placed
  <2>4. Resolves(r)'
    BY <2>1 DEF Resolves, At
  <2> QED BY <2>2, <2>3, <2>4
<1> QED BY <1>1, <1>4, <1>5, <1>6, <1>7, <1>8 DEF JourneyInv

LEMMA JourneyGoesOn ==
  JourneyConstants /\ JourneyInv /\ [Next]_vars => JourneyInv'
<1> SUFFICES ASSUME JourneyConstants, JourneyInv, [Next]_vars PROVE JourneyInv'
  OBVIOUS
<1>1. ASSUME NEW r \in Request, Begin(r) \/ CallFails(r) PROVE JourneyInv'
  BY <1>1, BeginsStep, BrokenStep
<1>2. ASSUME NEW r \in Request, Proceed(r) PROVE JourneyInv'
  BY <1>2, CreateStep, ReadStep, SaveRowStep, AddEvidenceStep, SaveContextStep, RecordDecisionStep,
     SaveProgressStep, CollectStep, DropEdgesStep, DropNodesStep, InsertStep, BrokenStep DEF Proceed
<1>3. CASE UNCHANGED vars
  BY <1>3, JourneyStutters
<1> QED BY <1>1, <1>2, <1>3 DEF Next

\* What the invariant says at rest, and of the types.
LEMMA JourneyHolds ==
  ASSUME JourneyConstants, JourneyInv
  PROVE  TypeOK /\ GraphMirrors /\ ProgressCurrent /\ PhaseExplained
<1>0. TypeInv
  BY DEF JourneyInv
<1>1. TypeOK
  <2>1. ASSUME NEW r \in Request PROVE Range(code[r]) \subseteq Calls
    <3>1. code[r] \in Codes
      BY <1>0 DEF TypeInv, Slots
    <3>2. code[r] \in Seq(Calls)
      BY <3>1, CodeStep, NoneOwed DEF CodeFacts
    <3> QED BY <3>2 DEF Range
  <2>2. DOMAIN rows \subseteq Range(Children) /\ Range(rows) \subseteq Rows
    BY <1>0 DEF TypeInv, TablesTyped, RowsOf, RowOf, Ids, Range
  <2>3. DOMAIN nodes \subseteq Range(Children) \cup Phases \cup {Journey}
    BY <1>0 DEF TypeInv, TablesTyped, Names, Ids
  <2> QED BY <1>0, <2>1, <2>2, <2>3 DEF TypeOK, TypeInv, TablesTyped, HistoryTyped, Marks
<1>2. GraphMirrors
  BY DEF JourneyInv, GraphInv, Mirrored, GraphMirrors, Quiet
<1>3. ProgressCurrent
  BY DEF JourneyInv, ProgressInv, ProgressCurrent, Quiet
<1>4. PhaseExplained
  <2> SUFFICES ASSUME Quiet, OfKind(rows, "decision") # {}, "phase" \notin excused
               PROVE  \E d \in OfKind(rows, "decision") :
                        /\ \A c \in OfKind(rows, "decision") : Position(c) <= Position(d)
                        /\ rows[d].status = journey.phase
                        /\ rows[d].link \in OfKind(rows, "evidence")
    BY DEF PhaseExplained
  <2>1. journey # NoJourney
    <3>1. DOMAIN rows # {}
      BY DEF OfKind
    <3> QED BY <1>0, <3>1 DEF TypeInv, Begun
  <2>2. Explained(journey, rows)
    BY <2>1 DEF JourneyInv, PhaseInv, Quiet
  <2> QED BY <2>2 DEF Explained
<1> QED BY <1>1, <1>2, <1>3, <1>4

\* A call other than save writes no row of a blocker, and a save writes one back
\* as it was unless its request met another.
LEMMA NoneReopened ==
  JourneyConstants /\ JourneyInv /\ [Next]_vars => [ReopenedByOverlap]_vars
<1> SUFFICES ASSUME JourneyConstants, JourneyInv, [Next]_vars, NEW b \in OfKind(rows, "blocker"),
                    rows[b].status = "resolved", rows'[b].status # "resolved"
             PROVE  \E r \in together : code[r] # <<>> /\ Head(code[r]) = "save" /\ arg[r].id = b
  BY DEF ReopenedByOverlap
<1>0. RowsOf(rows) /\ b \in DOMAIN rows /\ KindOf[b] = "blocker"
  BY DEF JourneyInv, TypeInv, TablesTyped, RowsOf, RowOf, OfKind
<1>1. PICK r \in Request : SaveRow(r) \/ AddEvidence(r) \/ RecordDecision(r)
  BY DEF Next, vars, tables, Begin, Proceed, EnsureJourney, SynchronizeContext, AddGoal, AddMilestone,
         UpsertBlocker, AddAction, UpdateActionStatus, UpdateMilestoneStatus, ResolveBlocker,
         Synchronize, Save, Create, Read, SaveContext, SaveProgress, Collect, DropEdges, DropNodes,
         Insert, InsertFails, CallFails, Abandon
<1>2. CASE SaveRow(r)
  <2>1. code[r] # <<>> /\ Head(code[r]) = "save" /\ rows' = With(rows, arg[r].id, arg[r].row)
    BY <1>2 DEF SaveRow, Makes
  <2>2. arg[r].id = b
    <3>1. \A c \in DOMAIN rows : c # arg[r].id => With(rows, arg[r].id, arg[r].row)[c] = rows[c]
      BY DEF With
    <3> QED BY <1>0, <2>1, <3>1
  <2>3. rows'[b] = arg[r].row
    <3>1. With(rows, arg[r].id, arg[r].row)[arg[r].id] = arg[r].row
      BY DEF With
    <3> QED BY <2>1, <2>2, <3>1
  <2>4. r \in together
    BY <2>1, <2>2, <2>3 DEF JourneyInv, Resolves, InFlight, At
  <2> QED BY <2>1, <2>2, <2>4
<1>3. CASE AddEvidence(r) \/ RecordDecision(r)
  <2>1. PICK k, row : /\ k \in {"evidence", "decision"} /\ Unused(k) # {}
                      /\ rows' = With(rows, First(Unused(k)), row)
    BY <1>3 DEF AddEvidence, RecordDecision
  <2>2. First(Unused(k)) # b
    BY <1>0, <2>1, NewRow
  <2>3. \A c \in DOMAIN rows : c # First(Unused(k)) => With(rows, First(Unused(k)), row)[c] = rows[c]
    BY DEF With
  <2> QED BY <1>0, <2>1, <2>2, <2>3
<1> QED BY <1>1, <1>2, <1>3

\* The rows of the journey, its graph, and what each request has still to do have
\* the code's shape, however many requests cross and break off.
THEOREM JourneyTyped == ASSUME JourneyConstants, ReachedStarts PROVE Spec => []TypeOK
<1>1. Init => JourneyInv
  BY JourneyBegins
<1>2. JourneyInv /\ [Next]_vars => JourneyInv'
  BY JourneyGoesOn
<1>3. JourneyInv => TypeOK
  BY JourneyHolds
<1> QED BY <1>1, <1>2, <1>3, PTL DEF Spec

\* At rest the graph is the projection of the journey, unless its last update met
\* another request or broke off (GraphMemoryJourneyChangeListener, replaceUserGraph).
THEOREM GraphsMirror == ASSUME JourneyConstants, ReachedStarts PROVE Spec => []GraphMirrors
<1>1. Init => JourneyInv
  BY JourneyBegins
<1>2. JourneyInv /\ [Next]_vars => JourneyInv'
  BY JourneyGoesOn
<1>3. JourneyInv => GraphMirrors
  BY JourneyHolds
<1> QED BY <1>1, <1>2, <1>3, PTL DEF Spec

\* At rest the stored progress is that of the stored rows, unless requests
\* overlapped or one broke off before its refresh (refreshProgress).
THEOREM ProgressStaysCurrent ==
  ASSUME JourneyConstants, ReachedStarts PROVE Spec => []ProgressCurrent
<1>1. Init => JourneyInv
  BY JourneyBegins
<1>2. JourneyInv /\ [Next]_vars => JourneyInv'
  BY JourneyGoesOn
<1>3. JourneyInv => ProgressCurrent
  BY JourneyHolds
<1> QED BY <1>1, <1>2, <1>3, PTL DEF Spec

\* At rest the last decision, with its evidence, explains the phase, unless
\* requests overlapped or one broke off before it (synchronizeContext).
THEOREM PhasesAreExplained ==
  ASSUME JourneyConstants, ReachedStarts PROVE Spec => []PhaseExplained
<1>1. Init => JourneyInv
  BY JourneyBegins
<1>2. JourneyInv /\ [Next]_vars => JourneyInv'
  BY JourneyGoesOn
<1>3. JourneyInv => PhaseExplained
  BY JourneyHolds
<1> QED BY <1>1, <1>2, <1>3, PTL DEF Spec

\* Only a request that overlapped another writes a resolved blocker back unresolved
\* (upsertBlocker, resolveBlocker).
THEOREM BlockersStayResolved ==
  ASSUME JourneyConstants, ReachedStarts PROVE Spec => StaysResolved
<1>1. Init => JourneyInv
  BY JourneyBegins
<1>2. JourneyInv /\ [Next]_vars => JourneyInv'
  BY JourneyGoesOn
<1>3. JourneyInv /\ [Next]_vars => [ReopenedByOverlap]_vars
  BY NoneReopened
<1> QED BY <1>1, <1>2, <1>3, PTL DEF Spec, StaysResolved
=============================================================================
