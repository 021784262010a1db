---------------------------- MODULE ProxyCall_proofs ----------------------------
(***************************************************************************)
(* Proofs about ProxyCall, for any calls, messages and sets of faults.     *)
(* The lemmas about Kept come first; then what merging the chunks of a     *)
(* whole answer gives; then the steps.                                     *)
(***************************************************************************)
EXTENDS ProxyCall, Integers, TLAPS, WellFoundedInduction, FiniteSetTheorems

(* Induction over the naturals, for a set instead of a predicate. *)
LEMMA NatInd ==
  ASSUME NEW S, 0 \in S, \A n \in Nat : n \in S => n + 1 \in S
  PROVE  \A n \in Nat : n \in S
<1> DEFINE Rest == {n \in Nat : n \notin S}
<1>1. SUFFICES ASSUME Rest # {} PROVE FALSE
  OBVIOUS
<1>2. IsWellFoundedOn(OpToRel(<, Nat), Nat)
  BY NatLessThanWellFounded
<1>3. PICK m \in Rest : \A k \in Rest : ~(<<k, m>> \in OpToRel(<, Nat))
  BY <1>1, <1>2, WFMin
<1>4. \A k \in Rest : ~(k < m)
  BY <1>3 DEF OpToRel
<1>5. m - 1 \in Nat /\ m - 1 \notin Rest
  BY <1>4
<1> QED
  BY <1>5

(* One element is kept or not. *)
Extended(before, s, I, m) == IF m \in I THEN Append(before, s[m]) ELSE before

(* g computes the filter of the first n elements. *)
Keeps(g, s, I, n) ==
    g = [m \in 0..n |-> IF m = 0 THEN <<>> ELSE Extended(g[m - 1], s, I, m)]

LEMMA KeepsFirst ==
  ASSUME NEW s, NEW I, NEW n \in Nat, NEW g, Keeps(g, s, I, n)
  PROVE  g[0] = <<>>
BY DEF Keeps

LEMMA KeepsNext ==
  ASSUME NEW s, NEW I, NEW n \in Nat, NEW g, Keeps(g, s, I, n), NEW m \in 1..n
  PROVE  g[m] = Extended(g[m - 1], s, I, m)
<1>1. m \in 0..n /\ m # 0
  OBVIOUS
<1> QED
  BY <1>1 DEF Keeps

LEMMA KeepsExists ==
  ASSUME NEW A, NEW s \in Seq(A), NEW I
  PROVE  \A n \in Nat : n <= Len(s) => \E g : Keeps(g, s, I, n) /\ \A m \in 0..n : g[m] \in Seq(A)
<1> DEFINE Good(g, n) == Keeps(g, s, I, n) /\ \A m \in 0..n : g[m] \in Seq(A)
<1> DEFINE S == {n \in Nat : n <= Len(s) => \E g : Good(g, n)}
<1>1. 0 \in S
  <2> DEFINE g == [m \in 0..0 |-> <<>>]
  <2>1. Good(g, 0)
    BY DEF Keeps
  <2> QED
    BY <2>1
<1>2. ASSUME NEW n \in Nat, n \in S PROVE n + 1 \in S
  <2>1. SUFFICES ASSUME n + 1 <= Len(s) PROVE \E h : Good(h, n + 1)
    OBVIOUS
  <2>2. PICK g : Good(g, n)
    BY <1>2, <2>1
  <2> DEFINE h == [m \in 0..(n + 1) |-> IF m <= n THEN g[m] ELSE Extended(g[n], s, I, m)]
  <2>3. ASSUME NEW m \in 0..(n + 1)
        PROVE  h[m] = IF m = 0 THEN <<>> ELSE Extended(h[m - 1], s, I, m)
    <3>1. CASE m = 0
      BY <2>2, <3>1, KeepsFirst
    <3>2. CASE m \in 1..n
      BY <2>2, <3>2, KeepsNext
    <3>3. CASE m = n + 1
      BY <3>3
    <3> QED
      BY <3>1, <3>2, <3>3
  <2>4. Keeps(h, s, I, n + 1)
    BY <2>3 DEF Keeps
  <2>5. \A m \in 0..(n + 1) : h[m] \in Seq(A)
    BY <2>1, <2>2 DEF Extended
  <2> QED
    BY <2>4, <2>5
<1>3. \A n \in Nat : n \in S
  <2> HIDE DEF S
  <2> QED
    BY <1>1, <1>2, NatInd
<1> QED
  BY <1>3

(* Up to n the sequences have the same elements, and the same are kept. *)
Alike(s, I, t, J, n) == \A i \in 1..n : s[i] = t[i] /\ (i \in I <=> i \in J)

LEMMA KeepsAgree ==
  ASSUME NEW s, NEW t, NEW I, NEW J, NEW n \in Nat, NEW k \in Nat, n <= k, NEW g, NEW h,
         Keeps(g, s, I, n), Keeps(h, t, J, k), Alike(s, I, t, J, n)
  PROVE  \A m \in 0..n : g[m] = h[m]
<1> DEFINE S == {m \in Nat : m <= n => g[m] = h[m]}
<1>1. 0 \in S
  BY KeepsFirst
<1>2. ASSUME NEW m \in Nat, m \in S PROVE m + 1 \in S
  <2>1. SUFFICES ASSUME NEW i \in 1..n, i = m + 1 PROVE g[i] = h[i]
    OBVIOUS
  <2>2. i \in 1..k
    OBVIOUS
  <2>3. g[i - 1] = h[i - 1]
    BY <1>2, <2>1
  <2>4. g[i] = Extended(g[i - 1], s, I, i)
    BY KeepsNext
  <2>5. h[i] = Extended(h[i - 1], t, J, i)
    BY <2>2, KeepsNext
  <2> QED
    BY <2>3, <2>4, <2>5 DEF Extended, Alike
<1>3. \A m \in Nat : m \in S
  <2> HIDE DEF S
  <2> QED
    BY <1>1, <1>2, NatInd
<1> QED
  BY <1>3

LEMMA KeptDef ==
  ASSUME NEW A, NEW s \in Seq(A), NEW I
  PROVE  \E g : /\ Keeps(g, s, I, Len(s)) /\ Kept(s, I) = g[Len(s)]
                /\ \A m \in 0..Len(s) : g[m] \in Seq(A)
<1> DEFINE k == CHOOSE g : Keeps(g, s, I, Len(s))
<1>1. Kept(s, I) = k[Len(s)]
  BY DEF Kept, Keeps, Extended
<1>2. PICK g : Keeps(g, s, I, Len(s)) /\ \A m \in 0..Len(s) : g[m] \in Seq(A)
  BY KeepsExists, SMTT(30)
<1>3. Keeps(k, s, I, Len(s))
  BY <1>2
<1>4. \A m \in 0..Len(s) : g[m] = k[m]
  BY <1>2, <1>3, KeepsAgree DEF Alike
<1> QED
  BY <1>1, <1>2, <1>3, <1>4

LEMMA KeptEmpty == ASSUME NEW I PROVE Kept(<<>>, I) = <<>>
<1>1. <<>> \in Seq({}) /\ Len(<<>>) = 0
  OBVIOUS
<1>2. PICK g : Keeps(g, <<>>, I, Len(<<>>)) /\ Kept(<<>>, I) = g[Len(<<>>)]
  BY <1>1, KeptDef
<1> QED
  BY <1>1, <1>2, KeepsFirst

(* One more element is kept at the end, or not at all. *)
LEMMA KeptAppend ==
  ASSUME NEW A, NEW s \in Seq(A), NEW e \in A, NEW I, NEW J,
         \A i \in 1..Len(s) : i \in I <=> i \in J
  PROVE  /\ Kept(s, I) \in Seq(A)
         /\ Kept(Append(s, e), J) = IF Len(s) + 1 \in J THEN Append(Kept(s, I), e) ELSE Kept(s, I)
<1> DEFINE t == Append(s, e)
<1>1. PICK g : /\ Keeps(g, s, I, Len(s)) /\ Kept(s, I) = g[Len(s)]
               /\ \A m \in 0..Len(s) : g[m] \in Seq(A)
  BY KeptDef
<1>2. t \in Seq(A) /\ Len(t) = Len(s) + 1 /\ t[Len(t)] = e /\ Alike(s, I, t, J, Len(s))
  BY DEF Alike
<1>3. PICK h : Keeps(h, t, J, Len(t)) /\ Kept(t, J) = h[Len(t)]
  BY <1>2, KeptDef
<1> HIDE DEF t
<1>4. Len(s) \in Nat /\ Len(t) \in Nat /\ Len(s) <= Len(t) /\ Len(t) \in 1..Len(t)
  BY <1>2
<1>5. g[Len(s)] = h[Len(s)]
  <2>1. \A m \in 0..Len(s) : g[m] = h[m]
    BY <1>1, <1>2, <1>3, <1>4, KeepsAgree
  <2> QED
    BY <2>1, <1>4
<1>6. h[Len(t)] = Extended(h[Len(t) - 1], t, J, Len(t))
  BY <1>3, <1>4, KeepsNext
<1>7. Kept(t, J) = Extended(Kept(s, I), t, J, Len(t))
  BY <1>1, <1>2, <1>3, <1>4, <1>5, <1>6
<1> QED
  BY <1>1, <1>2, <1>4, <1>7 DEF Extended, t

LEMMA KeptType == ASSUME NEW A, NEW s \in Seq(A), NEW I PROVE Kept(s, I) \in Seq(A)
<1>1. PICK g : Kept(s, I) = g[Len(s)] /\ \A m \in 0..Len(s) : g[m] \in Seq(A)
  BY KeptDef
<1> QED
  BY <1>1

(* Only the positions in the sequence count. *)
LEMMA KeptSame ==
  ASSUME NEW A, NEW s \in Seq(A), NEW I, NEW J, \A i \in 1..Len(s) : i \in I <=> i \in J
  PROVE  Kept(s, I) = Kept(s, J)
<1>1. PICK g : Keeps(g, s, I, Len(s)) /\ Kept(s, I) = g[Len(s)]
  BY KeptDef
<1>2. PICK h : Keeps(h, s, J, Len(s)) /\ Kept(s, J) = h[Len(s)]
  BY KeptDef
<1>3. Alike(s, I, s, J, Len(s)) /\ Len(s) \in Nat /\ Len(s) <= Len(s)
  BY DEF Alike
<1>4. \A m \in 0..Len(s) : g[m] = h[m]
  BY <1>1, <1>2, <1>3, KeepsAgree
<1> QED
  BY <1>1, <1>2, <1>3, <1>4

LEMMA KeptNothing ==
  ASSUME NEW A, NEW s \in Seq(A), NEW I, \A i \in 1..Len(s) : i \notin I
  PROVE  Kept(s, I) = <<>>
<1>1. PICK g : Keeps(g, s, I, Len(s)) /\ Kept(s, I) = g[Len(s)]
  BY KeptDef
<1> DEFINE S == {m \in Nat : m <= Len(s) => g[m] = <<>>}
<1>2. 0 \in S
  BY <1>1, KeepsFirst
<1>3. ASSUME NEW m \in Nat, m \in S PROVE m + 1 \in S
  <2>1. SUFFICES ASSUME NEW i \in 1..Len(s), i = m + 1 PROVE g[i] = <<>>
    OBVIOUS
  <2>2. g[i] = Extended(g[i - 1], s, I, i)
    BY <1>1, KeepsNext
  <2> QED
    BY <1>3, <2>1, <2>2 DEF Extended
<1>4. \A m \in Nat : m \in S
  <2> HIDE DEF S
  <2> QED
    BY <1>2, <1>3, NatInd
<1> QED
  BY <1>1, <1>4

(* One position more is kept, behind all the others. *)
LEMMA KeptOneMore ==
  ASSUME NEW A, NEW s \in Seq(A), NEW n \in Nat, n + 1 <= Len(s), NEW I \in SUBSET (1..n)
  PROVE  Kept(s, I \cup {n + 1}) = Append(Kept(s, I), s[n + 1])
<1> DEFINE J == I \cup {n + 1}
<1>1. PICK g : Keeps(g, s, I, Len(s)) /\ Kept(s, I) = g[Len(s)]
  BY KeptDef
<1>2. PICK h : Keeps(h, s, J, Len(s)) /\ Kept(s, J) = h[Len(s)]
  BY KeptDef
<1>3. g[n] = h[n]
  <2> DEFINE S == {m \in Nat : m <= n => g[m] = h[m]}
  <2>1. 0 \in S
    BY <1>1, <1>2, KeepsFirst
  <2>2. ASSUME NEW m \in Nat, m \in S PROVE m + 1 \in S
    <3>1. SUFFICES ASSUME NEW i \in 1..n, i = m + 1 PROVE g[i] = h[i]
      OBVIOUS
    <3>2. i \in 1..Len(s) /\ g[i - 1] = h[i - 1] /\ (i \in I <=> i \in J)
      BY <2>2, <3>1
    <3>3. g[i] = Extended(g[i - 1], s, I, i)
      BY <1>1, <3>2, KeepsNext
    <3>4. h[i] = Extended(h[i - 1], s, J, i)
      BY <1>2, <3>2, KeepsNext
    <3> QED
      BY <3>2, <3>3, <3>4 DEF Extended
  <2>3. \A m \in Nat : m \in S
    <3> HIDE DEF S
    <3> QED
      BY <2>1, <2>2, NatInd
  <2> QED
    BY <2>3
<1>4. g[n + 1] = g[n] /\ h[n + 1] = Append(h[n], s[n + 1])
  <2>1. PICK i \in 1..Len(s) : i = n + 1
    OBVIOUS
  <2>2. i \notin I /\ i \in J /\ i - 1 = n
    BY <2>1
  <2>3. g[i] = Extended(g[i - 1], s, I, i)
    BY <1>1, KeepsNext
  <2>4. h[i] = Extended(h[i - 1], s, J, i)
    BY <1>2, KeepsNext
  <2> QED
    BY <2>1, <2>2, <2>3, <2>4 DEF Extended
<1>5. g[Len(s)] = g[n + 1] /\ h[Len(s)] = h[n + 1]
  <2> DEFINE S == {m \in Nat : n + 1 + m <= Len(s) => g[n + 1 + m] = g[n + 1] /\ h[n + 1 + m] = h[n + 1]}
  <2>1. 0 \in S
    OBVIOUS
  <2>2. ASSUME NEW m \in Nat, m \in S PROVE m + 1 \in S
    <3>1. SUFFICES ASSUME NEW i \in 1..Len(s), i = n + 2 + m PROVE g[i] = g[n + 1] /\ h[i] = h[n + 1]
      OBVIOUS
    <3>2. g[i - 1] = g[n + 1] /\ h[i - 1] = h[n + 1] /\ i \notin I /\ i \notin J
      BY <2>2, <3>1
    <3>3. g[i] = Extended(g[i - 1], s, I, i)
      BY <1>1, KeepsNext
    <3>4. h[i] = Extended(h[i - 1], s, J, i)
      BY <1>2, KeepsNext
    <3> QED
      BY <3>2, <3>3, <3>4 DEF Extended
  <2>3. \A m \in Nat : m \in S
    <3> HIDE DEF S
    <3> QED
      BY <2>1, <2>2, NatInd
  <2>4. Len(s) - (n + 1) \in Nat /\ n + 1 + (Len(s) - (n + 1)) = Len(s)
    OBVIOUS
  <2> HIDE DEF S
  <2>5. Len(s) - (n + 1) \in S
    BY <2>3, <2>4
  <2> QED
    BY <2>4, <2>5 DEF S
<1> QED
  BY <1>1, <1>2, <1>3, <1>4, <1>5
-----------------------------------------------------------------------------
(* What a chunk may be. *)
Deltas == [part: {"content", "reasoning", "tool", "finish"}, index: Nat, id: Nat,
           piece: Calls \X Nat \X Nat \X Nat]

Bodies == {<<>>, Error} \cup {Answer(c) : c \in Calls} \cup
          {Body(<<Merge(cs)>>) : cs \in Seq(Deltas)}
Events == [event: {"llm_request", "llm_response"}, task: Segments, body: Bodies, of: Calls]

(* The parts of the answer to c: kind, choice, tool call and number of pieces. *)
PartKinds == {"content", "reasoning", "tool", "finish"}
Total(c, part, k) ==
    IF part = "content" THEN input[c].content
    ELSE IF part = "reasoning" THEN input[c].reasoning
    ELSE IF part = "tool" THEN input[c].tools[k] ELSE 1
Parts(c) ==
    {<<part, h, k, Total(c, part, k)>> :
        part \in PartKinds, h \in ChoiceNos(c), k \in {0} \cup DOMAIN input[c].tools}
Proper(p) == p[1] = "tool" <=> p[3] # 0

(* The pieces of a part in a stream, and its first n as the provider sends them. *)
Got(cs, p) == PiecesOf(cs, p[1], p[2], p[3])
Nth(c, p, i) == Delta(p[1], Index(p[3]), IF i = 1 THEN p[3] ELSE NoId, <<c, p[2], p[3], i>>)
First(c, p, n) == [i \in 1..n |-> Nth(c, p, i)]

(* However they are mixed, the pieces of each part are its first ones. *)
PartsInOrder ==
    \A c \in Calls : \A p \in Parts(c) :
        Proper(p) => \E n \in 0..p[4] : Got(sent[c], p) = First(c, p, n)

(* What is parsed of a part are some of them, in their order. *)
PartsThinned ==
    \A c \in Calls : \A p \in Parts(c) : Proper(p) =>
        \E I \in SUBSET (1..Len(Got(sent[c], p))) :
            Text(Got(chunks[c], p)) = Kept(Pieces(c, p[2], p[3], p[4]), I)

(* A tool call is known by its index, everything else by its part. *)
Marked(c, d) ==
    /\ d.piece[2] \in ChoiceNos(c)
    /\ \/ d.part = "tool" /\ d.piece[3] \in DOMAIN input[c].tools /\ d.index = Index(d.piece[3])
       \/ d.part # "tool" /\ d.piece[3] = 0
AllMarked == \A c \in Calls : /\ \A i \in DOMAIN sent[c] : Marked(c, sent[c][i])
                              /\ \A i \in DOMAIN chunks[c] : Marked(c, chunks[c][i])

(* All of a choice has come. *)
Complete(c, h) ==
    \A p \in Parts(c) : Proper(p) /\ p[1] # "finish" /\ p[2] = h => Got(sent[c], p) = First(c, p, p[4])
FinishIsLast ==
    \A c \in Calls : \A i \in DOMAIN sent[c] :
        sent[c][i].part = "finish" => Complete(c, sent[c][i].piece[2])

InFlight  == {"stream", "post", "postLeft"}
Asked(c) == \E j \in DOMAIN trace : Request(c, j)

(* Where a call is says what the trace has of it. *)
Route(c) ==
    /\ pc[c] \in InFlight => /\ Own([task |-> TaskId(c), of |-> c])
                             /\ capture.request => Asked(c)
    /\ pc[c] = "stream" => input[c].stream
    /\ pc[c] \in {"post", "postLeft"} => ~input[c].stream
    /\ pc[c] \in InFlight \cup {"new"} => Responses(c) = {}
    /\ pc[c] \in {"recorded", "answered"} /\ (input[c].stream \/ capture.response) =>
           Responses(c) # {}
    /\ pc[c] = "refused" => Len(input[c].task) # 1 \/ input[c].task = <<"">>
Routes == \A c \in Calls : Route(c)

Types == /\ input \in Inputs /\ TypeOK
         /\ sent \in [Calls -> Seq(Deltas)] /\ chunks \in [Calls -> Seq(Deltas)]
         /\ trace \in Seq(Events)

ProxyInv == /\ Types /\ PartsInOrder /\ PartsThinned /\ AllMarked /\ FinishIsLast
            /\ Routes /\ RecordsAreFaithful

LEMMA InputType == ASSUME NEW c \in Calls, input \in Inputs PROVE input[c] \in Input
BY CallAssumption

LEMMA PathType ==
  ASSUME NEW task \in Seq(Segments)
  PROVE  /\ UrlPath(task) \in Seq(Segments)
         /\ task = NoTask => Len(UrlPath(task)) = 1
         /\ task # NoTask => /\ Len(task) = Len(UrlPath(task)) - 2 /\ Len(task) > 0
                            /\ UrlPath(task)[1] = "tasks" /\ UrlPath(task)[2] = task[1]
<1>1. ASSUME NEW x \in Segments PROVE <<x>> \in Seq(Segments) /\ Len(<<x>>) = 1
  OBVIOUS
<1> "v1" \in Segments /\ "tasks" \in Segments
  BY CallAssumption
<1>2. CASE task = NoTask
  BY <1>1, <1>2 DEF UrlPath
<1>3. CASE task # NoTask
  <2> DEFINE front == <<"tasks">> \o task
             path  == front \o <<"v1">>
  <2>1. front \in Seq(Segments) /\ Len(front) = Len(task) + 1 /\ Len(task) > 0
    BY <1>1, <1>3 DEF NoTask
  <2>2. front[1] = "tasks" /\ front[2] = task[1]
    BY <1>1, <2>1
  <2>3. UrlPath(task) = path
    BY <1>3 DEF UrlPath
  <2> HIDE DEF front
  <2>4. path \in Seq(Segments) /\ Len(path) = Len(front) + 1 /\ path[1] = front[1] /\ path[2] = front[2]
    BY <1>1, <2>1
  <2> QED
    BY <1>3, <2>1, <2>2, <2>3, <2>4
<1> QED
  BY <1>2, <1>3

(* What has no route has a slash in its id, or none at all. *)
LEMMA OnlySlashesRefused ==
  ASSUME NEW task \in Seq(Segments), ~Routed(UrlPath(task)), Len(task) = 1
  PROVE  task = <<"">>
<1>1. task = <<task[1]>> /\ task # NoTask
  BY DEF NoTask
<1> PICK url : url = UrlPath(task)
  OBVIOUS
<1>2. url \in Seq(Segments) /\ Len(task) = Len(url) - 2 /\ url[1] = "tasks" /\ url[2] = task[1]
  BY <1>1, PathType
<1>3. Len(url) = 3
  <2>1. PICK n \in Nat : n = Len(url)
    BY <1>2
  <2>2. 1 = n - 2
    BY <1>2, <2>1
  <2>3. n = 3
    BY <2>2
  <2> QED
    BY <2>1, <2>3
<1>4. ~TaskRoute(url)
  BY DEF Routed
<1>5. task[1] = ""
  BY <1>2, <1>3, <1>4 DEF TaskRoute
<1> QED
  BY <1>1, <1>5

LEMMA TaskRouteType ==
  ASSUME NEW path \in Seq(Segments), TaskRoute(path)
  PROVE  Len(path) = 3 /\ path[2] \in Segments
<1>1. Len(path) = 3
  BY DEF TaskRoute
<1> QED
  BY <1>1

LEMMA TaskType == ASSUME NEW c \in Calls, input \in Inputs PROVE TaskId(c) \in Segments
<1> DEFINE url == UrlPath(input[c].task)
<1>1. url \in Seq(Segments)
  BY InputType, PathType DEF Input
<1>2. TaskId(c) = IF TaskRoute(url) THEN url[2] ELSE ""
  BY DEF TaskId, TaskIn
<1> HIDE DEF url
<1>3. TaskRoute(url) => url[2] \in Segments
  BY <1>1, TaskRouteType
<1> QED
  BY <1>2, <1>3, CallAssumption

(* A call that has a route is recorded under the task that makes it. *)
LEMMA RoutedOwn ==
  ASSUME NEW c \in Calls, input \in Inputs, Routed(UrlPath(input[c].task))
  PROVE  Own([task |-> TaskId(c), of |-> c])
<1> DEFINE task == input[c].task
           url  == UrlPath(task)
<1>1. task \in Seq(Segments) /\ url \in Seq(Segments)
  BY InputType, PathType DEF Input
<1>2. TaskId(c) = IF TaskRoute(url) THEN url[2] ELSE ""
  BY DEF TaskId, TaskIn
<1>3. Routed(url)
  OBVIOUS
<1>4. /\ task = NoTask => Len(url) = 1
      /\ task # NoTask => Len(task) = Len(url) - 2 /\ Len(task) > 0 /\ url[2] = task[1]
  BY <1>1, PathType
<1>5. SUFFICES IF task = NoTask THEN TaskId(c) = "" ELSE task = <<TaskId(c)>>
  BY DEF Own
<1> HIDE DEF task, url
<1>6. CASE task = NoTask
  <2>1. ~TaskRoute(url)
    BY <1>1, <1>4, <1>6, TaskRouteType
  <2> QED
    BY <1>2, <1>6, <2>1
<1>7. CASE task # NoTask
  <2>1. url # <<"v1">>
    BY <1>1, <1>4, <1>7
  <2>2. TaskRoute(url)
    BY <1>3, <2>1 DEF Routed
  <2>3. Len(task) = 1
    <3>1. Len(url) = 3
      BY <1>1, <2>2, TaskRouteType
    <3> QED
      BY <1>1, <1>4, <1>7, <3>1
  <2>4. task = <<task[1]>>
    BY <1>1, <2>3
  <2> QED
    BY <1>2, <1>4, <1>7, <2>2, <2>4
<1> QED
  BY <1>6, <1>7

LEMMA PartType ==
  ASSUME Types, NEW c \in Calls, NEW p \in Parts(c), Proper(p)
  PROVE  /\ p[1] \in PartKinds /\ p[2] \in ChoiceNos(c) /\ p[2] \in Nat /\ p[3] \in Nat /\ p[4] \in Nat
         /\ p[1] = "tool" => p[3] \in DOMAIN input[c].tools /\ p[3] # 0 /\ p[4] # 0
         /\ p[1] # "tool" => p[3] = 0
         /\ Index(p[3]) \in Nat
         /\ p = <<p[1], p[2], p[3], Total(c, p[1], p[3])>>
<1>1. input[c] \in Input
  BY InputType DEF Types
<1>2. PICK part \in PartKinds, h \in ChoiceNos(c), k \in {0} \cup DOMAIN input[c].tools :
          p = <<part, h, k, Total(c, part, k)>>
  BY DEF Parts
<1>3. h \in Nat /\ k \in Nat
  BY <1>1 DEF Input, ChoiceNos
<1>4. part = "tool" <=> k # 0
  BY <1>2 DEF Proper
<1>5. Total(c, part, k) \in Nat /\ (part = "tool" => Total(c, part, k) # 0)
  BY <1>1, <1>4 DEF Total, Input
<1>6. p[1] = part /\ p[2] = h /\ p[3] = k /\ p[4] = Total(c, part, k)
  BY <1>2
<1>7. Index(k) \in Nat
  BY <1>3 DEF Index
<1> QED
  BY <1>2, <1>3, <1>4, <1>5, <1>6, <1>7

LEMMA PartIs ==
  ASSUME NEW c \in Calls, NEW part \in PartKinds, NEW h \in ChoiceNos(c),
         NEW k \in {0} \cup DOMAIN input[c].tools, part = "tool" <=> k # 0
  PROVE  LET p == <<part, h, k, Total(c, part, k)>>
         IN  /\ p \in Parts(c) /\ Proper(p)
             /\ p[1] = part /\ p[2] = h /\ p[3] = k /\ p[4] = Total(c, part, k)
BY DEF Parts, Proper

LEMMA PiecesType ==
  ASSUME NEW cs \in Seq(Deltas), NEW p PROVE Got(cs, p) \in Seq(Deltas)
BY KeptType DEF Got, PiecesOf

LEMMA NthIs ==
  ASSUME NEW c \in Calls, NEW p, NEW i
  PROVE  /\ Nth(c, p, i).part = p[1] /\ Nth(c, p, i).index = Index(p[3])
         /\ Nth(c, p, i).id = IF i = 1 THEN p[3] ELSE NoId
         /\ Nth(c, p, i).piece = <<c, p[2], p[3], i>>
         /\ Nth(c, p, i).piece[2] = p[2] /\ Nth(c, p, i).piece[3] = p[3]
BY DEF Nth, Delta

(* What can come next belongs to a part and is the piece after those sent; *)
(* the finish reason is the last.                                          *)
LEMMA NextPartOf ==
  ASSUME Types, NEW c \in Calls, NEW d \in NextDeltas(c)
  PROVE  \E p \in Parts(c) : /\ Proper(p)
                             /\ Len(Got(sent[c], p)) + 1 \in 1..p[4]
                             /\ d = Nth(c, p, Len(Got(sent[c], p)) + 1)
                             /\ p[1] = "finish" => NextPieces(c, p[2]) = {}
<1>1. input[c] \in Input /\ sent[c] \in Seq(Deltas)
  BY InputType DEF Types
<1>2. ASSUME NEW part \in PartKinds, NEW h \in ChoiceNos(c), NEW k \in {0} \cup DOMAIN input[c].tools,
             part = "tool" <=> k # 0, d \in NextPart(c, h, k, part, Total(c, part, k)),
             part = "finish" => NextPieces(c, h) = {}
      PROVE  \E p \in Parts(c) : /\ Proper(p)
                                 /\ Len(Got(sent[c], p)) + 1 \in 1..p[4]
                                 /\ d = Nth(c, p, Len(Got(sent[c], p)) + 1)
                                 /\ p[1] = "finish" => NextPieces(c, p[2]) = {}
  <2> PICK p : p = <<part, h, k, Total(c, part, k)>>
    OBVIOUS
  <2>1. p \in Parts(c) /\ Proper(p) /\ p[1] = part /\ p[2] = h /\ p[3] = k /\ p[4] = Total(c, part, k)
    BY <1>2, PartIs
  <2>2. p[4] \in Nat
    BY <2>1, PartType
  <2>3. Len(Got(sent[c], p)) \in Nat
    BY <1>1, PiecesType
  <2>4. d \in NextPart(c, p[2], p[3], p[1], p[4])
    BY <1>2, <2>1
  <2>5. Len(Got(sent[c], p)) + 1 \in 1..p[4] /\ d = Nth(c, p, Len(Got(sent[c], p)) + 1)
    BY <2>2, <2>3, <2>4 DEF NextPart, Got, Nth
  <2> QED
    BY <1>2, <2>1, <2>5
<1>3. PICK h \in ChoiceNos(c) :
          d \in IF NextPieces(c, h) # {} THEN NextPieces(c, h) ELSE NextPart(c, h, 0, "finish", 1)
  BY DEF NextDeltas
<1>4. CASE NextPieces(c, h) # {}
  <2>1. CASE d \in NextPart(c, h, 0, "content", input[c].content)
    <3>1. Total(c, "content", 0) = input[c].content
      BY DEF Total
    <3> QED
      BY <1>2, <2>1, <3>1 DEF PartKinds
  <2>2. CASE d \in NextPart(c, h, 0, "reasoning", input[c].reasoning)
    <3>1. Total(c, "reasoning", 0) = input[c].reasoning
      BY DEF Total
    <3> QED
      BY <1>2, <2>2, <3>1 DEF PartKinds
  <2>3. ASSUME NEW k \in DOMAIN input[c].tools, d \in NextPart(c, h, k, "tool", input[c].tools[k])
        PROVE  \E p \in Parts(c) : /\ Proper(p)
                                   /\ Len(Got(sent[c], p)) + 1 \in 1..p[4]
                                   /\ d = Nth(c, p, Len(Got(sent[c], p)) + 1)
                                   /\ p[1] = "finish" => NextPieces(c, p[2]) = {}
    <3>1. Total(c, "tool", k) = input[c].tools[k] /\ k # 0
      BY <1>1 DEF Total, Input
    <3> QED
      BY <1>2, <2>3, <3>1 DEF PartKinds
  <2> QED
    BY <1>3, <1>4, <2>1, <2>2, <2>3 DEF NextPieces
<1>5. CASE NextPieces(c, h) = {}
  <2>1. Total(c, "finish", 0) = 1
    BY DEF Total
  <2> QED
    BY <1>2, <1>3, <1>5, <2>1 DEF PartKinds
<1> QED
  BY <1>4, <1>5

LEMMA NextType ==
  ASSUME Types, NEW c \in Calls, NEW d \in NextDeltas(c)
  PROVE  d \in Deltas /\ Marked(c, d)
<1>1. PICK p \in Parts(c), i \in Nat : Proper(p) /\ d = Nth(c, p, i)
  <2>1. PICK p \in Parts(c) : /\ Proper(p) /\ Len(Got(sent[c], p)) + 1 \in 1..p[4]
                              /\ d = Nth(c, p, Len(Got(sent[c], p)) + 1)
    BY NextPartOf
  <2> QED
    BY <2>1, PartType
<1>2. /\ p[1] \in PartKinds /\ p[2] \in ChoiceNos(c) /\ p[2] \in Nat /\ p[3] \in Nat /\ Index(p[3]) \in Nat
      /\ p[1] = "tool" => p[3] \in DOMAIN input[c].tools
      /\ p[1] # "tool" => p[3] = 0
  BY <1>1, PartType
<1>3. d \in Deltas
  <2>1. <<c, p[2], p[3], i>> \in Calls \X Nat \X Nat \X Nat
    BY <1>2
  <2> QED
    BY <1>1, <1>2, <2>1 DEF Nth, Delta, Deltas, NoId, PartKinds
<1> QED
  BY <1>1, <1>2, <1>3, NthIs DEF Marked

LEMMA PiecesAppend ==
  ASSUME NEW cs \in Seq(Deltas), NEW d \in Deltas, NEW p
  PROVE  Got(Append(cs, d), p) =
            IF d.part = p[1] /\ d.piece[2] = p[2] /\ d.piece[3] = p[3] THEN Append(Got(cs, p), d)
            ELSE Got(cs, p)
<1> DEFINE Is(e) == e.part = p[1] /\ e.piece[2] = p[2] /\ e.piece[3] = p[3]
           t == Append(cs, d)
           I == {i \in DOMAIN cs : Is(cs[i])}
           J == {i \in DOMAIN t : Is(t[i])}
<1>1. \A i \in 1..Len(cs) : i \in I <=> i \in J
  OBVIOUS
<1>2. Len(cs) + 1 \in J <=> Is(d)
  OBVIOUS
<1>3. Got(cs, p) = Kept(cs, I) /\ Got(t, p) = Kept(t, J)
  BY DEF Got, PiecesOf
<1> HIDE DEF I, J
<1>4. Kept(t, J) = IF Len(cs) + 1 \in J THEN Append(Kept(cs, I), d) ELSE Kept(cs, I)
  BY <1>1, KeptAppend
<1> QED
  BY <1>2, <1>3, <1>4

LEMMA FirstAppend ==
  ASSUME NEW c, NEW p, NEW n \in Nat
  PROVE  Append(First(c, p, n), Nth(c, p, n + 1)) = First(c, p, n + 1)
BY DEF First

LEMMA FirstLen == ASSUME NEW c, NEW p, NEW n \in Nat PROVE Len(First(c, p, n)) = n
BY DEF First

LEMMA NothingLeft ==
  ASSUME Types, PartsInOrder, NEW c \in Calls, NEW h \in ChoiceNos(c), NextPieces(c, h) = {}
  PROVE  Complete(c, h)
<1>1. SUFFICES ASSUME NEW p \in Parts(c), Proper(p), p[1] # "finish", p[2] = h
               PROVE  Got(sent[c], p) = First(c, p, p[4])
  BY DEF Complete
<1>2. PICK n \in 0..p[4] : Got(sent[c], p) = First(c, p, n)
  BY <1>1 DEF PartsInOrder
<1>3. /\ p[4] \in Nat /\ n \in Nat /\ p[1] \in PartKinds
      /\ p[1] = "tool" => p[3] \in DOMAIN input[c].tools
      /\ p[1] # "tool" => p[3] = 0
      /\ p[4] = Total(c, p[1], p[3])
  BY <1>1, PartType
<1>4. NextPart(c, h, p[3], p[1], p[4]) = {}
  <2>1. CASE p[1] = "content"
    BY <1>3, <2>1 DEF NextPieces, Total
  <2>2. CASE p[1] = "reasoning"
    BY <1>3, <2>2 DEF NextPieces, Total
  <2>3. CASE p[1] = "tool"
    BY <1>3, <2>3 DEF NextPieces, Total
  <2> QED
    BY <1>1, <1>3, <2>1, <2>2, <2>3 DEF PartKinds
<1>5. Len(Got(sent[c], p)) = n
  BY <1>2, <1>3, FirstLen
<1>6. n + 1 > p[4]
  BY <1>1, <1>3, <1>4, <1>5 DEF NextPart, Got
<1> QED
  BY <1>2, <1>3, <1>6

-----------------------------------------------------------------------------
(* Merging, for a call that asks for one answer. *)
LEMMA OneChoice ==
  ASSUME NEW c \in Calls, Apart(c)
  PROVE  ChoiceNos(c) = {1}
BY DEF Apart, ChoiceNos

(* The text of a message, or the reasoning before it, is one part. *)
LEMMA TextIsPart ==
  ASSUME NEW c \in Calls, NEW cs \in Seq(Deltas), \A i \in DOMAIN cs : Marked(c, cs[i]),
         ChoiceNos(c) = {1}, NEW p \in Parts(c), p[1] # "tool", p[2] = 1, p[3] = 0
  PROVE  Of(cs, p[1]) = Got(cs, p)
<1> DEFINE I == {i \in DOMAIN cs : cs[i].part = p[1]}
           J == {i \in DOMAIN cs : cs[i].part = p[1] /\ cs[i].piece[2] = p[2] /\ cs[i].piece[3] = p[3]}
<1>1. \A i \in 1..Len(cs) : i \in I <=> i \in J
  BY DEF Marked
<1>2. Of(cs, p[1]) = Kept(cs, I) /\ Got(cs, p) = Kept(cs, J)
  BY DEF Of, Got, PiecesOf
<1> HIDE DEF I, J
<1>3. Kept(cs, I) = Kept(cs, J)
  BY <1>1, KeptSame
<1> QED
  BY <1>2, <1>3

LEMMA TextOfFirst ==
  ASSUME NEW c \in Calls, NEW p, NEW n \in Nat
  PROVE  Text(First(c, p, n)) = Pieces(c, p[2], p[3], n)
<1>1. DOMAIN First(c, p, n) = 1..n /\ \A i \in 1..n : First(c, p, n)[i].piece = <<c, p[2], p[3], i>>
  BY NthIs DEF First
<1> QED
  BY <1>1 DEF Text, Pieces

(* The pieces of one tool call, with its id from the first of them. *)
LEMMA ToolMerged ==
  ASSUME NEW c \in Calls, NEW p, p[3] \in Nat \ {0}, NEW n \in Nat \ {0}
  PROVE  Tool(First(c, p, n)) = [id |-> p[3], arguments |-> Pieces(c, p[2], p[3], n)]
<1> DEFINE ds == First(c, p, n)
<1>1. DOMAIN ds = 1..n
  BY DEF First
<1>2. \A i \in 1..n : ds[i].id = IF i = 1 THEN p[3] ELSE NoId
  BY NthIs DEF First
<1>3. Text(ds) = Pieces(c, p[2], p[3], n)
  BY TextOfFirst
<1> HIDE DEF ds
<1>4. {i \in DOMAIN ds : ds[i].id # NoId} = {1}
  BY <1>1, <1>2 DEF NoId
<1>5. Max({1}) = 1
  BY DEF Max
<1>6. IdOf(ds) = p[3]
  BY <1>2, <1>4, <1>5 DEF IdOf
<1> QED
  BY <1>3, <1>6 DEF Tool, ds

(* The numbers of the tool calls are their positions. *)
LEMMA Ordered == ASSUME NEW n \in Nat PROVE InOrder(1..n) = [k \in 1..n |-> k]
<1>1. Cardinality(1..n) = n
  BY FS_Interval
<1>2. ASSUME NEW m \in 1..n PROVE (CHOOSE k \in 1..n : Cardinality({j \in 1..n : j <= k}) = m) = m
  <2>1. ASSUME NEW k \in 1..n PROVE Cardinality({j \in 1..n : j <= k}) = k
    <3>1. {j \in 1..n : j <= k} = 1..k
      OBVIOUS
    <3>2. Cardinality(1..k) = k
      BY FS_Interval
    <3> QED
      BY <3>1, <3>2
  <2> QED
    BY <2>1
<1> QED
  BY <1>1, <1>2 DEF InOrder

LEMMA OrderedOne == InOrder({0}) = [k \in 1..1 |-> 0]
<1>1. Cardinality({0}) = 1
  BY FS_Singleton
<1>2. {j \in {0} : j <= 0} = {0}
  OBVIOUS
<1> QED
  BY <1>1, <1>2 DEF InOrder

(* Each tool call gets the pieces that carry its index, if they can be told apart. *)
LEMMA ToolIsPart ==
  ASSUME Types, NEW c \in Calls, NEW cs \in Seq(Deltas), \A i \in DOMAIN cs : Marked(c, cs[i]),
         Apart(c), NEW k \in DOMAIN input[c].tools
  PROVE  LET p == <<"tool", 1, k, Total(c, "tool", k)>>
         IN  /\ OfTool(cs, Index(k)) = Got(cs, p)
             /\ Got(cs, p) # <<>> => Index(k) \in ToolIndices(cs)
<1> DEFINE I == {i \in DOMAIN cs : ToolAt(cs, i) /\ cs[i].index = Index(k)}
           J == {i \in DOMAIN cs : cs[i].part = "tool" /\ cs[i].piece[2] = 1 /\ cs[i].piece[3] = k}
<1>1. input[c] \in Input /\ ChoiceNos(c) = {1}
  BY InputType, OneChoice DEF Types
<1>2. \A j \in DOMAIN input[c].tools : Index(j) = Index(k) => j = k
  BY <1>1 DEF Apart, Index, Input
<1>3. \A i \in 1..Len(cs) : i \in I <=> i \in J
  BY <1>1, <1>2 DEF Marked, ToolAt
<1>4. /\ OfTool(cs, Index(k)) = Kept(cs, I)
      /\ Got(cs, <<"tool", 1, k, Total(c, "tool", k)>>) = Kept(cs, J)
  BY DEF OfTool, Got, PiecesOf
<1>5. (\E i \in 1..Len(cs) : i \in I) => Index(k) \in ToolIndices(cs)
  BY DEF ToolIndices
<1> HIDE DEF I, J
<1>6. Kept(cs, I) = Kept(cs, J)
  BY <1>3, KeptSame
<1>7. Kept(cs, J) # <<>> => \E i \in 1..Len(cs) : i \in J
  BY KeptNothing
<1> QED
  BY <1>3, <1>4, <1>5, <1>6, <1>7

LEMMA ToolChunks ==
  ASSUME Types, AllMarked, NEW c \in Calls, Complete(c, 1), Apart(c),
         NEW k \in DOMAIN input[c].tools
  PROVE  /\ Tool(OfTool(sent[c], Index(k)))
                = [id |-> k, arguments |-> Pieces(c, 1, k, input[c].tools[k])]
         /\ Index(k) \in ToolIndices(sent[c])
<1> PICK p : p = <<"tool", 1, k, Total(c, "tool", k)>>
  OBVIOUS
<1>1. input[c] \in Input /\ ChoiceNos(c) = {1} /\ sent[c] \in Seq(Deltas)
  BY InputType, OneChoice DEF Types
<1>2. k \in Nat \ {0} /\ input[c].tools[k] \in Nat \ {0} /\ Total(c, "tool", k) = input[c].tools[k]
  BY <1>1 DEF Input, Total
<1>3. p \in Parts(c) /\ Proper(p) /\ p[1] = "tool" /\ p[2] = 1 /\ p[3] = k /\ p[4] = input[c].tools[k]
  BY <1>1, <1>2, PartIs DEF PartKinds
<1>4. Got(sent[c], p) = First(c, p, input[c].tools[k])
  BY <1>3 DEF Complete
<1>5. \A i \in DOMAIN sent[c] : Marked(c, sent[c][i])
  BY DEF AllMarked
<1>6. OfTool(sent[c], Index(k)) = Got(sent[c], p)
      /\ (Got(sent[c], p) # <<>> => Index(k) \in ToolIndices(sent[c]))
  BY <1>1, <1>5, ToolIsPart
<1>7. Got(sent[c], p) # <<>>
  <2>1. Len(First(c, p, input[c].tools[k])) = input[c].tools[k]
    BY <1>2, FirstLen
  <2> QED
    BY <1>2, <1>4, <2>1
<1>8. Tool(First(c, p, input[c].tools[k])) = [id |-> p[3], arguments |-> Pieces(c, p[2], p[3], input[c].tools[k])]
  BY <1>2, <1>3, ToolMerged
<1> QED
  BY <1>3, <1>4, <1>6, <1>7, <1>8

LEMMA IndicesInOrder ==
  ASSUME Types, AllMarked, NEW c \in Calls, Complete(c, 1), Apart(c)
  PROVE  InOrder(ToolIndices(sent[c])) = [k \in DOMAIN input[c].tools |-> Index(k)]
<1> DEFINE cs == sent[c]
           K  == Len(input[c].tools)
<1>1. cs \in Seq(Deltas) /\ K \in Nat /\ DOMAIN input[c].tools = 1..K
  BY InputType DEF Types, Input
<1>2. ToolIndices(cs) = {Index(k) : k \in 1..K}
  <2>1. \A k \in 1..K : Index(k) \in ToolIndices(cs)
    BY <1>1, ToolChunks
  <2>2. \A i \in DOMAIN cs : ToolAt(cs, i) => \E k \in 1..K : cs[i].index = Index(k)
    BY <1>1 DEF AllMarked, Marked, ToolAt
  <2> QED
    BY <2>1, <2>2 DEF ToolIndices
<1> HIDE DEF cs
<1>3. CASE "index" \notin faults
  <2>1. \A k \in 1..K : Index(k) = k
    BY <1>3 DEF Index
  <2>2. ToolIndices(cs) = 1..K
    BY <1>2, <2>1
  <2>3. InOrder(1..K) = [k \in 1..K |-> k]
    BY <1>1, Ordered
  <2> QED
    BY <1>1, <2>1, <2>2, <2>3 DEF cs
<1>4. CASE K = 0
  <2>1. ToolIndices(cs) = 1..0 /\ 1..0 = {}
    BY <1>2, <1>4
  <2>2. InOrder(1..0) = [k \in 1..0 |-> k]
    BY Ordered
  <2> QED
    BY <1>1, <1>4, <2>1, <2>2 DEF cs
<1>5. CASE "index" \in faults /\ K = 1
  <2>1. \A k \in 1..K : Index(k) = 0
    BY <1>5 DEF Index
  <2>2. ToolIndices(cs) = {0}
    BY <1>2, <1>5, <2>1
  <2> QED
    BY <1>1, <1>5, <2>1, <2>2, OrderedOne DEF cs
<1>6. "index" \notin faults \/ K = 0 \/ K = 1
  <2>1. "index" \notin faults \/ K <= 1
    BY DEF Apart
  <2>2. K \in Nat
    BY <1>1
  <2> HIDE DEF K
  <2> QED
    BY <2>1, <2>2
<1> QED
  BY <1>3, <1>4, <1>5, <1>6

(* What is merged from all the chunks of an answer is the message. *)
LEMMA Merged ==
  ASSUME Types, AllMarked, NEW c \in Calls, Complete(c, 1), Apart(c), Finished(sent[c])
  PROVE  Merge(sent[c]) = Message(c, 1)
<1> DEFINE tools == input[c].tools
           indices == InOrder(ToolIndices(sent[c]))
<1>1. ChoiceNos(c) = {1} /\ sent[c] \in Seq(Deltas) /\ \A i \in DOMAIN sent[c] : Marked(c, sent[c][i])
  BY OneChoice DEF AllMarked, Types
<1>2. ASSUME NEW part \in {"content", "reasoning"}
      PROVE  Text(Of(sent[c], part)) = Pieces(c, 1, 0, Total(c, part, 0))
  <2> PICK p : p = <<part, 1, 0, Total(c, part, 0)>>
    OBVIOUS
  <2>1. p \in Parts(c) /\ Proper(p) /\ p[1] = part /\ p[2] = 1 /\ p[3] = 0 /\ p[4] = Total(c, part, 0)
    BY <1>1, PartIs DEF PartKinds
  <2>2. Of(sent[c], part) = Got(sent[c], p)
    BY <1>1, <2>1, TextIsPart
  <2>3. Got(sent[c], p) = First(c, p, p[4]) /\ p[4] \in Nat
    BY <2>1, PartType DEF Complete
  <2> QED
    BY <2>1, <2>2, <2>3, TextOfFirst
<1>3. /\ Text(Of(sent[c], "content")) = Pieces(c, 1, 0, input[c].content)
      /\ Text(Of(sent[c], "reasoning")) = Pieces(c, 1, 0, input[c].reasoning)
  BY <1>2 DEF Total
<1>4. indices = [k \in DOMAIN tools |-> Index(k)]
  BY IndicesInOrder
<1>5. \A k \in DOMAIN tools :
          Tool(OfTool(sent[c], Index(k))) = [id |-> k, arguments |-> Pieces(c, 1, k, tools[k])]
  BY ToolChunks
<1> HIDE DEF indices
<1>6. [k \in DOMAIN indices |-> Tool(OfTool(sent[c], indices[k]))]
          = [k \in DOMAIN tools |-> [id |-> k, arguments |-> Pieces(c, 1, k, tools[k])]]
  BY <1>4, <1>5
<1> QED
  BY <1>3, <1>6 DEF Merge, Message, indices

(* What is merged from whatever was parsed has the pieces in their order. *)
LEMMA MergedThinned ==
  ASSUME Types, AllMarked, PartsInOrder, PartsThinned, NEW c \in Calls, Apart(c)
  PROVE  LET m == Merge(chunks[c])
             whole == Message(c, 1)
         IN  /\ Thinned(m.content, whole.content) /\ Thinned(m.reasoning, whole.reasoning)
             /\ \A t \in DOMAIN m.tools : \E k \in DOMAIN whole.tools :
                    Thinned(m.tools[t].arguments, whole.tools[k].arguments)
<1>1. /\ ChoiceNos(c) = {1} /\ chunks[c] \in Seq(Deltas) /\ sent[c] \in Seq(Deltas) /\ input[c] \in Input
      /\ \A i \in DOMAIN chunks[c] : Marked(c, chunks[c][i])
  BY OneChoice, InputType DEF AllMarked, Types
<1>2. ASSUME NEW p \in Parts(c), Proper(p)
      PROVE  Thinned(Text(Got(chunks[c], p)), Pieces(c, p[2], p[3], p[4]))
  <2>1. PICK I \in SUBSET (1..Len(Got(sent[c], p))) :
            Text(Got(chunks[c], p)) = Kept(Pieces(c, p[2], p[3], p[4]), I)
    BY <1>2 DEF PartsThinned
  <2>2. PICK n \in 0..p[4] : Got(sent[c], p) = First(c, p, n)
    BY <1>2 DEF PartsInOrder
  <2>3. p[4] \in Nat /\ Len(Got(sent[c], p)) = n
    BY <1>2, <2>2, PartType, FirstLen
  <2>4. I \in SUBSET DOMAIN Pieces(c, p[2], p[3], p[4])
    BY <2>3 DEF Pieces
  <2> QED
    BY <2>1, <2>4 DEF Thinned
<1>3. ASSUME NEW part \in {"content", "reasoning"}
      PROVE  Thinned(Text(Of(chunks[c], part)), Pieces(c, 1, 0, Total(c, part, 0)))
  <2> PICK p : p = <<part, 1, 0, Total(c, part, 0)>>
    OBVIOUS
  <2>1. p \in Parts(c) /\ Proper(p) /\ p[1] = part /\ p[2] = 1 /\ p[3] = 0 /\ p[4] = Total(c, part, 0)
    BY <1>1, PartIs DEF PartKinds
  <2>2. Of(chunks[c], part) = Got(chunks[c], p)
    BY <1>1, <2>1, TextIsPart
  <2>3. Thinned(Text(Got(chunks[c], p)), Pieces(c, p[2], p[3], p[4]))
    BY <1>2, <2>1
  <2> QED
    BY <2>1, <2>2, <2>3
<1>4. ASSUME NEW k \in DOMAIN input[c].tools
      PROVE  Thinned(Text(OfTool(chunks[c], Index(k))), Pieces(c, 1, k, input[c].tools[k]))
  <2> PICK p : p = <<"tool", 1, k, Total(c, "tool", k)>>
    OBVIOUS
  <2>1. k # 0 /\ Total(c, "tool", k) = input[c].tools[k]
    BY <1>1 DEF Input, Total
  <2>2. p \in Parts(c) /\ Proper(p) /\ p[2] = 1 /\ p[3] = k /\ p[4] = input[c].tools[k]
    BY <1>1, <2>1, PartIs DEF PartKinds
  <2>3. OfTool(chunks[c], Index(k)) = Got(chunks[c], p)
    BY <1>1, ToolIsPart
  <2>4. Thinned(Text(Got(chunks[c], p)), Pieces(c, p[2], p[3], p[4]))
    BY <1>2, <2>2
  <2> QED
    BY <2>2, <2>3, <2>4
<1> DEFINE cs == chunks[c]
           indices == InOrder(ToolIndices(cs))
<1>5. ASSUME NEW t \in DOMAIN indices
      PROVE  \E k \in DOMAIN input[c].tools :
                 Thinned(Text(OfTool(cs, indices[t])), Pieces(c, 1, k, input[c].tools[k]))
  <2>1. CASE \E k \in DOMAIN input[c].tools : indices[t] = Index(k)
    BY <1>4, <2>1
  <2>2. CASE \A k \in DOMAIN input[c].tools : indices[t] # Index(k)
    <3>1. \A i \in DOMAIN cs : ~(ToolAt(cs, i) /\ cs[i].index = indices[t])
      BY <1>1, <2>2 DEF Marked, ToolAt
    <3>2. OfTool(cs, indices[t]) = <<>>
      <4> DEFINE I == {i \in DOMAIN cs : ToolAt(cs, i) /\ cs[i].index = indices[t]}
      <4>1. \A i \in 1..Len(cs) : i \notin I
        BY <3>1
      <4>2. OfTool(cs, indices[t]) = Kept(cs, I)
        BY DEF OfTool
      <4> HIDE DEF I, cs
      <4>3. cs \in Seq(Deltas)
        BY <1>1 DEF cs
      <4> QED
        BY <4>1, <4>2, <4>3, KeptNothing
    <3>3. PICK k \in DOMAIN input[c].tools : TRUE
      <4>1. SUFFICES ASSUME DOMAIN input[c].tools = {} PROVE FALSE
        OBVIOUS
      <4>2. ToolIndices(cs) = {}
        BY <1>1, <4>1 DEF ToolIndices, Marked, ToolAt
      <4>3. DOMAIN indices = 1..Cardinality({})
        BY <4>2 DEF InOrder
      <4> QED
        BY <1>5, <4>3, FS_EmptySet
    <3>4. Text(OfTool(cs, indices[t])) = <<>>
      BY <3>2 DEF Text
    <3>5. Kept(Pieces(c, 1, k, input[c].tools[k]), {}) = <<>>
      <4>1. PICK n \in Nat : n = input[c].tools[k]
        BY <1>1 DEF Input
      <4>2. Pieces(c, 1, k, n) \in Seq({<<c, 1, k, i>> : i \in 1..n})
        BY DEF Pieces
      <4> QED
        BY <4>1, <4>2, KeptNothing
    <3> QED
      BY <3>4, <3>5 DEF Thinned
  <2> QED
    BY <2>1, <2>2
<1> DEFINE m == Merge(cs)
           whole == Message(c, 1)
<1>6. /\ m.content = Text(Of(cs, "content")) /\ m.reasoning = Text(Of(cs, "reasoning"))
      /\ DOMAIN m.tools = DOMAIN indices
      /\ \A t \in DOMAIN indices : m.tools[t].arguments = Text(OfTool(cs, indices[t]))
  BY DEF Merge, Tool
<1>7. /\ whole.content = Pieces(c, 1, 0, Total(c, "content", 0))
      /\ whole.reasoning = Pieces(c, 1, 0, Total(c, "reasoning", 0))
      /\ DOMAIN whole.tools = DOMAIN input[c].tools
      /\ \A k \in DOMAIN input[c].tools : whole.tools[k].arguments = Pieces(c, 1, k, input[c].tools[k])
  BY DEF Message, Total
<1> HIDE DEF m, whole, indices
<1>8. Thinned(m.content, whole.content) /\ Thinned(m.reasoning, whole.reasoning)
  BY <1>3, <1>6, <1>7
<1>9. \A t \in DOMAIN m.tools : \E k \in DOMAIN whole.tools :
          Thinned(m.tools[t].arguments, whole.tools[k].arguments)
  BY <1>5, <1>6, <1>7
<1> QED
  BY <1>8, <1>9 DEF m, whole

-----------------------------------------------------------------------------
LEMMA InitTypes == Init => Types
<1>1. ASSUME Init PROVE Types
  <2>1. sent \in [Calls -> Seq(Deltas)] /\ chunks \in [Calls -> Seq(Deltas)]
    BY <1>1 DEF Init
  <2>2. trace \in Seq(Events)
    BY <1>1 DEF Init
  <2>3. DOMAIN trace = {}
    BY <1>1 DEF Init
  <2>4. TypeOK
    BY <1>1, <2>3, CallAssumption DEF Init, TypeOK
  <2> QED
    BY <1>1, <2>1, <2>2, <2>4 DEF Init, Types
<1> QED
  BY <1>1

LEMMA RecordType ==
  ASSUME Types, NEW c \in Calls, NEW event \in {"llm_request", "llm_response"}, NEW body \in Bodies,
         Record(event, c, body)
  PROVE  /\ trace' \in Seq(Events) /\ Len(trace') = Len(trace) + 1
         /\ \A i \in DOMAIN trace : trace'[i] = trace[i]
         /\ LET e == trace'[Len(trace) + 1]
            IN  e.event = event /\ e.task = TaskId(c) /\ e.of = c /\ e.body = body
<1> DEFINE e == [event |-> event, task |-> TaskId(c), body |-> body, of |-> c]
<1>1. e \in Events
  BY TaskType DEF Events, Types
<1>2. trace \in Seq(Events) /\ trace' = Append(trace, e)
  BY DEF Types, Record
<1>3. e.event = event /\ e.task = TaskId(c) /\ e.of = c /\ e.body = body
  OBVIOUS
<1> HIDE DEF e
<1> QED
  BY <1>1, <1>2, <1>3

LEMMA TraceType ==
  ASSUME NEW t \in Seq(Events)
  PROVE  \A i \in DOMAIN t : /\ t[i].event \in {"llm_request", "llm_response"}
                             /\ t[i].task \in Segments /\ t[i].of \in Calls
<1>1. \A i \in DOMAIN t : t[i] \in Events
  OBVIOUS
<1> QED
  BY <1>1 DEF Events

Statuses == {"new", "stream", "post", "postLeft", "recorded", "answered", "left", "failed", "refused"}

LEMMA TypesStep == ASSUME Types, [Next]_vars PROVE Types'
<1> DEFINE Rest == /\ input' = input /\ faults' \in SUBSET FaultKinds
                   /\ capture' \in [request: BOOLEAN, response: BOOLEAN] /\ up' \in BOOLEAN
<1>1. /\ pc \in [Calls -> Statuses] /\ trace \in Seq(Events)
      /\ sent \in [Calls -> Seq(Deltas)] /\ chunks \in [Calls -> Seq(Deltas)]
  BY DEF Types, TypeOK, Statuses
<1>2. SUFFICES /\ Rest /\ pc' \in [Calls -> Statuses]
               /\ sent' \in [Calls -> Seq(Deltas)] /\ chunks' \in [Calls -> Seq(Deltas)]
             /\ trace' \in Seq(Events)
  <2>1. trace' \in Seq(Events) =>
            \A i \in DOMAIN trace' : /\ trace'[i].event \in {"llm_request", "llm_response"}
                                     /\ trace'[i].task \in Segments /\ trace'[i].of \in Calls
    BY TraceType
  <2>2. TypeOK'
    BY Zenon, <2>1 DEF TypeOK, Statuses
  <2>3. input' \in Inputs
    BY DEF Types
  <2>4. Events' = Events
    BY DEF Events, Bodies, Answer, Message, ChoiceNos
  <2> QED
    BY <2>2, <2>3, <2>4 DEF Types
<1>3. ASSUME NEW c \in Calls, Step(c)
      PROVE  /\ Rest /\ pc' \in [Calls -> Statuses]
             /\ sent' \in [Calls -> Seq(Deltas)] /\ chunks' \in [Calls -> Seq(Deltas)]
             /\ trace' \in Seq(Events)
  <2>1. CASE Ask(c)
    <3>1. trace' \in Seq(Events)
      <4>1. CASE UNCHANGED trace
        BY <1>1, <4>1
      <4>2. CASE Record("llm_request", c, <<>>)
        BY <4>2, RecordType DEF Bodies
      <4> QED
        BY <2>1, <4>1, <4>2 DEF Ask
    <3> QED
      BY <1>1, <2>1, <3>1 DEF Ask, Goto, given, streams, Types, TypeOK, Statuses
  <2>2. CASE Chunk(c)
    <3>1. PICK d \in NextDeltas(c) :
              /\ sent' = [sent EXCEPT ![c] = Append(@, d)]
              /\ chunks' = [chunks EXCEPT ![c] = Append(@, d)] \/ UNCHANGED chunks
      BY <2>2 DEF Chunk
    <3>2. d \in Deltas
      BY <3>1, NextType
    <3>3. sent' \in [Calls -> Seq(Deltas)]
      BY <1>1, <3>1, <3>2
    <3>4. [chunks EXCEPT ![c] = Append(@, d)] \in [Calls -> Seq(Deltas)]
      BY <1>1, <3>2
    <3>5. chunks' \in [Calls -> Seq(Deltas)]
      BY <1>1, <3>1, <3>4
    <3> QED
      BY <1>1, <2>2, <3>3, <3>5 DEF Chunk, given, Types, TypeOK
  <2>3. CASE RecordStream(c)
    <3>1. Body(<<Merge(chunks[c])>>) \in Bodies
      BY <1>1 DEF Bodies
    <3>2. trace' \in Seq(Events)
      BY <2>3, <3>1, RecordType DEF RecordStream
    <3> QED
      BY <1>1, <2>3, <3>2 DEF RecordStream, Goto, given, streams, Types, TypeOK, Statuses
  <2>4. CASE RecordPost(c)
    <3>1. PICK body \in Bodies : Record("llm_response", c, body) \/ UNCHANGED trace
      BY <2>4 DEF RecordPost, Bodies
    <3>2. trace' \in Seq(Events)
      <4>1. CASE UNCHANGED trace
        BY <1>1, <4>1
      <4>2. CASE Record("llm_response", c, body)
        BY <4>2, RecordType
      <4> QED
        BY <3>1, <4>1, <4>2
    <3> QED
      BY <1>1, <2>4, <3>2 DEF RecordPost, Goto, given, streams, Types, TypeOK, Statuses
  <2>5. CASE StreamEnds(c) \/ PostRaises(c) \/ Respond(c) \/ Leave(c) \/ Dies(c)
    BY <1>1, <2>5 DEF StreamEnds, PostRaises, Respond, Leave, Dies, Goto, given, streams, Types,
       TypeOK,
       Statuses
  <2> QED
    BY <1>3, <2>1, <2>2, <2>3, <2>4, <2>5 DEF Step
<1>4. CASE Stop
  BY <1>1, <1>4 DEF Stop, given, streams, Types, TypeOK
<1>5. CASE UNCHANGED vars
  BY <1>1, <1>5 DEF vars, Types, TypeOK
<1> QED
  BY <1>3, <1>4, <1>5 DEF Next

-----------------------------------------------------------------------------
LEMMA Fixed ==
  ASSUME Types, [Next]_vars
  PROVE  /\ input' = input /\ faults' = faults /\ capture' = capture
         /\ UNCHANGED <<sent, chunks>> \/ \E c \in Calls : Chunk(c)
BY DEF Next, Step, Ask, Chunk, RecordStream, StreamEnds, RecordPost, PostRaises, Respond,
   Leave,
   Dies, Stop, given, streams, vars

LEMMA SameParts ==
  ASSUME input' = input, faults' = faults, NEW c
  PROVE  /\ Parts(c)' = Parts(c) /\ ChoiceNos(c)' = ChoiceNos(c)
         /\ \A p, n : First(c, p, n)' = First(c, p, n)
         /\ \A d : Marked(c, d)' <=> Marked(c, d)
BY DEF Parts, Total, First, Nth, Index, Marked, ChoiceNos

(* A line of the stream adds the next piece of a part, which is parsed or not. *)
LEMMA ChunkAdds ==
  ASSUME Types, NEW c \in Calls, Chunk(c)
  PROVE  \E d \in Deltas :
            /\ sent'[c] = Append(sent[c], d)
            /\ chunks'[c] = Append(chunks[c], d) \/ chunks'[c] = chunks[c]
            /\ \A b \in Calls \ {c} : sent'[b] = sent[b] /\ chunks'[b] = chunks[b]
            /\ d \in NextDeltas(c) /\ Marked(c, d)
<1>1. PICK d \in NextDeltas(c) :
          /\ sent' = [sent EXCEPT ![c] = Append(@, d)]
          /\ chunks' = [chunks EXCEPT ![c] = Append(@, d)] \/ UNCHANGED chunks
  BY DEF Chunk
<1>2. /\ sent'[c] = Append(sent[c], d)
      /\ \A b \in Calls \ {c} : sent'[b] = sent[b]
  BY <1>1 DEF Types
<1>3. /\ chunks'[c] = Append(chunks[c], d) \/ chunks'[c] = chunks[c]
      /\ \A b \in Calls \ {c} : chunks'[b] = chunks[b]
  BY <1>1 DEF Types
<1> QED
  BY <1>1, <1>2, <1>3, NextType

(* Two parts do not have a piece in common. *)
LEMMA PartKnown ==
  ASSUME Types, NEW c \in Calls, NEW p \in Parts(c), NEW q \in Parts(c), Proper(p), Proper(q),
         p[1] = q[1], p[2] = q[2], p[3] = q[3]
  PROVE  p = q
<1>1. p = <<p[1], p[2], p[3], Total(c, p[1], p[3])>>
  BY PartType
<1>2. q = <<q[1], q[2], q[3], Total(c, q[1], q[3])>>
  BY PartType
<1> QED
  BY <1>1, <1>2

(* What comes adds the next piece to one part, and leaves the others. *)
LEMMA PartAdds ==
  ASSUME Types, NEW c \in Calls, NEW d \in NextDeltas(c), NEW p \in Parts(c), Proper(p)
  PROVE  \/ d.part = p[1] /\ d.piece[2] = p[2] /\ d.piece[3] = p[3]
            /\ Len(Got(sent[c], p)) + 1 \in 1..p[4] /\ d = Nth(c, p, Len(Got(sent[c], p)) + 1)
         \/ ~(d.part = p[1] /\ d.piece[2] = p[2] /\ d.piece[3] = p[3])
<1>1. SUFFICES ASSUME d.part = p[1], d.piece[2] = p[2], d.piece[3] = p[3]
               PROVE  Len(Got(sent[c], p)) + 1 \in 1..p[4] /\ d = Nth(c, p, Len(Got(sent[c], p)) + 1)
  OBVIOUS
<1>2. PICK q \in Parts(c) : /\ Proper(q) /\ Len(Got(sent[c], q)) + 1 \in 1..q[4]
                            /\ d = Nth(c, q, Len(Got(sent[c], q)) + 1)
  BY NextPartOf
<1>3. q[1] = p[1] /\ q[2] = p[2] /\ q[3] = p[3]
  BY <1>1, <1>2, NthIs
<1>4. q = p
  BY <1>2, <1>3, PartKnown
<1> QED
  BY <1>2, <1>4

(* Whichever piece comes, each part still has its first pieces. *)
LEMMA PartsStep ==
  ASSUME Types, PartsInOrder, [Next]_vars PROVE PartsInOrder'
<1>1. /\ input' = input /\ faults' = faults
      /\ UNCHANGED <<sent, chunks>> \/ \E c \in Calls : Chunk(c)
  BY Fixed
<1>2. SUFFICES ASSUME NEW c \in Calls, NEW p \in Parts(c), Proper(p)
               PROVE  \E n \in 0..p[4] : Got(sent'[c], p) = First(c, p, n)
  BY <1>1, SameParts DEF PartsInOrder, Got, PiecesOf, Proper
<1>3. PICK n \in 0..p[4] : Got(sent[c], p) = First(c, p, n)
  BY <1>2 DEF PartsInOrder
<1>4. CASE sent'[c] = sent[c]
  BY <1>3, <1>4
<1>5. CASE Chunk(c)
  <2>1. PICK d \in Deltas : sent'[c] = Append(sent[c], d) /\ d \in NextDeltas(c)
    BY <1>5, ChunkAdds
  <2>2. sent[c] \in Seq(Deltas) /\ p[4] \in Nat /\ n \in Nat
    BY <1>2, PartType DEF Types
  <2>3. Len(Got(sent[c], p)) = n
    BY <1>3, <2>2, FirstLen
  <2>4. CASE ~(d.part = p[1] /\ d.piece[2] = p[2] /\ d.piece[3] = p[3])
    <3>1. Got(sent'[c], p) = Got(sent[c], p)
      BY <2>1, <2>2, <2>4, PiecesAppend
    <3> QED
      BY <1>3, <3>1
  <2>5. CASE d.part = p[1] /\ d.piece[2] = p[2] /\ d.piece[3] = p[3]
    <3>1. n + 1 \in 1..p[4] /\ d = Nth(c, p, n + 1)
      BY <1>2, <2>1, <2>3, <2>5, PartAdds
    <3>2. Got(sent'[c], p) = Append(First(c, p, n), d)
      BY <1>3, <2>1, <2>2, <2>5, PiecesAppend
    <3>3. Got(sent'[c], p) = First(c, p, n + 1)
      BY <2>2, <3>1, <3>2, FirstAppend
    <3> QED
      BY <2>2, <3>1, <3>3
  <2> QED
    BY <2>4, <2>5
<1>6. CASE \E b \in Calls \ {c} : Chunk(b)
  <2>1. sent'[c] = sent[c]
    BY <1>6, ChunkAdds
  <2> QED
    BY <1>4, <2>1
<1> QED
  BY <1>1, <1>4, <1>5, <1>6

LEMMA TextAppend ==
  ASSUME NEW ds \in Seq(Deltas), NEW d \in Deltas
  PROVE  Text(Append(ds, d)) = Append(Text(ds), d.piece)
BY DEF Text

(* What is parsed stays in order, whichever lines are not. *)
LEMMA ThinnedStep ==
  ASSUME Types, PartsInOrder, PartsThinned, [Next]_vars PROVE PartsThinned'
<1>1. /\ input' = input /\ faults' = faults
      /\ UNCHANGED <<sent, chunks>> \/ \E c \in Calls : Chunk(c)
  BY Fixed
<1>2. SUFFICES ASSUME NEW c \in Calls, NEW p \in Parts(c), Proper(p)
               PROVE  \E J \in SUBSET (1..Len(Got(sent'[c], p))) :
                          Text(Got(chunks'[c], p)) = Kept(Pieces(c, p[2], p[3], p[4]), J)
  <2>1. ASSUME NEW c \in Calls, NEW p
        PROVE  Got(sent[c], p)' = Got(sent'[c], p) /\ Got(chunks[c], p)' = Got(chunks'[c], p)
    BY DEF Got, PiecesOf
  <2> QED
    BY <1>1, <2>1, SameParts DEF PartsThinned
<1> PICK whole : whole = Pieces(c, p[2], p[3], p[4])
  OBVIOUS
<1>3. PICK I \in SUBSET (1..Len(Got(sent[c], p))) : Text(Got(chunks[c], p)) = Kept(whole, I)
  BY <1>2 DEF PartsThinned
<1>4. CASE sent'[c] = sent[c] /\ chunks'[c] = chunks[c]
  BY <1>3, <1>4
<1>5. CASE Chunk(c)
  <2>1. PICK d \in Deltas : /\ sent'[c] = Append(sent[c], d)
                            /\ chunks'[c] = Append(chunks[c], d) \/ chunks'[c] = chunks[c]
                            /\ d \in NextDeltas(c)
    BY <1>5, ChunkAdds
  <2>2. sent[c] \in Seq(Deltas) /\ chunks[c] \in Seq(Deltas) /\ p[4] \in Nat
    BY <1>2, PartType DEF Types
  <2>3. PICK n \in Nat : n = Len(Got(sent[c], p))
    BY <2>2, PiecesType
  <2>4. CASE ~(d.part = p[1] /\ d.piece[2] = p[2] /\ d.piece[3] = p[3])
    <3>1. Got(sent'[c], p) = Got(sent[c], p)
      BY <2>1, <2>2, <2>4, PiecesAppend
    <3>2. Got(chunks'[c], p) = Got(chunks[c], p)
      BY <2>1, <2>2, <2>4, PiecesAppend, ZenonT(60)
    <3> QED
      BY <1>3, <3>1, <3>2
  <2>5. CASE d.part = p[1] /\ d.piece[2] = p[2] /\ d.piece[3] = p[3]
    <3>1. n + 1 \in 1..p[4] /\ d = Nth(c, p, n + 1)
      BY <1>2, <2>1, <2>3, <2>5, PartAdds
    <3>2. Len(Got(sent'[c], p)) = n + 1
      <4>1. Got(sent'[c], p) = Append(Got(sent[c], p), d)
        BY <2>1, <2>2, <2>5, PiecesAppend
      <4>2. Got(sent[c], p) \in Seq(Deltas)
        BY <2>2, PiecesType
      <4> QED
        BY <2>3, <4>1, <4>2
    <3>3. CASE chunks'[c] = chunks[c]
      <4>1. Got(chunks'[c], p) = Got(chunks[c], p)
        BY <3>3
      <4>2. I \in SUBSET (1..(n + 1))
        BY <1>3, <2>3
      <4>3. Text(Got(chunks'[c], p)) = Kept(whole, I)
        BY <1>3, <4>1
      <4> QED
        BY <3>2, <4>2, <4>3
    <3>4. CASE chunks'[c] = Append(chunks[c], d)
      <4>0. Got(chunks'[c], p) = Append(Got(chunks[c], p), d)
        BY <2>2, <2>5, <3>4, PiecesAppend
      <4>1. Got(chunks[c], p) \in Seq(Deltas)
        BY <2>2, PiecesType
      <4>2. Text(Got(chunks'[c], p)) = Append(Kept(whole, I), d.piece)
        BY <1>3, <4>0, <4>1, TextAppend
      <4>3. d.piece = <<c, p[2], p[3], n + 1>>
        BY <3>1, NthIs
      <4> PICK total \in Nat : total = p[4]
        BY <2>2
      <4> DEFINE A == {<<c, p[2], p[3], i>> : i \in 1..total}
      <4>4. whole = [i \in 1..total |-> <<c, p[2], p[3], i>>] /\ n + 1 \in 1..total
        BY <3>1 DEF Pieces
      <4>5. whole \in Seq(A) /\ Len(whole) = total /\ whole[n + 1] = <<c, p[2], p[3], n + 1>>
        BY <4>4, SMTT(30)
      <4>6. I \in SUBSET (1..n)
        BY <1>3, <2>3
      <4> HIDE DEF A
      <4>7. Kept(whole, I \cup {n + 1}) = Append(Kept(whole, I), whole[n + 1])
        <5>1. n \in Nat /\ n + 1 <= Len(whole) /\ whole \in Seq(A)
          BY <2>3, <4>4, <4>5
        <5> QED
          BY <4>6, <5>1, KeptOneMore
      <4>8. I \cup {n + 1} \in SUBSET (1..(n + 1))
        BY <4>6
      <4> QED
        BY <3>2, <4>2, <4>3, <4>5, <4>7, <4>8
    <3> QED
      BY <2>1, <3>3, <3>4
  <2> QED
    BY <2>4, <2>5
<1>6. CASE \E b \in Calls \ {c} : Chunk(b)
  <2>1. sent'[c] = sent[c] /\ chunks'[c] = chunks[c]
    BY <1>6, ChunkAdds
  <2> QED
    BY <1>4, <2>1
<1> QED
  BY <1>1, <1>4, <1>5, <1>6

LEMMA MarkedStep ==
  ASSUME Types, AllMarked, [Next]_vars PROVE AllMarked'
<1>1. /\ input' = input /\ faults' = faults
      /\ UNCHANGED <<sent, chunks>> \/ \E c \in Calls : Chunk(c)
  BY Fixed
<1>2. SUFFICES ASSUME NEW c \in Calls
               PROVE  /\ \A i \in DOMAIN sent'[c] : Marked(c, sent'[c][i])
                      /\ \A i \in DOMAIN chunks'[c] : Marked(c, chunks'[c][i])
  BY <1>1, SameParts DEF AllMarked
<1>3. CASE sent'[c] = sent[c] /\ chunks'[c] = chunks[c]
  BY <1>3 DEF AllMarked
<1>4. CASE Chunk(c)
  <2>1. PICK d \in Deltas : /\ sent'[c] = Append(sent[c], d) /\ Marked(c, d)
                            /\ chunks'[c] = Append(chunks[c], d) \/ chunks'[c] = chunks[c]
    BY <1>4, ChunkAdds
  <2>2. ASSUME NEW cs \in Seq(Deltas), \A i \in DOMAIN cs : Marked(c, cs[i])
        PROVE  \A i \in DOMAIN Append(cs, d) : Marked(c, Append(cs, d)[i])
    BY <2>1, <2>2
  <2>3. sent[c] \in Seq(Deltas) /\ chunks[c] \in Seq(Deltas)
    BY DEF Types
  <2>4. /\ \A i \in DOMAIN sent[c] : Marked(c, sent[c][i])
        /\ \A i \in DOMAIN chunks[c] : Marked(c, chunks[c][i])
    BY DEF AllMarked
  <2> QED
    BY <2>1, <2>2, <2>3, <2>4
<1>5. CASE \E b \in Calls \ {c} : Chunk(b)
  <2>1. sent'[c] = sent[c] /\ chunks'[c] = chunks[c]
    BY <1>5, ChunkAdds
  <2> QED
    BY <1>3, <2>1
<1> QED
  BY <1>1, <1>3, <1>4, <1>5

(* Of a choice that is complete, nothing more than its finish can come. *)
LEMMA CompleteStays ==
  ASSUME Types, NEW c \in Calls, NEW h \in ChoiceNos(c), Complete(c, h), NEW d \in Deltas,
         d \in NextDeltas(c), NEW p \in Parts(c), Proper(p), p[1] # "finish", p[2] = h
  PROVE  Got(Append(sent[c], d), p) = First(c, p, p[4])
<1>1. Got(sent[c], p) = First(c, p, p[4]) /\ p[4] \in Nat
  BY PartType DEF Complete
<1>2. Len(Got(sent[c], p)) = p[4]
  BY <1>1, FirstLen
<1>3. ~(d.part = p[1] /\ d.piece[2] = p[2] /\ d.piece[3] = p[3])
  BY <1>1, <1>2, PartAdds
<1>4. sent[c] \in Seq(Deltas)
  BY DEF Types
<1> QED
  BY <1>1, <1>3, <1>4, PiecesAppend

LEMMA FinishStep ==
  ASSUME Types, AllMarked, PartsInOrder, FinishIsLast, [Next]_vars PROVE FinishIsLast'
<1>1. /\ input' = input /\ faults' = faults
      /\ UNCHANGED <<sent, chunks>> \/ \E c \in Calls : Chunk(c)
  BY Fixed
<1>2. SUFFICES ASSUME NEW c \in Calls, NEW j \in DOMAIN sent'[c], sent'[c][j].part = "finish",
                      NEW p \in Parts(c), Proper(p), p[1] # "finish", p[2] = sent'[c][j].piece[2]
               PROVE  Got(sent'[c], p) = First(c, p, p[4])
  <2>1. ASSUME NEW c \in Calls, NEW p PROVE Got(sent[c], p)' = Got(sent'[c], p)
    BY DEF Got, PiecesOf
  <2>2. ASSUME NEW c \in Calls, NEW h
        PROVE  Complete(c, h)' <=>
                  \A p \in Parts(c) : Proper(p) /\ p[1] # "finish" /\ p[2] = h =>
                      Got(sent'[c], p) = First(c, p, p[4])
    BY <1>1, <2>1, SameParts DEF Complete
  <2> QED
    BY <2>2 DEF FinishIsLast
<1>3. CASE sent'[c] = sent[c]
  BY <1>2, <1>3 DEF FinishIsLast, Complete
<1>4. CASE Chunk(c)
  <2>1. PICK d \in Deltas : sent'[c] = Append(sent[c], d) /\ d \in NextDeltas(c) /\ Marked(c, d)
    BY <1>4, ChunkAdds
  <2>2. sent[c] \in Seq(Deltas) /\ p[2] \in ChoiceNos(c)
    BY <1>2, PartType DEF Types
  <2>3. Complete(c, p[2])
    <3>1. CASE j \in DOMAIN sent[c]
      <4>1. sent'[c][j] = sent[c][j]
        BY <2>1, <2>2, <3>1
      <4> QED
        BY <1>2, <3>1, <4>1 DEF FinishIsLast
    <3>2. CASE j \notin DOMAIN sent[c]
      <4>1. sent'[c][j] = d
        BY <1>2, <2>1, <2>2, <3>2
      <4>2. PICK q \in Parts(c) : /\ Proper(q) /\ d = Nth(c, q, Len(Got(sent[c], q)) + 1)
                                  /\ q[1] = "finish" => NextPieces(c, q[2]) = {}
        BY <2>1, NextPartOf
      <4>3. q[1] = "finish" /\ q[2] = p[2]
        BY <1>2, <4>1, <4>2, NthIs
      <4> QED
        BY <2>2, <4>2, <4>3, NothingLeft
    <3> QED
      BY <3>1, <3>2
  <2> QED
    BY <1>2, <2>1, <2>2, <2>3, CompleteStays
<1>5. CASE \E b \in Calls \ {c} : Chunk(b)
  <2>1. sent'[c] = sent[c]
    BY <1>5, ChunkAdds
  <2> QED
    BY <1>3, <2>1
<1> QED
  BY <1>1, <1>3, <1>4, <1>5

-----------------------------------------------------------------------------
Recorded(c, event) == \E body \in Bodies : Record(event, c, body)

LEMMA SameTrace ==
  ASSUME trace' = trace, NEW c
  PROVE  Responses(c)' = Responses(c) /\ Asked(c)' = Asked(c)
BY DEF Responses, Asked, Request

LEMMA GrownTrace ==
  ASSUME Types, NEW c \in Calls, NEW event \in {"llm_request", "llm_response"},
         Recorded(c, event), NEW b \in Calls
  PROVE  /\ Responses(b)' = IF b = c /\ event = "llm_response" THEN Responses(b) \cup {Len(trace) + 1}
                            ELSE Responses(b)
         /\ Asked(b) => Asked(b)'
         /\ event = "llm_request" => Asked(c)'
<1>1. PICK body \in Bodies : Record(event, c, body)
  BY DEF Recorded
<1>2. /\ trace' \in Seq(Events) /\ Len(trace') = Len(trace) + 1
      /\ \A i \in DOMAIN trace : trace'[i] = trace[i]
      /\ LET e == trace'[Len(trace) + 1] IN e.event = event /\ e.of = c
  BY <1>1, RecordType
<1>3. trace \in Seq(Events)
  BY DEF Types
<1>4. DOMAIN trace = 1..Len(trace) /\ DOMAIN trace' = 1..(Len(trace) + 1) /\ Len(trace) \in Nat
  BY <1>2, <1>3
<1>5. \A i \in DOMAIN trace' : i \in Responses(b)' <=>
            i \in Responses(b) \/ (i = Len(trace) + 1 /\ b = c /\ event = "llm_response")
  BY <1>2, <1>4 DEF Responses
<1>6. Responses(b)' \subseteq DOMAIN trace' /\ Responses(b) \subseteq DOMAIN trace
  BY DEF Responses
<1>7. Asked(b) => Asked(b)'
  BY <1>2, <1>4 DEF Asked, Request
<1>8. event = "llm_request" => Asked(c)'
  BY <1>2, <1>4 DEF Asked, Request
<1>9. CASE b = c /\ event = "llm_response"
  <2>1. Responses(b)' = Responses(b) \cup {Len(trace) + 1}
    BY <1>4, <1>5, <1>6, <1>9
  <2> QED
    BY <1>7, <1>8, <1>9, <2>1
<1>10. CASE ~(b = c /\ event = "llm_response")
  <2>1. Responses(b)' = Responses(b)
    BY <1>4, <1>5, <1>6, <1>10
  <2> QED
    BY <1>7, <1>8, <1>10, <2>1
<1> QED
  BY <1>9, <1>10

(* What a step of a call does to the trace, and that it does nothing to another call. *)
LEMMA TraceStep ==
  ASSUME Types, NEW c \in Calls, Step(c)
  PROVE  /\ trace' = trace \/ Recorded(c, "llm_request") \/ Recorded(c, "llm_response")
         /\ \A b \in Calls \ {c} : pc'[b] = pc[b]
<1>1. Body(<<Merge(chunks[c])>>) \in Bodies /\ <<>> \in Bodies
  BY DEF Types, Bodies
<1>2. CASE Ask(c)
  BY <1>1, <1>2 DEF Ask, Goto, Recorded, Types, TypeOK
<1>3. CASE RecordStream(c)
  BY <1>1, <1>3 DEF RecordStream, Goto, Recorded, Types, TypeOK
<1>4. CASE RecordPost(c)
  <2>1. \E body \in Bodies : Record("llm_response", c, body) \/ trace' = trace
    BY <1>4 DEF RecordPost, Bodies
  <2> QED
    BY <1>4, <2>1 DEF RecordPost, Goto, Recorded, Types, TypeOK
<1>5. CASE Chunk(c) \/ StreamEnds(c) \/ PostRaises(c) \/ Respond(c) \/ Leave(c) \/ Dies(c)
  BY <1>5 DEF Chunk, StreamEnds, PostRaises, Respond, Leave, Dies, Goto, Types, TypeOK
<1> QED
  BY <1>2, <1>3, <1>4, <1>5 DEF Step

LEMMA OwnSame == ASSUME input' = input, NEW c PROVE
    /\ \A e : Own(e)' <=> Own(e)
    /\ TaskId(c)' = TaskId(c)
BY DEF Own, TaskId

(* Where a call is stays true of the trace. *)
LEMMA RoutesStep == ASSUME Types, Routes, [Next]_vars PROVE Routes'
<1>1. input' = input /\ faults' = faults /\ capture' = capture
  BY Fixed
<1>2. SUFFICES ASSUME NEW b \in Calls, Route(b) PROVE Route(b)'
  BY DEF Routes
<1>3. Own([task |-> TaskId(b), of |-> b])' <=> Own([task |-> TaskId(b), of |-> b])
  BY <1>1, OwnSame
<1> DEFINE Same == pc'[b] = pc[b] /\ Responses(b)' = Responses(b) /\ (Asked(b) => Asked(b)')
<1>4. ASSUME Same PROVE Route(b)'
  BY <1>1, <1>2, <1>3, <1>4 DEF Route
<1>5. ASSUME NEW c \in Calls \ {b}, Step(c) PROVE Route(b)'
  BY <1>4, <1>5, TraceStep, SameTrace, GrownTrace
<1>6. CASE Stop \/ UNCHANGED vars
  BY <1>4, <1>6, SameTrace DEF Stop, vars
<1>7. ASSUME Step(b) PROVE Route(b)'
  <2>1. CASE Ask(b)
    <3>1. Responses(b) = {}
      BY <1>2, <2>1 DEF Ask, Route
    <3>2. Responses(b)' = {} /\ (capture.request => Asked(b)' \/ ~Routed(UrlPath(input[b].task)))
      <4>1. CASE trace' = trace /\ (capture.request => ~Routed(UrlPath(input[b].task)))
        BY <3>1, <4>1, SameTrace
      <4>2. CASE Record("llm_request", b, <<>>)
        <5>1. Recorded(b, "llm_request")
          BY <4>2 DEF Recorded, Bodies
        <5> QED
          BY <3>1, <5>1, GrownTrace
      <4> QED
        BY <2>1, <4>1, <4>2 DEF Ask
    <3>3. CASE ~Routed(UrlPath(input[b].task))
      <4>1. pc'[b] = "refused"
        BY <2>1, <3>3 DEF Ask, Goto, Types, TypeOK
      <4>2. Len(input[b].task) # 1 \/ input[b].task = <<"">>
        BY <3>3, InputType, OnlySlashesRefused DEF Types, Input
      <4> QED
        BY <1>1, <4>1, <4>2 DEF Route, InFlight
    <3>4. CASE Routed(UrlPath(input[b].task))
      <4>1. pc'[b] = IF input[b].stream THEN "stream" ELSE "post"
        BY <2>1, <3>4 DEF Ask, Goto, Types, TypeOK
      <4>2. Own([task |-> TaskId(b), of |-> b])
        BY <3>4, RoutedOwn DEF Types
      <4> QED
        BY <1>1, <1>3, <3>2, <3>4, <4>1, <4>2 DEF Route, InFlight
    <3> QED
      BY <3>3, <3>4
  <2>2. CASE RecordStream(b)
    <3>1. Recorded(b, "llm_response")
      BY <2>2 DEF RecordStream, Recorded, Bodies, Types
    <3>2. Responses(b)' # {}
      BY <3>1, GrownTrace
    <3>3. pc'[b] = "recorded"
      BY <2>2 DEF RecordStream, Goto, Types, TypeOK
    <3> QED
      BY <3>2, <3>3 DEF Route, InFlight
  <2>3. CASE RecordPost(b)
    <3>1. pc'[b] \in {"recorded", "left"} /\ ~input[b].stream
      BY <1>2, <2>3 DEF RecordPost, Goto, Types, TypeOK, Route
    <3>2. capture.response => Responses(b)' # {}
      <4>1. SUFFICES ASSUME capture.response PROVE Recorded(b, "llm_response")
        BY GrownTrace
      <4> QED
        BY <2>3, <4>1 DEF RecordPost, Recorded, Bodies
    <3> QED
      BY <1>1, <3>1, <3>2 DEF Route, InFlight
  <2>4. CASE Chunk(b)
    BY <1>4, <2>4, SameTrace DEF Chunk
  <2>5. CASE StreamEnds(b) \/ PostRaises(b) \/ Dies(b)
    <3>1. pc'[b] = "failed"
      BY <2>5 DEF StreamEnds, PostRaises, Dies, Goto, Types, TypeOK
    <3> QED
      BY <3>1 DEF Route, InFlight
  <2>6. CASE Respond(b) \/ Leave(b)
    <3>1. trace' = trace /\ pc' \in [Calls -> Statuses]
      BY <2>6 DEF Respond, Leave, Goto, Types, TypeOK, Statuses
    <3>2. \/ pc[b] = "recorded" /\ pc'[b] = "answered"
          \/ pc[b] = "post" /\ pc'[b] = "postLeft"
          \/ pc'[b] = "left"
      BY <2>6 DEF Respond, Leave, Goto, Types, TypeOK
    <3> QED
      BY <1>1, <1>2, <1>3, <3>1, <3>2, SameTrace DEF Route, InFlight
  <2> QED
    BY <1>7, <2>1, <2>2, <2>3, <2>4, <2>5, <2>6 DEF Step
<1> QED
  BY <1>5, <1>6, <1>7 DEF Next

(* A record of the trace, as RecordsAreFaithful has it. *)
BodyIsFaithful(c, body) ==
    IF input[c].stream THEN Apart(c) => StreamIsFaithful(c, body.choices[1])
    ELSE \/ body = Answer(c)
         \/ body = Error /\ "error" \in faults
Faithful(i) ==
    LET e == trace[i] IN
    /\ Own(e)
    /\ e.event = "llm_response" =>
         /\ Responses(e.of) = {i}
         /\ capture.request => \E j \in 1..(i - 1) : Request(e.of, j)
         /\ BodyIsFaithful(e.of, e.body)

LEMMA AllFaithful ==
  RecordsAreFaithful <=>
      /\ \A c \in Calls : pc[c] = "refused" => Len(input[c].task) # 1 \/ input[c].task = <<"">>
      /\ \A i \in DOMAIN trace : Faithful(i)
BY DEF RecordsAreFaithful, Faithful, BodyIsFaithful

(* What a call adds to the trace is faithful. *)
LEMMA BodyFaithful ==
  ASSUME Types, AllMarked, PartsInOrder, PartsThinned, FinishIsLast, Routes,
         NEW c \in Calls, RecordStream(c) \/ RecordPost(c),
         NEW body, Record("llm_response", c, body)
  PROVE  BodyIsFaithful(c, body)
<1>1. trace \in Seq(Events)
  BY DEF Types
<1>2. ASSUME NEW other, Record("llm_response", c, other) PROVE body = other
  <2> DEFINE e(b) == [event |-> "llm_response", task |-> TaskId(c), body |-> b, of |-> c]
  <2>1. Append(trace, e(body)) = Append(trace, e(other))
    BY <1>2 DEF Record
  <2>2. e(body) = e(other)
    BY <1>1, <2>1
  <2>3. e(body).body = body /\ e(other).body = other
    OBVIOUS
  <2> QED
    BY <2>2, <2>3
<1>3. CASE RecordStream(c)
  <2>1. input[c].stream
    BY <1>3 DEF RecordStream, Done, Routes, Route
  <2>2. body = Body(<<Merge(chunks[c])>>)
    BY <1>2, <1>3 DEF RecordStream
  <2> PICK m : m = Merge(chunks[c])
    OBVIOUS
  <2>3. body.choices[1] = m
    BY <2>2 DEF Body
  <2>4. SUFFICES ASSUME Apart(c) PROVE StreamIsFaithful(c, m)
    BY <2>1, <2>3 DEF BodyIsFaithful
  <2>5. ASSUME m.finished, chunks[c] = sent[c] PROVE m = Message(c, 1)
    <3>1. Finished(sent[c])
      BY <2>5 DEF Merge
    <3>2. PICK i \in DOMAIN sent[c] : sent[c][i].part = "finish"
      BY <3>1 DEF Finished
    <3>3. sent[c][i].piece[2] = 1
      BY <2>4, <3>2, OneChoice DEF AllMarked, Marked
    <3>4. Complete(c, 1)
      BY <3>2, <3>3 DEF FinishIsLast
    <3> QED
      BY <2>4, <2>5, <3>1, <3>4, Merged
  <2> QED
    BY <2>4, <2>5, MergedThinned DEF StreamIsFaithful
<1>4. CASE RecordPost(c)
  <2>1. ~input[c].stream
    BY <1>4 DEF RecordPost, Routes, Route
  <2>2. PICK other \in {Answer(c)} \cup (IF "error" \in faults THEN {Error} ELSE {}) :
            Record("llm_response", c, other) \/ (~capture.response /\ trace' = trace)
    BY <1>4 DEF RecordPost
  <2>3. trace' # trace
    BY <1>1 DEF Record
  <2>4. body = other
    BY <1>2, <2>2, <2>3
  <2> QED
    BY <2>1, <2>2, <2>4 DEF BodyIsFaithful
<1> QED
  BY <1>3, <1>4

(* It stays faithful: nothing of its stream comes any more. *)
LEMMA BodyStays ==
  ASSUME Types, Routes, [Next]_vars, NEW c \in Calls, Responses(c) # {}, NEW body,
         BodyIsFaithful(c, body)
  PROVE  BodyIsFaithful(c, body)'
<1>1. input' = input /\ faults' = faults
      /\ (UNCHANGED <<sent, chunks>> \/ \E b \in Calls : Chunk(b))
  BY Fixed
<1>2. ~Chunk(c)
  BY DEF Chunk, Routes, Route, InFlight
<1>3. sent'[c] = sent[c] /\ chunks'[c] = chunks[c]
  BY <1>1, <1>2, ChunkAdds
<1>4. Message(c, 1)' = Message(c, 1) /\ Answer(c)' = Answer(c) /\ (Apart(c)' <=> Apart(c))
  BY <1>1 DEF Message, Answer, ChoiceNos, Apart
<1>5. ASSUME NEW m PROVE StreamIsFaithful(c, m) => StreamIsFaithful(c, m)'
  BY <1>3, <1>4 DEF StreamIsFaithful
<1> QED
  BY <1>1, <1>4, <1>5 DEF BodyIsFaithful

LEMMA RecordsStep ==
  ASSUME Types, AllMarked, PartsInOrder, PartsThinned, FinishIsLast, Routes,
         RecordsAreFaithful, [Next]_vars
  PROVE  RecordsAreFaithful'
<1>1. input' = input /\ faults' = faults /\ capture' = capture
  BY Fixed
<1>2. \A i \in DOMAIN trace : Faithful(i)
  BY AllFaithful
<1>3. SUFFICES \A i \in DOMAIN trace' : Faithful(i)'
  <2>1. Routes'
    BY RoutesStep
  <2>2. \A c \in Calls :
            pc'[c] = "refused" => Len(input'[c].task) # 1 \/ input'[c].task = <<"">>
    BY <2>1 DEF Routes, Route
  <2> QED
    BY <2>2 DEF RecordsAreFaithful, Faithful, BodyIsFaithful
<1>4. CASE trace' = trace
  <2>1. ASSUME NEW i \in DOMAIN trace PROVE Faithful(i)'
    <3> PICK e : e = trace[i]
      OBVIOUS
    <3>1. Faithful(i) /\ trace'[i] = e /\ e.of \in Calls
      BY <1>2, <1>4 DEF Types, TypeOK
    <3>2. Own(e)'
      BY <1>1, <3>1, OwnSame DEF Faithful
    <3>3. e.event = "llm_response" => BodyIsFaithful(e.of, e.body)'
      BY <3>1, BodyStays DEF Faithful
    <3>4. Responses(e.of)' = Responses(e.of) /\ \A j : Request(e.of, j)' <=> Request(e.of, j)
      BY <1>4 DEF Responses, Request
    <3> QED
      BY <1>1, <3>1, <3>2, <3>3, <3>4 DEF Faithful
  <2> QED
    BY <1>4, <2>1
<1>5. ASSUME NEW c \in Calls, Step(c), NEW event \in {"llm_request", "llm_response"},
             NEW body \in Bodies, Record(event, c, body)
      PROVE  \A i \in DOMAIN trace' : Faithful(i)'
  <2>1. /\ trace' \in Seq(Events) /\ Len(trace') = Len(trace) + 1
        /\ \A i \in DOMAIN trace : trace'[i] = trace[i]
        /\ LET e == trace'[Len(trace) + 1]
           IN  e.event = event /\ e.task = TaskId(c) /\ e.of = c /\ e.body = body
    BY <1>5, RecordType
  <2>2. trace \in Seq(Events)
    BY DEF Types
  <2>3. DOMAIN trace = 1..Len(trace) /\ DOMAIN trace' = 1..(Len(trace) + 1) /\ Len(trace) \in Nat
    BY <2>1, <2>2
  <2>4. \/ event = "llm_response" /\ (RecordStream(c) \/ RecordPost(c))
        \/ event = "llm_request" /\ Ask(c) /\ Routed(UrlPath(input[c].task))
    <3>1. trace' # trace
      BY <2>1, <2>2
    <3>2. CASE Ask(c)
      <4>1. Record("llm_request", c, <<>>) /\ Routed(UrlPath(input[c].task))
        BY <3>1, <3>2 DEF Ask
      <4>2. trace'[Len(trace) + 1].event = "llm_request"
        BY <4>1, RecordType DEF Bodies
      <4> QED
        BY <2>1, <3>2, <4>1, <4>2
    <3>3. CASE RecordStream(c)
      <4>1. Body(<<Merge(chunks[c])>>) \in Bodies
        BY DEF Bodies, Types
      <4>2. trace'[Len(trace) + 1].event = "llm_response"
        BY <3>3, <4>1, RecordType DEF RecordStream
      <4> QED
        BY <2>1, <3>3, <4>2
    <3>4. CASE RecordPost(c)
      <4>1. PICK other \in Bodies : Record("llm_response", c, other)
        BY <3>1, <3>4 DEF RecordPost, Bodies
      <4>2. trace'[Len(trace) + 1].event = "llm_response"
        BY <4>1, RecordType
      <4> QED
        BY <2>1, <3>4, <4>2
    <3>5. CASE Chunk(c) \/ StreamEnds(c) \/ PostRaises(c) \/ Respond(c) \/ Leave(c) \/ Dies(c)
      BY <3>1, <3>5 DEF Chunk, StreamEnds, PostRaises, Respond, Leave, Dies
    <3> QED
      BY <1>5, <3>2, <3>3, <3>4, <3>5 DEF Step
  <2>5. /\ Responses(c) = {} /\ Own([task |-> TaskId(c), of |-> c])
        /\ event = "llm_response" /\ capture.request => Asked(c)
    <3>1. Route(c)
      BY DEF Routes
    <3>2. CASE event = "llm_response" /\ (RecordStream(c) \/ RecordPost(c))
      BY <3>1, <3>2 DEF Route, InFlight, RecordStream, RecordPost, Done
    <3>3. CASE event = "llm_request" /\ Ask(c) /\ Routed(UrlPath(input[c].task))
      <4>1. Own([task |-> TaskId(c), of |-> c])
        BY <3>3, RoutedOwn DEF Types
      <4> QED
        BY <3>1, <3>3, <4>1 DEF Route, Ask
    <3> QED
      BY <2>4, <3>2, <3>3
  <2>6. \A b \in Calls : Responses(b)' = IF b = c /\ event = "llm_response"
                                       THEN Responses(b) \cup {Len(trace) + 1} ELSE Responses(b)
    <3>1. Recorded(c, event)
      BY <1>5 DEF Recorded
    <3> QED
      BY <3>1, GrownTrace
  <2>7. ASSUME NEW i \in DOMAIN trace PROVE Faithful(i)'
    <3> PICK e : e = trace[i]
      OBVIOUS
    <3>1. Faithful(i) /\ trace'[i] = e /\ e.of \in Calls
      BY <1>2, <2>1 DEF Types, TypeOK
    <3>2. Own(e)'
      BY <1>1, <3>1, OwnSame DEF Faithful
    <3>3. ASSUME e.event = "llm_response" PROVE Responses(e.of)' = {i}
      <4>1. Responses(e.of) = {i}
        BY <3>1, <3>3 DEF Faithful
      <4> QED
        BY <2>5, <2>6, <3>1, <4>1
    <3>4. ASSUME e.event = "llm_response", capture.request
          PROVE  \E j \in 1..(i - 1) : Request(e.of, j)'
      <4>1. PICK j \in 1..(i - 1) : Request(e.of, j)
        BY <3>1, <3>4 DEF Faithful
      <4>2. j \in DOMAIN trace
        BY <2>3
      <4> QED
        BY <2>1, <4>1, <4>2 DEF Request
    <3>5. e.event = "llm_response" => BodyIsFaithful(e.of, e.body)'
      BY <3>1, BodyStays DEF Faithful
    <3> QED
      BY <1>1, <3>1, <3>2, <3>3, <3>4, <3>5 DEF Faithful
  <2>8. ASSUME NEW n, n = Len(trace) + 1 PROVE Faithful(n)'
    <3> PICK e : e = trace'[n]
      OBVIOUS
    <3>1. e.event = event /\ e.task = TaskId(c) /\ e.of = c /\ e.body = body
      BY <2>1, <2>8
    <3>2. Own(e)'
      <4>1. Own(e)
        BY <2>5, <3>1 DEF Own
      <4> QED
        BY <1>1, <4>1, OwnSame
    <3>3. e.event = "llm_response" => Responses(c)' = {n}
      BY <2>5, <2>6, <2>8, <3>1
    <3>4. ASSUME e.event = "llm_response", capture.request
          PROVE  \E j \in 1..(n - 1) : Request(c, j)'
      <4>1. PICK j \in DOMAIN trace : Request(c, j)
        BY <2>5, <3>1, <3>4 DEF Asked
      <4>2. j \in 1..(n - 1)
        BY <2>3, <2>8
      <4> QED
        BY <2>1, <4>1, <4>2 DEF Request
    <3>5. e.event = "llm_response" => BodyIsFaithful(c, body)'
      <4>1. SUFFICES ASSUME event = "llm_response" PROVE BodyIsFaithful(c, body)'
        BY <3>1
      <4>2. BodyIsFaithful(c, body)
        BY <1>5, <2>4, <4>1, BodyFaithful
      <4>3. sent' = sent /\ chunks' = chunks
        BY <2>4, <4>1 DEF RecordStream, RecordPost, streams
      <4>4. Message(c, 1)' = Message(c, 1) /\ Answer(c)' = Answer(c) /\ (Apart(c)' <=> Apart(c))
        BY <1>1 DEF Message, Answer, ChoiceNos, Apart
      <4>5. ASSUME NEW m PROVE StreamIsFaithful(c, m) => StreamIsFaithful(c, m)'
        BY <4>3, <4>4 DEF StreamIsFaithful
      <4> QED
        BY <1>1, <4>2, <4>4, <4>5 DEF BodyIsFaithful
    <3> QED
      BY <1>1, <3>1, <3>2, <3>3, <3>4, <3>5 DEF Faithful
  <2>9. \A i \in DOMAIN trace' : i \in DOMAIN trace \/ i = Len(trace) + 1
    BY <2>3
  <2> QED
    BY <2>7, <2>8, <2>9
<1>6. CASE Stop \/ UNCHANGED vars
  BY <1>4, <1>6 DEF Stop, vars
<1> QED
  <2>1. ASSUME NEW c \in Calls, Step(c) PROVE \A i \in DOMAIN trace' : Faithful(i)'
    BY <1>4, <1>5, <2>1, TraceStep DEF Recorded
  <2> QED
    BY <1>6, <2>1 DEF Next

-----------------------------------------------------------------------------
LEMMA InitProxyInv == Init => ProxyInv
<1>1. ASSUME Init PROVE ProxyInv
  <2>1. Types
    BY <1>1, InitTypes
  <2>2. /\ DOMAIN trace = {}
        /\ \A c \in Calls : sent[c] = <<>> /\ chunks[c] = <<>> /\ pc[c] = "new"
    BY <1>1 DEF Init
  <2>3. PartsInOrder /\ PartsThinned
    <3>1. SUFFICES ASSUME NEW c \in Calls, NEW p \in Parts(c), Proper(p)
                   PROVE  /\ \E n \in 0..p[4] : Got(sent[c], p) = First(c, p, n)
                          /\ \E I \in SUBSET (1..Len(Got(sent[c], p))) :
                                 Text(Got(chunks[c], p)) = Kept(Pieces(c, p[2], p[3], p[4]), I)
      BY DEF PartsInOrder, PartsThinned
    <3>2. Got(sent[c], p) = <<>> /\ Got(chunks[c], p) = <<>>
      BY <2>2, KeptEmpty DEF Got, PiecesOf
    <3>3. First(c, p, 0) = <<>> /\ Text(<<>>) = <<>>
      BY DEF First, Text
    <3>4. 0 \in 0..p[4] /\ p[4] \in Nat
      BY <2>1, <3>1, PartType
    <3>5. Kept(Pieces(c, p[2], p[3], p[4]), {}) = <<>>
      <4>1. Pieces(c, p[2], p[3], p[4]) \in Seq({<<c, p[2], p[3], i>> : i \in 1..p[4]})
        BY <3>4 DEF Pieces
      <4> QED
        BY <4>1, KeptNothing
    <3> QED
      BY <3>2, <3>3, <3>4, <3>5
  <2>4. AllMarked /\ FinishIsLast
    BY <2>2 DEF AllMarked, FinishIsLast
  <2>5. Routes
    BY <2>2 DEF Routes, Route, InFlight, Responses
  <2>6. RecordsAreFaithful
    BY <2>2 DEF RecordsAreFaithful, Responses
  <2> QED
    BY <2>1, <2>3, <2>4, <2>5, <2>6 DEF ProxyInv
<1> QED
  BY <1>1

LEMMA ProxyInvStep == ProxyInv /\ [Next]_vars => ProxyInv'
BY TypesStep, PartsStep, ThinnedStep, MarkedStep, FinishStep, RoutesStep, RecordsStep DEF ProxyInv

(* The invariant that the properties follow from. *)
THEOREM Invariance == Spec => []ProxyInv
BY InitProxyInv, ProxyInvStep, PTL DEF Spec

(* The calls and the trace have their types (proxy/app.py, recorder.py). *)
THEOREM TypeCorrect == Spec => []TypeOK
<1>1. ProxyInv => TypeOK
  BY DEF ProxyInv, Types
<1> QED
  BY <1>1, Invariance, PTL

(* Each call is recorded under the task that made it, its request before   *)
(* its only answer; what is recorded of a stream has the pieces of the      *)
(* provider in their order, and all of them if the stream has its finish     *)
(* reason and every line parsed, for any number of calls and pieces          *)
(* (app.py:44-105, normalizer.py:29-72).                                   *)
THEOREM RecordsCorrect == Spec => []RecordsAreFaithful
<1>1. ProxyInv => RecordsAreFaithful
  BY DEF ProxyInv
<1> QED
  BY <1>1, Invariance, PTL

(* The answer a client has to its end is in the trace (app.py:69-72, 87-94). *)
THEOREM AnswersCorrect == Spec => []AnswersAreRecorded
<1>1. ProxyInv => AnswersAreRecorded
  BY DEF ProxyInv, AnswersAreRecorded, Routes, Route
<1> QED
  BY <1>1, Invariance, PTL
=============================================================================
