---------------------------- MODULE TraceFlow_proofs ----------------------------
(***************************************************************************)
(* Proofs about TraceFlow, for any agents, prompts and bounds.  First the  *)
(* loops of ConversationExport, which are recursive functions: that they   *)
(* are defined, what type they give and what one more element does.  Then  *)
(* what an export is made of, and the steps of the agents.                 *)
(***************************************************************************)
EXTENDS TraceFlow, Integers, TLAPS, WellFoundedInduction, FiniteSetTheorems, SequenceTheorems

-----------------------------------------------------------------------------
(* Induction over the naturals, for a set instead of a predicate. *)
LEMMA NatInd ==
  ASSUME NEW S, 0 \in S, \A n \in Nat : n \in S => n + 1 \in S
  PROVE  \A n \in Nat : n \in S
<1> DEFINE Rest == {n \in Nat : n \notin S}
<1>1. SUFFICES ASSUME Rest # {} PROVE FALSE
  OBVIOUS
<1>2. IsWellFoundedOn(OpToRel(<, Nat), Nat)
  BY NatLessThanWellFounded
<1>3. PICK m \in Rest : \A k \in Rest : ~(<<k, m>> \in OpToRel(<, Nat))
  BY <1>1, <1>2, WFMin
<1>4. \A k \in Rest : ~(k < m)
  BY <1>3 DEF OpToRel
<1>5. m - 1 \in Nat /\ m - 1 \notin Rest
  BY <1>4
<1> QED
  BY <1>5

(* f computes n rounds of a loop whose rounds are given by next. *)
Rounds(f, n, base, next) == f[0] = base /\ \A m \in 1..n : f[m] = next[<<m, f[m - 1]>>]

(* A loop of n rounds can go on for one more. *)
LEMMA RoundsMore ==
  ASSUME NEW A, NEW n \in Nat, NEW k \in Nat, n < k, NEW base \in A,
         NEW next \in [(1..k) \X A -> A], NEW f \in [0..n -> A], Rounds(f, n, base, next)
  PROVE  \E g \in [0..(n + 1) -> A] : Rounds(g, n + 1, base, next)
<1> DEFINE new == next[<<n + 1, f[n]>>]
           g   == [m \in 0..(n + 1) |-> IF m <= n THEN f[m] ELSE new]
<1>1. f[n] \in A /\ n + 1 \in 1..k
  OBVIOUS
<1>2. new \in A
  BY <1>1
<1>3. g \in [0..(n + 1) -> A]
  BY <1>2
<1>4. g[0] = base
  BY DEF Rounds
<1>5. ASSUME NEW m \in 1..(n + 1) PROVE g[m] = next[<<m, g[m - 1]>>]
  <2>1. CASE m = n + 1
    <3>1. g[m - 1] = f[n] /\ g[m] = new
      BY <2>1
    <3> HIDE DEF g
    <3> QED
      BY <2>1, <3>1
  <2>2. CASE m \in 1..n
    <3>1. g[m] = f[m] /\ g[m - 1] = f[m - 1]
      BY <2>2
    <3> QED
      BY <2>2, <3>1 DEF Rounds
  <2> QED
    BY <2>1, <2>2
<1> HIDE DEF g
<1> QED
  BY <1>3, <1>4, <1>5 DEF Rounds

(* A loop of k rounds is defined. *)
LEMMA RoundsExist ==
  ASSUME NEW A, NEW k \in Nat, NEW base \in A, NEW next \in [(1..k) \X A -> A]
  PROVE  \E f \in [0..k -> A] : Rounds(f, k, base, next)
<1> DEFINE S == {n \in Nat : n <= k => \E f \in [0..n -> A] : Rounds(f, n, base, next)}
<1>1. 0 \in S
  <2> DEFINE f == [m \in 0..0 |-> base]
  <2>1. f \in [0..0 -> A] /\ Rounds(f, 0, base, next)
    BY DEF Rounds
  <2> QED
    BY <2>1
<1>2. ASSUME NEW n \in Nat, n \in S PROVE n + 1 \in S
  <2>1. SUFFICES ASSUME n + 1 <= k PROVE \E f \in [0..(n + 1) -> A] : Rounds(f, n + 1, base, next)
    OBVIOUS
  <2>2. PICK f \in [0..n -> A] : Rounds(f, n, base, next)
    BY <1>2, <2>1
  <2>3. n < k
    BY <2>1
  <2> QED
    BY <2>2, <2>3, RoundsMore
<1>3. \A n \in Nat : n \in S
  <2> HIDE DEF S
  <2> QED
    BY <1>1, <1>2, NatInd
<1> QED
  BY <1>3

(* Two loops that do the same in each round come to the same. *)
LEMMA RoundsAgree ==
  ASSUME NEW n \in Nat, NEW f, NEW g, f[0] = g[0],
         \A m \in 1..n : f[m - 1] = g[m - 1] => f[m] = g[m]
  PROVE  f[n] = g[n]
<1> DEFINE S == {m \in Nat : m <= n => f[m] = g[m]}
<1>1. 0 \in S
  OBVIOUS
<1>2. ASSUME NEW m \in Nat, m \in S PROVE m + 1 \in S
  <2>1. SUFFICES ASSUME NEW i \in 1..n, i = m + 1 PROVE f[i] = g[i]
    OBVIOUS
  <2>2. f[i - 1] = g[i - 1]
    BY <1>2, <2>1
  <2> QED
    BY <2>2
<1>3. \A m \in Nat : m \in S
  <2> HIDE DEF S
  <2> QED
    BY <1>1, <1>2, NatInd
<1> QED
  BY <1>3

-----------------------------------------------------------------------------
(* Kept. *)
Extended(before, s, I, m) == IF m \in I THEN Append(before, s[m]) ELSE before
Keeps(g, s, I) == /\ g[0] = <<>>
                  /\ \A m \in 1..Len(s) : g[m] = Extended(g[m - 1], s, I, m)

(* Kept is computed by a function that does what its definition says. *)
LEMMA KeptDef ==
  ASSUME NEW A, NEW s \in Seq(A), NEW I, NEW B, \A i \in 1..Len(s) : i \in I => s[i] \in B
  PROVE  \E g \in [0..Len(s) -> Seq(B)] : Keeps(g, s, I) /\ Kept(s, I) = g[Len(s)]
<1> DEFINE n == Len(s)
           next == [x \in (1..n) \X Seq(B) |-> Extended(x[2], s, I, x[1])]
           Is(g) == g = [m \in 0..n |-> IF m = 0 THEN <<>> ELSE Extended(g[m - 1], s, I, m)]
           k == CHOOSE g : Is(g)
<1>1. n \in Nat
  OBVIOUS
<1>2. next \in [(1..n) \X Seq(B) -> Seq(B)]
  <2>1. \A m \in 1..n, b \in Seq(B) : Extended(b, s, I, m) \in Seq(B)
    BY DEF Extended
  <2> QED
    BY <2>1
<1>3. PICK g \in [0..n -> Seq(B)] : Rounds(g, n, <<>>, next)
  <2>1. <<>> \in Seq(B)
    OBVIOUS
  <2> HIDE DEF next, n
  <2> QED
    BY <1>1, <1>2, <2>1, RoundsExist
<1>4. g[0] = <<>> /\ \A m \in 1..n : g[m] = Extended(g[m - 1], s, I, m)
  <2>1. ASSUME NEW m \in 1..n PROVE g[m - 1] \in Seq(B)
    OBVIOUS
  <2>2. ASSUME NEW m \in 1..n PROVE next[<<m, g[m - 1]>>] = Extended(g[m - 1], s, I, m)
    BY <2>1
  <2> QED
    BY <1>3, <2>2 DEF Rounds
<1>5. Is(g)
  BY <1>4
<1>6. Is(k)
  BY <1>5
<1>7. Kept(s, I) = k[n]
  BY DEF Kept, Extended
<1>8. k[0] = <<>> /\ \A m \in 1..n : k[m] = Extended(k[m - 1], s, I, m)
  <2>1. 0 \in 0..n /\ \A m \in 1..n : m \in 0..n /\ m # 0
    BY <1>1
  <2> HIDE DEF k
  <2> QED
    BY <1>6, <2>1
<1>9. k[n] = g[n]
  <2>1. \A m \in 1..n : k[m - 1] = g[m - 1] => k[m] = g[m]
    BY <1>4, <1>8
  <2> HIDE DEF k, n
  <2> QED
    BY <1>1, <1>4, <1>8, <2>1, RoundsAgree, ZenonT(60)
<1> HIDE DEF k
<1> QED
  BY <1>4, <1>7, <1>9 DEF Keeps

(* What is kept has the type of what it is kept of. *)
LEMMA KeptType ==
  ASSUME NEW A, NEW s \in Seq(A), NEW I, NEW B, \A i \in 1..Len(s) : i \in I => s[i] \in B
  PROVE  Kept(s, I) \in Seq(B)
<1>1. PICK g \in [0..Len(s) -> Seq(B)] : Kept(s, I) = g[Len(s)]
  BY KeptDef
<1> QED
  BY <1>1

(* Of nothing nothing is kept. *)
LEMMA KeptEmpty == ASSUME NEW I PROVE Kept(<<>>, I) = <<>>
<1>1. <<>> \in Seq({}) /\ Len(<<>>) = 0 /\ \A i \in 1..Len(<<>>) : i \in I => <<>>[i] \in {}
  OBVIOUS
<1>2. PICK g : Keeps(g, <<>>, I) /\ Kept(<<>>, I) = g[Len(<<>>)]
  BY <1>1, KeptDef
<1> QED
  BY <1>1, <1>2 DEF Keeps

(* One more element is kept at the end, or not at all. *)
LEMMA KeptAppend ==
  ASSUME NEW A, NEW s \in Seq(A), NEW e \in A, NEW I, NEW J,
         \A i \in 1..Len(s) : i \in I <=> i \in J
  PROVE  Kept(Append(s, e), J) = IF Len(s) + 1 \in J THEN Append(Kept(s, I), e) ELSE Kept(s, I)
<1> DEFINE t == Append(s, e)
           n == Len(s)
<1>1. n \in Nat /\ t \in Seq(A) /\ Len(t) = n + 1 /\ t[n + 1] = e /\ \A i \in 1..n : t[i] = s[i]
  OBVIOUS
<1>2. PICK g : Keeps(g, s, I) /\ Kept(s, I) = g[n]
  <2>1. \A i \in 1..n : i \in I => s[i] \in A
    OBVIOUS
  <2> QED
    BY <2>1, KeptDef
<1> HIDE DEF t
<1>3. PICK h : Keeps(h, t, J) /\ Kept(t, J) = h[Len(t)]
  <2>1. \A i \in 1..Len(t) : i \in J => t[i] \in A
    BY <1>1
  <2> QED
    BY <1>1, <2>1, KeptDef
<1>4. \A m \in 1..n : g[m - 1] = h[m - 1] => g[m] = h[m]
  BY <1>1, <1>2, <1>3 DEF Keeps, Extended
<1>5. g[n] = h[n]
  <2>1. g[0] = h[0]
    BY <1>2, <1>3 DEF Keeps
  <2> HIDE DEF n
  <2> QED
    BY <1>1, <1>4, <2>1, RoundsAgree
<1>6. h[n + 1] = Extended(h[n], t, J, n + 1)
  BY <1>1, <1>3 DEF Keeps
<1>7. Kept(t, J) = Extended(Kept(s, I), t, J, n + 1)
  BY <1>1, <1>2, <1>3, <1>5, <1>6
<1> QED
  BY <1>1, <1>7 DEF Extended, t

-----------------------------------------------------------------------------
(* The loop of ParseTraceEvents, over a trace of messages from M. *)
EventsOver(M) == [event: {"llm_request", "llm_response"}, task: Agents, body: Seq(M)]
PairsOver(M)  == [request: Seq(M), response: M]
Parsed(M)     == [open: Seq(Seq(M)), pairs: Seq(PairsOver(M))]
Parses(g, s, r) ==
    g[0] = NoEvents /\ \A m \in 1..Len(s) : g[m] = NextEvent(g[m - 1], s[m], r)

(* Before the first event nothing is open and no pair is made. *)
LEMMA NoEventsType == ASSUME NEW M PROVE NoEvents \in Parsed(M)
BY DEF NoEvents, Parsed

(* What each kind of event does. *)
LEMMA NextRequest ==
  ASSUME NEW acc, NEW e, NEW r, e.event = "llm_request"
  PROVE  NextEvent(acc, e, r) = [acc EXCEPT !.open = <<e.body>>]
BY DEF NextEvent

(* A response closes the open request, and makes a pair if it can be used. *)
LEMMA NextResponse ==
  ASSUME NEW acc, NEW e, NEW r, e.event = "llm_response", acc.open # <<>>
  PROVE  NextEvent(acc, e, r) = Closed(acc, e.body, r)
BY DEF NextEvent

(* A response without an open request changes nothing. *)
LEMMA NextUnasked ==
  ASSUME NEW acc, NEW e, NEW r, e.event = "llm_response", acc.open = <<>>
  PROVE  NextEvent(acc, e, r) = acc
BY DEF NextEvent

(* One event keeps the type of what is parsed. *)
LEMMA NextEventType ==
  ASSUME NEW M, NEW acc \in Parsed(M), NEW e \in EventsOver(M), NEW r
  PROVE  NextEvent(acc, e, r) \in Parsed(M)
<1>1. /\ e.event \in {"llm_request", "llm_response"} /\ e.body \in Seq(M)
      /\ acc.open \in Seq(Seq(M)) /\ acc.pairs \in Seq(PairsOver(M))
  BY DEF Parsed, EventsOver
<1>2. CASE e.event = "llm_request"
  <2>1. NextEvent(acc, e, r) = [acc EXCEPT !.open = <<e.body>>]
    BY <1>2, NextRequest
  <2>2. <<e.body>> \in Seq(Seq(M))
    BY <1>1
  <2> QED
    BY <1>1, <2>1, <2>2 DEF Parsed
<1>3. CASE e.event = "llm_response" /\ acc.open = <<>>
  BY <1>3, NextUnasked
<1>4. CASE e.event = "llm_response" /\ acc.open # <<>>
  <2> DEFINE pair == [request |-> acc.open[1], response |-> e.body[1]]
             pairs == IF e.body # <<>> /\ Usable(e.body[1], r) THEN Append(acc.pairs, pair)
                      ELSE acc.pairs
  <2>1. NextEvent(acc, e, r) = [open |-> <<>>, pairs |-> pairs]
    BY <1>4, NextResponse DEF Closed
  <2>2. ASSUME e.body # <<>> PROVE pair \in PairsOver(M)
    <3>1. acc.open[1] \in Seq(M)
      BY <1>1, <1>4
    <3>2. e.body[1] \in M
      BY <1>1, <2>2
    <3> QED
      BY <3>1, <3>2 DEF PairsOver
  <2> HIDE DEF pair
  <2>3. pairs \in Seq(PairsOver(M))
    BY <1>1, <2>2
  <2> HIDE DEF pairs
  <2>4. <<>> \in Seq(Seq(M))
    OBVIOUS
  <2> QED
    BY <2>1, <2>3, <2>4 DEF Parsed
<1> QED
  BY <1>1, <1>2, <1>3, <1>4

(* ParseTraceEvents is computed by a function that does what its definition says. *)
LEMMA ParseDef ==
  ASSUME NEW M, NEW s \in Seq(EventsOver(M)), NEW r
  PROVE  \E g \in [0..Len(s) -> Parsed(M)] : Parses(g, s, r) /\ ParseTraceEvents(s, r) = g[Len(s)]
<1> DEFINE n == Len(s)
           next == [x \in (1..n) \X Parsed(M) |-> NextEvent(x[2], s[x[1]], r)]
           Is(g) == g = [m \in 0..n |-> IF m = 0 THEN NoEvents ELSE NextEvent(g[m - 1], s[m], r)]
           k == CHOOSE g : Is(g)
<1>1. n \in Nat
  OBVIOUS
<1>2. next \in [(1..n) \X Parsed(M) -> Parsed(M)]
  <2>1. \A m \in 1..n : s[m] \in EventsOver(M)
    OBVIOUS
  <2>2. \A m \in 1..n, acc \in Parsed(M) : NextEvent(acc, s[m], r) \in Parsed(M)
    BY <2>1, NextEventType
  <2> QED
    BY <2>2
<1>3. PICK g \in [0..n -> Parsed(M)] : Rounds(g, n, NoEvents, next)
  <2>1. NoEvents \in Parsed(M)
    BY NoEventsType
  <2> HIDE DEF next, n
  <2> QED
    BY <1>1, <1>2, <2>1, RoundsExist
<1>4. g[0] = NoEvents /\ \A m \in 1..n : g[m] = NextEvent(g[m - 1], s[m], r)
  <2>1. ASSUME NEW m \in 1..n PROVE g[m - 1] \in Parsed(M)
    OBVIOUS
  <2>2. ASSUME NEW m \in 1..n PROVE next[<<m, g[m - 1]>>] = NextEvent(g[m - 1], s[m], r)
    BY <2>1
  <2> QED
    BY <1>3, <2>2 DEF Rounds
<1>5. Is(g)
  BY <1>4
<1>6. Is(k)
  BY <1>5
<1>7. ParseTraceEvents(s, r) = k[n]
  BY DEF ParseTraceEvents
<1>8. k[0] = NoEvents /\ \A m \in 1..n : k[m] = NextEvent(k[m - 1], s[m], r)
  <2>1. 0 \in 0..n /\ \A m \in 1..n : m \in 0..n /\ m # 0
    BY <1>1
  <2> HIDE DEF k
  <2> QED
    BY <1>6, <2>1
<1>9. k[n] = g[n]
  <2>1. \A m \in 1..n : k[m - 1] = g[m - 1] => k[m] = g[m]
    BY <1>4, <1>8
  <2> HIDE DEF k, n
  <2> QED
    BY <1>1, <1>4, <1>8, <2>1, RoundsAgree, ZenonT(60)
<1> HIDE DEF k
<1> QED
  BY <1>4, <1>7, <1>9 DEF Parses

(* What is parsed of events has the type of their bodies. *)
LEMMA ParseType ==
  ASSUME NEW M, NEW s \in Seq(EventsOver(M)), NEW r PROVE ParseTraceEvents(s, r) \in Parsed(M)
<1>1. PICK g \in [0..Len(s) -> Parsed(M)] : ParseTraceEvents(s, r) = g[Len(s)]
  BY ParseDef
<1> QED
  BY <1>1

(* Of no events nothing is parsed. *)
LEMMA ParseEmpty == ASSUME NEW r PROVE ParseTraceEvents(<<>>, r) = NoEvents
<1>1. <<>> \in Seq(EventsOver({})) /\ Len(<<>>) = 0
  OBVIOUS
<1>2. PICK g : Parses(g, <<>>, r) /\ ParseTraceEvents(<<>>, r) = g[Len(<<>>)]
  BY <1>1, ParseDef
<1> QED
  BY <1>1, <1>2 DEF Parses

(* One more event is one more round of the loop. *)
LEMMA ParseAppend ==
  ASSUME NEW M, NEW s \in Seq(EventsOver(M)), NEW e \in EventsOver(M), NEW r
  PROVE  ParseTraceEvents(Append(s, e), r) = NextEvent(ParseTraceEvents(s, r), e, r)
<1> DEFINE t == Append(s, e)
           n == Len(s)
<1>1. n \in Nat /\ t \in Seq(EventsOver(M)) /\ Len(t) = n + 1 /\ t[n + 1] = e
      /\ \A i \in 1..n : t[i] = s[i]
  OBVIOUS
<1>2. PICK g : Parses(g, s, r) /\ ParseTraceEvents(s, r) = g[n]
  BY ParseDef
<1> HIDE DEF t
<1>3. PICK h : Parses(h, t, r) /\ ParseTraceEvents(t, r) = h[Len(t)]
  BY <1>1, ParseDef
<1>4. \A m \in 1..n : g[m - 1] = h[m - 1] => g[m] = h[m]
  BY <1>1, <1>2, <1>3 DEF Parses
<1>5. g[n] = h[n]
  <2>1. g[0] = h[0]
    BY <1>2, <1>3 DEF Parses
  <2> HIDE DEF n
  <2> QED
    BY <1>1, <1>4, <2>1, RoundsAgree
<1>6. h[n + 1] = NextEvent(h[n], e, r)
  BY <1>1, <1>3 DEF Parses
<1> QED
  BY <1>1, <1>2, <1>3, <1>5, <1>6 DEF t

(* If no message tells it, it does not matter whether reasoning is asked for. *)
LEMMA ParseSame ==
  ASSUME NEW M, \A m \in M : Usable(m, TRUE) <=> Usable(m, FALSE),
         NEW s \in Seq(EventsOver(M)), NEW r \in BOOLEAN
  PROVE  ParseTraceEvents(s, r) = ParseTraceEvents(s, FALSE)
<1>1. PICK n : n = Len(s) /\ n \in Nat
  OBVIOUS
<1>2. PICK g : Parses(g, s, r) /\ ParseTraceEvents(s, r) = g[n]
  BY <1>1, ParseDef
<1>3. PICK h : Parses(h, s, FALSE) /\ ParseTraceEvents(s, FALSE) = h[n]
  BY <1>1, ParseDef
<1>4. ASSUME NEW acc, NEW m \in 1..n
      PROVE  NextEvent(acc, s[m], r) = NextEvent(acc, s[m], FALSE)
  <2>1. s[m] \in EventsOver(M)
    BY <1>1
  <2>2. s[m].body \in Seq(M)
    BY <2>1 DEF EventsOver
  <2>3. s[m].body # <<>> => s[m].body[1] \in M
    BY <2>2
  <2>4. s[m].body # <<>> => (Usable(s[m].body[1], r) <=> Usable(s[m].body[1], FALSE))
    BY <2>3
  <2>5. Closed(acc, s[m].body, r) = Closed(acc, s[m].body, FALSE)
    BY <2>4 DEF Closed
  <2> QED
    BY <2>5 DEF NextEvent
<1>5. g[0] = h[0] /\ \A m \in 1..n : g[m - 1] = h[m - 1] => g[m] = h[m]
  BY <1>1, <1>2, <1>3, <1>4 DEF Parses
<1>6. g[n] = h[n]
  BY <1>1, <1>5, RoundsAgree
<1> QED
  BY <1>2, <1>3, <1>6

-----------------------------------------------------------------------------
(* The loop of GroupIntoConversations, over pairs from P. *)
Some(P)      == Seq(P) \ {<<>>}
Groups(g, s) == g[0] = <<>> /\ \A m \in 1..Len(s) : g[m] = NextPair(g[m - 1], s[m])

(* One pair keeps the type of the groups, none of which is empty. *)
LEMMA NextPairType ==
  ASSUME NEW P, NEW groups \in Seq(Some(P)), NEW pair \in P
  PROVE  NextPair(groups, pair) \in Seq(Some(P))
<1>1. <<pair>> \in Some(P)
  BY DEF Some
<1>2. Append(groups, <<pair>>) \in Seq(Some(P))
  BY <1>1
<1>3. ASSUME groups # <<>> PROVE [groups EXCEPT ![Len(groups)] = Append(@, pair)] \in Seq(Some(P))
  <2>1. Len(groups) \in DOMAIN groups /\ groups[Len(groups)] \in Seq(P)
    BY <1>3 DEF Some
  <2>2. Append(groups[Len(groups)], pair) \in Some(P)
    BY <2>1 DEF Some
  <2> QED
    BY <2>1, <2>2
<1> QED
  BY <1>2, <1>3 DEF NextPair

(* GroupIntoConversations is computed by a function that does what its definition says. *)
LEMMA GroupDef ==
  ASSUME NEW P, NEW s \in Seq(P)
  PROVE  \E g \in [0..Len(s) -> Seq(Some(P))] : Groups(g, s) /\ GroupIntoConversations(s) = g[Len(s)]
<1> DEFINE n == Len(s)
           next == [x \in (1..n) \X Seq(Some(P)) |-> NextPair(x[2], s[x[1]])]
           Is(g) == g = [m \in 0..n |-> IF m = 0 THEN <<>> ELSE NextPair(g[m - 1], s[m])]
           k == CHOOSE g : Is(g)
<1>1. n \in Nat
  OBVIOUS
<1>2. next \in [(1..n) \X Seq(Some(P)) -> Seq(Some(P))]
  <2>1. \A m \in 1..n : s[m] \in P
    OBVIOUS
  <2>2. \A m \in 1..n, acc \in Seq(Some(P)) : NextPair(acc, s[m]) \in Seq(Some(P))
    BY <2>1, NextPairType
  <2> QED
    BY <2>2
<1>3. PICK g \in [0..n -> Seq(Some(P))] : Rounds(g, n, <<>>, next)
  <2>1. <<>> \in Seq(Some(P))
    OBVIOUS
  <2> HIDE DEF next, n
  <2> QED
    BY <1>1, <1>2, <2>1, RoundsExist
<1>4. g[0] = <<>> /\ \A m \in 1..n : g[m] = NextPair(g[m - 1], s[m])
  <2>1. ASSUME NEW m \in 1..n PROVE g[m - 1] \in Seq(Some(P))
    OBVIOUS
  <2>2. ASSUME NEW m \in 1..n PROVE next[<<m, g[m - 1]>>] = NextPair(g[m - 1], s[m])
    BY <2>1
  <2> QED
    BY <1>3, <2>2 DEF Rounds
<1>5. Is(g)
  BY <1>4
<1>6. Is(k)
  BY <1>5
<1>7. GroupIntoConversations(s) = k[n]
  BY DEF GroupIntoConversations
<1>8. k[0] = <<>> /\ \A m \in 1..n : k[m] = NextPair(k[m - 1], s[m])
  <2>1. 0 \in 0..n /\ \A m \in 1..n : m \in 0..n /\ m # 0
    BY <1>1
  <2> HIDE DEF k
  <2> QED
    BY <1>6, <2>1
<1>9. k[n] = g[n]
  <2>1. \A m \in 1..n : k[m - 1] = g[m - 1] => k[m] = g[m]
    BY <1>4, <1>8
  <2> HIDE DEF k, n
  <2> QED
    BY <1>1, <1>4, <1>8, <2>1, RoundsAgree, ZenonT(60)
<1> HIDE DEF k
<1> QED
  BY <1>4, <1>7, <1>9 DEF Groups

(* Pairs are grouped into groups of pairs. *)
LEMMA GroupType == ASSUME NEW P, NEW s \in Seq(P) PROVE GroupIntoConversations(s) \in Seq(Some(P))
<1>1. PICK g \in [0..Len(s) -> Seq(Some(P))] : GroupIntoConversations(s) = g[Len(s)]
  BY GroupDef
<1> QED
  BY <1>1

(* Of no pairs there is no group. *)
LEMMA GroupEmpty == GroupIntoConversations(<<>>) = <<>>
<1>1. <<>> \in Seq({}) /\ Len(<<>>) = 0
  OBVIOUS
<1>2. PICK g : Groups(g, <<>>) /\ GroupIntoConversations(<<>>) = g[Len(<<>>)]
  BY <1>1, GroupDef
<1> QED
  BY <1>1, <1>2 DEF Groups

(* One more pair is one more round of the loop. *)
LEMMA GroupAppend ==
  ASSUME NEW P, NEW s \in Seq(P), NEW e \in P
  PROVE  GroupIntoConversations(Append(s, e)) = NextPair(GroupIntoConversations(s), e)
<1> DEFINE t == Append(s, e)
           n == Len(s)
<1>1. n \in Nat /\ t \in Seq(P) /\ Len(t) = n + 1 /\ t[n + 1] = e
      /\ \A i \in 1..n : t[i] = s[i]
  OBVIOUS
<1>2. PICK g : Groups(g, s) /\ GroupIntoConversations(s) = g[n]
  BY GroupDef
<1> HIDE DEF t
<1>3. PICK h : Groups(h, t) /\ GroupIntoConversations(t) = h[Len(t)]
  BY <1>1, GroupDef
<1>4. \A m \in 1..n : g[m - 1] = h[m - 1] => g[m] = h[m]
  BY <1>1, <1>2, <1>3 DEF Groups
<1>5. g[n] = h[n]
  <2>1. g[0] = h[0]
    BY <1>2, <1>3 DEF Groups
  <2> HIDE DEF n
  <2> QED
    BY <1>1, <1>4, <2>1, RoundsAgree
<1>6. h[n + 1] = NextPair(h[n], e)
  BY <1>1, <1>3 DEF Groups
<1> QED
  BY <1>1, <1>2, <1>3, <1>5, <1>6 DEF t

-----------------------------------------------------------------------------
(* What the assumption says of prompts and attempts. *)
LEMMA Numbers ==
  /\ PromptLen \in Seq(Nat) /\ \A c \in DOMAIN PromptLen : PromptLen[c] \in Nat \ {0}
  /\ 1 \in 1..MaxAttempts /\ Len(PromptLen) \in Nat \ {0} /\ DOMAIN PromptLen = 1..Len(PromptLen)
<1>1. PromptLen \in Seq(Nat \ {0}) /\ PromptLen # <<>> /\ MaxAttempts \in Nat \ {0}
  BY FlowAssumption
<1>2. PromptLen \in Seq(Nat)
  <2>1. Nat \ {0} \subseteq Nat
    OBVIOUS
  <2>2. \A c \in 1..Len(PromptLen) : PromptLen[c] \in Nat
    BY <1>1
  <2> QED
    BY <1>1, <2>2
<1> QED
  BY <1>1, <1>2

(* Message makes a message of its role and content, without reasoning. *)
LEMMA MessageType ==
  ASSUME NEW role \in {"user", "assistant", "tool"}, NEW content \in Content \cup {Nothing}
  PROVE  /\ Message(role, content) \in Messages
         /\ Message(role, content).role = role /\ Message(role, content).content = content
         /\ Message(role, content).reasoning = NoReasoning
BY DEF Message, Messages

(* A prompt is as long as its conversation says, and all of users. *)
LEMMA PromptType ==
  ASSUME NEW a \in Agents, NEW c \in DOMAIN PromptLen
  PROVE  /\ Prompt(a, c) \in Seq(Messages) /\ Len(Prompt(a, c)) = PromptLen[c]
         /\ \A i \in 1..PromptLen[c] : Prompt(a, c)[i] = Message("user", <<a, c, i, 1>>)
         /\ \A i \in 1..PromptLen[c] : <<a, c, i, 1>> \in Content
<1>1. PromptLen[c] \in Nat /\ c \in Nat
  BY Numbers
<1>2. \A i \in 1..PromptLen[c] : <<a, c, i, 1>> \in Content
  BY <1>1, Numbers DEF Content
<1>3. \A i \in 1..PromptLen[c] : Message("user", <<a, c, i, 1>>) \in Messages
  BY <1>2, MessageType
<1>4. \A i \in 1..PromptLen[c] : Prompt(a, c)[i] = Message("user", <<a, c, i, 1>>)
  BY DEF Prompt
<1>5. Prompt(a, c) \in [1..PromptLen[c] -> Messages]
  BY <1>3 DEF Prompt
<1>6. Prompt(a, c) \in Seq(Messages) /\ Len(Prompt(a, c)) = PromptLen[c]
  BY <1>1, <1>5
<1> QED
  BY <1>2, <1>4, <1>6

(* The current conversation of an agent is the one after the finished ones. *)
LEMMA CountType ==
  ASSUME TypeOK, NEW a \in Agents
  PROVE  /\ history[a] \in Seq(Messages) /\ finished[a] \in Seq(Seq(Messages))
         /\ ConversationOf(a) \in Nat \ {0} /\ Len(finished[a]) = ConversationOf(a) - 1
         /\ <<a, ConversationOf(a), Len(history[a]) + 1, attempt[a]>> \in Content
         /\ <<a, ConversationOf(a), Len(history[a]) + 1, 1>> \in Content
<1>1. /\ history[a] \in Seq(Messages) /\ finished[a] \in Seq(Seq(Messages))
      /\ attempt[a] \in 1..MaxAttempts
  BY DEF TypeOK
<1>2. ConversationOf(a) \in Nat \ {0} /\ Len(finished[a]) = ConversationOf(a) - 1
  BY <1>1 DEF ConversationOf
<1>3. Len(history[a]) + 1 \in Nat
  BY <1>1
<1> QED
  BY <1>1, <1>2, <1>3, Numbers DEF Content

(* A response is an assistant's and brings its reasoning; the agent keeps it without. *)
LEMMA ResponseType ==
  ASSUME TypeOK, NEW a \in Agents
  PROVE  /\ Response(a) \in Messages /\ Sent(Response(a)) \in Messages
         /\ Response(a).role = "assistant" /\ Response(a).reasoning = Response(a).content
         /\ Response(a).content = <<a, ConversationOf(a), Len(history[a]) + 1, attempt[a]>>
         /\ Sent(Response(a)) = Message("assistant", Response(a).content)
<1>1. <<a, ConversationOf(a), Len(history[a]) + 1, attempt[a]>> \in Content
  BY CountType
<1> QED
  BY <1>1 DEF Response, NextContent, Sent, Message, Messages

(* An empty response is one too, and the agent may keep it without its reasoning. *)
LEMMA EmptyType ==
  ASSUME TypeOK, NEW a \in Agents
  PROVE  /\ EmptyResponse(a) \in Messages /\ Sent(EmptyResponse(a)) \in Messages
         /\ EmptyResponse(a).role = "assistant" /\ EmptyResponse(a).content = Nothing
         /\ "thought" \notin faults => EmptyResponse(a).reasoning = NoReasoning
         /\ Sent(EmptyResponse(a)) = Message("assistant", Nothing)
<1>1. NextContent(a) \in Content
  BY CountType DEF NextContent
<1> QED
  BY <1>1 DEF EmptyResponse, Sent, Message, Messages

(* The task of an agent is a task. *)
LEMMA TaskOfType == ASSUME NEW a \in Agents PROVE TaskOf(a) \in Agents
BY FlowAssumption DEF TaskOf

(* What is recorded is one event at the end of the trace. *)
LEMMA RecordType ==
  ASSUME NEW M, trace \in Seq(EventsOver(M)), NEW a \in Agents,
         NEW event \in {"llm_request", "llm_response"}, NEW body \in Seq(M), Record(event, a, body)
  PROVE  \E e \in EventsOver(M) : /\ trace' = Append(trace, e)
                                  /\ e.event = event /\ e.task = TaskOf(a) /\ e.body = body
<1> DEFINE e == [event |-> event, task |-> TaskOf(a), body |-> body]
<1>1. e \in EventsOver(M)
  BY TaskOfType DEF EventsOver
<1>2. trace' = Append(trace, e)
  BY DEF Record
<1> QED
  BY <1>1, <1>2

(* The trace of a task has the type of the whole. *)
LEMMA TraceOfType ==
  ASSUME NEW M, trace \in Seq(EventsOver(M)), NEW t PROVE TraceOf(t) \in Seq(EventsOver(M))
BY KeptType DEF TraceOf

(* The types hold initially. *)
LEMMA InitType == Init => TypeOK
<1>1. ASSUME Init PROVE TypeOK
  <2>1. history \in [Agents -> Seq(Messages)]
    <3>1. 1 \in DOMAIN PromptLen
      BY Numbers
    <3>2. \A a \in Agents : Prompt(a, 1) \in Seq(Messages)
      BY <3>1, PromptType
    <3> QED
      BY <1>1, <3>2 DEF Init
  <2>2. finished \in [Agents -> Seq(Seq(Messages))] /\ trace \in Seq(Events)
    BY <1>1 DEF Init
  <2>3. faults \in SUBSET FaultKinds
    BY <1>1, FlowAssumption DEF Init
  <2>4. attempt \in [Agents -> 1..MaxAttempts]
    BY <1>1, Numbers DEF Init
  <2>5. /\ pc \in [Agents -> {"ready", "waiting", "answered"}] /\ answers \in [Agents -> Nat]
        /\ late \in [Agents -> SUBSET Messages] /\ Running
    BY <1>1 DEF Init, Running
  <2> QED
    BY <2>1, <2>2, <2>3, <2>4, <2>5 DEF TypeOK
<1> QED
  BY <1>1

(* What each kind of step does to the trace. *)
LEMMA Recording ==
  ASSUME TypeOK, NEW a \in Agents, AgentStep(a)
  PROVE  /\ Running
         /\ \/ trace' = trace
            \/ pc[a] = "ready" /\ Record("llm_request", a, history[a])
            \/ pc[a] = "waiting" /\ Record("llm_response", a, <<Response(a)>>)
            \/ pc[a] = "waiting" /\ Record("llm_response", a, <<EmptyResponse(a)>>)
            \/ pc[a] = "waiting" /\ Record("llm_response", a, <<>>)
            \/ \E r \in late[a] : Record("llm_response", a, <<r>>)
BY DEF AgentStep, Ask, Answer, AnswerUnrecorded, AnswerEmpty, ProviderFails, GiveUp,
   LateAnswer, Continue, NewConversation, Accept, AskAgain

(* A step of an agent keeps the type of the trace. *)
LEMMA TraceType == ASSUME TypeOK, NEW a \in Agents, AgentStep(a) PROVE trace' \in Seq(Events)
<1>1. trace \in Seq(EventsOver(Messages)) /\ Events = EventsOver(Messages)
  BY DEF TypeOK, Events, EventsOver
<1>2. /\ history[a] \in Seq(Messages) /\ late[a] \subseteq Messages
      /\ Response(a) \in Messages /\ EmptyResponse(a) \in Messages
  BY CountType, ResponseType, EmptyType DEF TypeOK
<1>3. ASSUME NEW event \in {"llm_request", "llm_response"}, NEW body \in Seq(Messages),
             Record(event, a, body)
      PROVE  trace' \in Seq(Events)
  <2>1. PICK e \in EventsOver(Messages) : trace' = Append(trace, e)
    BY <1>1, <1>3, RecordType
  <2> QED
    BY <1>1, <2>1
<1>4. \A r \in Messages : <<r>> \in Seq(Messages)
  OBVIOUS
<1>5. <<>> \in Seq(Messages)
  OBVIOUS
<1>6. CASE trace' = trace
  BY <1>1, <1>6
<1> QED
  BY <1>2, <1>3, <1>4, <1>5, <1>6, Recording

-----------------------------------------------------------------------------
(* The messages of agent a. *)
Mine(a) == {m \in Messages : /\ m.content # Nothing => m.content[1] = a
                             /\ m.reasoning # NoReasoning => m.reasoning[1] = a}

(* Without shared tasks an agent has and sends its own messages only. *)
Separate == "shared" \notin faults =>
    /\ \A a \in Agents : history[a] \in Seq(Mine(a)) /\ late[a] \subseteq Mine(a)
    /\ \A i \in DOMAIN trace : trace[i].body \in Seq(Mine(trace[i].task))

(* What is filed is what the trace has of the task. *)
Filed == ~Running => files = [t \in Agents |-> TraceOf(t)]

(* Conversation c of agent a: after the prompt each second message is an answer. *)
Conversation(a, c) == IF c = ConversationOf(a) THEN history[a] ELSE finished[a][c]
AnswerAt(c, j)     == PromptLen[c] + 2 * j + 1
Shaped(h, c) ==
    \A i \in DOMAIN h : /\ h[i].reasoning = NoReasoning
                        /\ h[i].role # "assistant" => h[i].content[2] = c
                        /\ h[i].role = "assistant" <=> \E j \in Nat : i = AnswerAt(c, j)
Ended(h, c) == \E j \in Nat : Len(h) = AnswerAt(c, j)
Asking(h, c) == \E j \in Nat : Len(h) + 1 = AnswerAt(c, j)

Shape(a) ==
    LET c == ConversationOf(a) IN
    /\ c <= Len(PromptLen) /\ Shaped(history[a], c)
    /\ IF pc[a] = "answered" THEN Ended(history[a], c) ELSE Asking(history[a], c)
    /\ \A k \in DOMAIN finished[a] : Shaped(finished[a][k], k) /\ Ended(finished[a][k], k)
Shapes == \A a \in Agents : Shape(a)

(* What is parsed without the reasoning; if no answer is only reasoning it  *)
(* is the same with it.                                                    *)
ParsedOf(a) == ParseTraceEvents(TraceOf(a), FALSE)
Telling == {m \in Messages : Usable(m, TRUE) <=> Usable(m, FALSE)}
Plain == "thought" \notin faults =>
    trace \in Seq(EventsOver(Telling)) /\ \A a \in Agents : late[a] \subseteq Telling
GroupsOf(a) == GroupIntoConversations(ParsedOf(a).pairs)

(* An agent that waits has its request open, if nobody else writes to its trace. *)
Opens == InTurn => \A a \in Agents :
    late[a] = {} /\ (pc[a] = "waiting" => ParsedOf(a).open = <<history[a]>>)

(* A pair is an answer with all that came before it. *)
Pair(a, c, p) ==
    LET h == Conversation(a, c)
    IN  [request  |-> SubSeq(h, 1, p - 1),
         response |-> [h[p] EXCEPT !.reasoning = h[p].content]]
Given(a, pair) ==
    \E c \in 1..ConversationOf(a) : \E p \in DOMAIN Conversation(a, c) :
        Conversation(a, c)[p].role = "assistant" /\ pair = Pair(a, c, p)
AllGiven == InTurn =>
    \A a \in Agents : \A i \in DOMAIN ParsedOf(a).pairs : Given(a, ParsedOf(a).pairs[i])

(* A group is all the answers of a conversation. *)
Tells(a, c, group) ==
    /\ group # <<>> /\ Len(Conversation(a, c)) <= AnswerAt(c, Len(group)) - 1
    /\ AnswerAt(c, Len(group) - 1) <= Len(Conversation(a, c))
    /\ \A j \in DOMAIN group : group[j] = Pair(a, c, AnswerAt(c, j - 1))
HasAnswer(a) == Len(history[a]) > PromptLen[ConversationOf(a)]
GroupedFor(a) ==
    /\ Len(GroupsOf(a)) = IF HasAnswer(a) THEN ConversationOf(a) ELSE Len(finished[a])
    /\ \A k \in DOMAIN GroupsOf(a) : Tells(a, k, GroupsOf(a)[k])
Grouped == faults \subseteq {"error", "empty"} /\ Separable => \A a \in Agents : GroupedFor(a)
(* Every step keeps the types. *)
LEMMA TypeStep == ASSUME TypeOK, [Next]_vars PROVE TypeOK'
<1> DEFINE Agent == /\ faults' = faults
                    /\ pc' \in [Agents -> {"ready", "waiting", "answered"}]
                    /\ history' \in [Agents -> Seq(Messages)]
                    /\ finished' \in [Agents -> Seq(Seq(Messages))]
                    /\ attempt' \in [Agents -> 1..MaxAttempts] /\ answers' \in [Agents -> Nat]
                    /\ late' \in [Agents -> SUBSET Messages] /\ files' = files
<1>1. ASSUME NEW a \in Agents, AgentStep(a) PROVE TypeOK'
  <2>1. /\ history[a] \in Seq(Messages) /\ Response(a) \in Messages
        /\ Sent(Response(a)) \in Messages /\ Sent(EmptyResponse(a)) \in Messages
    BY CountType, ResponseType, EmptyType
  <2>2. ASSUME Ask(a) PROVE Agent
    BY <2>2 DEF Ask, Goto, TypeOK
  <2>3. ASSUME NEW m, Sent(m) \in Messages, Accept(a, m) PROVE Agent
    BY <2>1, <2>3 DEF Accept, Goto, TypeOK
  <2>4. ASSUME AskAgain(a), late' = late \/ late' = [late EXCEPT ![a] = @ \cup {Response(a)}]
        PROVE  Agent
    <3>1. attempt[a] + 1 \in 1..MaxAttempts
      BY <2>4, FlowAssumption DEF AskAgain, TypeOK
    <3>2. late' \in [Agents -> SUBSET Messages]
      BY <2>1, <2>4, ZenonT(60) DEF TypeOK
    <3> QED
      BY <2>4, <3>1, <3>2 DEF AskAgain, Goto, TypeOK
  <2>5. ASSUME LateAnswer(a) PROVE Agent
    BY <2>5 DEF LateAnswer, TypeOK
  <2>6. ASSUME Continue(a) PROVE Agent
    <3>1. \A role \in {"tool", "user"} :
              Message(role, <<a, ConversationOf(a), Len(history[a]) + 1, 1>>) \in Messages
      BY CountType, MessageType
    <3> QED
      BY <2>1, <2>6, <3>1 DEF Continue, Goto, TypeOK
  <2>7. ASSUME NewConversation(a) PROVE Agent
    <3>1. ConversationOf(a) + 1 \in DOMAIN PromptLen
      <4>1. ConversationOf(a) \in Nat /\ ConversationOf(a) < Len(PromptLen)
        BY <2>7, CountType DEF NewConversation
      <4> QED
        BY <4>1, Numbers
    <3>2. Prompt(a, ConversationOf(a) + 1) \in Seq(Messages)
      BY <3>1, PromptType
    <3>3. Append(finished[a], history[a]) \in Seq(Seq(Messages))
      <4>1. finished[a] \in Seq(Seq(Messages))
        BY CountType
      <4> QED
        BY <2>1, <4>1
    <3> QED
      BY <2>7, <3>2, <3>3 DEF NewConversation, Goto, TypeOK
  <2>8. Agent
    <3>1. CASE Answer(a) \/ AnswerUnrecorded(a) \/ AnswerEmpty(a) \/ ProviderFails(a) \/ GiveUp(a)
      BY <2>1, <2>3, <2>4, <3>1 DEF Answer, AnswerUnrecorded, AnswerEmpty, ProviderFails, GiveUp
    <3> QED
      BY <1>1, <2>2, <2>5, <2>6, <2>7, <3>1 DEF AgentStep
  <2>9. trace' \in Seq(Events) /\ Running'
    BY <1>1, <2>8, TraceType, Recording DEF Running
  <2> QED
    BY <2>8, <2>9 DEF TypeOK
<1>2. CASE Distribute
  <2>1. \A t \in Agents : TraceOf(t) \in Seq(Events)
    <3>1. trace \in Seq(EventsOver(Messages)) /\ Events = EventsOver(Messages)
      BY DEF TypeOK, Events, EventsOver
    <3> QED
      BY <3>1, TraceOfType
  <2>2. files' \in [Agents -> Seq(Events)]
    BY <1>2, <2>1 DEF Distribute
  <2> QED
    BY <1>2, <2>2 DEF Distribute, TypeOK
<1>3. CASE UNCHANGED vars
  BY <1>3 DEF vars, TypeOK, Running
<1> QED
  BY <1>1, <1>2, <1>3 DEF Next

(* What no step of an agent touches. *)
LEMMA Keeping ==
  ASSUME TypeOK, NEW a \in Agents, AgentStep(a)
  PROVE  /\ faults' = faults /\ files' = files
         /\ \A b \in Agents \ {a} : /\ pc'[b] = pc[b] /\ history'[b] = history[b]
                                    /\ finished'[b] = finished[b] /\ late'[b] = late[b]
<1> USE DEF TypeOK, Goto
<1>1. CASE Ask(a)
  BY <1>1 DEF Ask
<1>2. CASE \E m : Accept(a, m)
  BY <1>2 DEF Accept
<1>3. CASE ProviderFails(a) \/ GiveUp(a) \/ (AnswerEmpty(a) /\ AskAgain(a))
  BY <1>3 DEF ProviderFails, GiveUp, AnswerEmpty, AskAgain
<1>4. CASE LateAnswer(a)
  BY <1>4 DEF LateAnswer
<1>5. CASE Continue(a)
  BY <1>5 DEF Continue
<1>6. CASE NewConversation(a)
  BY <1>6 DEF NewConversation
<1> QED
  <2>1. CASE Answer(a) \/ AnswerUnrecorded(a) \/ AnswerEmpty(a)
    BY <1>2, <1>3, <2>1 DEF Answer, AnswerUnrecorded, AnswerEmpty
  <2> QED
    BY <1>1, <1>3, <1>4, <1>5, <1>6, <2>1 DEF AgentStep

(* Every step keeps the files what the trace has of their tasks. *)
LEMMA FiledStep == ASSUME TypeOK, Filed, [Next]_vars PROVE Filed'
<1>1. ASSUME NEW a \in Agents, AgentStep(a) PROVE Filed'
  BY <1>1, Keeping, Recording DEF Filed, Running
<1>2. CASE Distribute
  <2>1. \A t \in Agents : TraceOf(t)' = TraceOf(t)
    BY <1>2 DEF Distribute, TraceOf
  <2> QED
    BY <1>2, <2>1 DEF Distribute, Filed
<1>3. CASE UNCHANGED vars
  <2>1. \A t \in Agents : TraceOf(t)' = TraceOf(t)
    BY <1>3 DEF vars, TraceOf
  <2> QED
    BY <1>3, <2>1 DEF vars, Filed, Running
<1> QED
  BY <1>1, <1>2, <1>3 DEF Next

(* A message is its agent's if its content is. *)
LEMMA MineIs ==
  ASSUME NEW a \in Agents, NEW role \in {"user", "assistant", "tool"},
         NEW content \in Content \cup {Nothing}, content # Nothing => content[1] = a
  PROVE  Message(role, content) \in Mine(a)
BY MessageType DEF Mine

(* A prompt is of its agent's messages. *)
LEMMA MinePrompt ==
  ASSUME NEW a \in Agents, NEW c \in DOMAIN PromptLen PROVE Prompt(a, c) \in Seq(Mine(a))
<1>1. Prompt(a, c) \in Seq(Messages) /\ Len(Prompt(a, c)) = PromptLen[c]
  BY PromptType
<1>2. ASSUME NEW i \in 1..PromptLen[c] PROVE Prompt(a, c)[i] \in Mine(a)
  <2>1. <<a, c, i, 1>> \in Content /\ <<a, c, i, 1>>[1] = a
    BY PromptType
  <2>2. Message("user", <<a, c, i, 1>>) \in Mine(a)
    BY <2>1, MineIs
  <2> QED
    BY <2>2, PromptType
<1> QED
  BY <1>1, <1>2

(* A response is its agent's, with its reasoning and without. *)
LEMMA MineResponse ==
  ASSUME TypeOK, NEW a \in Agents
  PROVE  /\ Response(a) \in Mine(a) /\ Sent(Response(a)) \in Mine(a)
         /\ EmptyResponse(a) \in Mine(a) /\ Sent(EmptyResponse(a)) \in Mine(a)
<1>1. Response(a).content[1] = a /\ Response(a).content \in Content
  <2> DEFINE content == <<a, ConversationOf(a), Len(history[a]) + 1, attempt[a]>>
  <2>1. content \in Content /\ content[1] = a
    BY CountType
  <2>2. Response(a).content = content
    BY ResponseType
  <2> HIDE DEF content
  <2> QED
    BY <2>1, <2>2
<1>2. Response(a) \in Mine(a)
  BY <1>1, ResponseType DEF Mine
<1>3. Sent(Response(a)) \in Mine(a)
  BY <1>1, ResponseType, MineIs
<1>4. EmptyResponse(a) \in Mine(a)
  <2>1. EmptyResponse(a).reasoning = NoReasoning \/ EmptyResponse(a).reasoning[1] = a
    BY DEF EmptyResponse, NextContent
  <2> QED
    BY <2>1, EmptyType DEF Mine
<1>5. Sent(EmptyResponse(a)) \in Mine(a)
  BY EmptyType, MineIs
<1> QED
  BY <1>2, <1>3, <1>4, <1>5

(* Every step keeps the messages of separate tasks apart. *)
LEMMA SeparateStep == ASSUME TypeOK, Separate, [Next]_vars PROVE Separate'
<1> DEFINE Own(a) == history[a] \in Seq(Mine(a)) /\ late[a] \subseteq Mine(a)
           Written(i) == trace[i].body \in Seq(Mine(trace[i].task))
<1>1. ASSUME NEW a \in Agents, AgentStep(a) PROVE Separate'
  <2>1. SUFFICES ASSUME "shared" \notin faults
                 PROVE  (\A b \in Agents : Own(b)') /\ \A i \in DOMAIN trace' : Written(i)'
    BY <1>1, Keeping DEF Separate, Mine
  <2>2. /\ history[a] \in Seq(Mine(a)) /\ late[a] \subseteq Mine(a)
        /\ Response(a) \in Mine(a) /\ Sent(Response(a)) \in Mine(a)
        /\ EmptyResponse(a) \in Mine(a) /\ Sent(EmptyResponse(a)) \in Mine(a)
    BY <2>1, MineResponse DEF Separate
  <2>3. ASSUME NEW b \in Agents \ {a} PROVE Own(b)'
    <3>1. Own(b)
      BY <2>1 DEF Separate
    <3> QED
      BY <1>1, <3>1, Keeping
  <2>4. history'[a] \in Seq(Mine(a)) /\ late'[a] \subseteq Mine(a)
    <3>1. CASE Ask(a)
      BY <2>2, <3>1 DEF Ask
    <3>2. ASSUME NEW m, Sent(m) \in Mine(a), Accept(a, m)
          PROVE  history'[a] \in Seq(Mine(a)) /\ late'[a] \subseteq Mine(a)
      BY <2>2, <3>2 DEF Accept, TypeOK
    <3>3. CASE ProviderFails(a) \/ GiveUp(a) \/ (AnswerEmpty(a) /\ AskAgain(a))
      BY <2>2, <3>3 DEF ProviderFails, GiveUp, AnswerEmpty, AskAgain, TypeOK
    <3>4. CASE LateAnswer(a)
      BY <2>2, <3>4 DEF LateAnswer, TypeOK
    <3>5. CASE Continue(a)
      <4> DEFINE content == <<a, ConversationOf(a), Len(history[a]) + 1, 1>>
      <4>1. content \in Content /\ content[1] = a
        BY CountType
      <4>2. \A role \in {"tool", "user"} : Message(role, content) \in Mine(a)
        BY <4>1, MineIs
      <4> QED
        BY <2>2, <3>5, <4>2 DEF Continue, TypeOK
    <3>6. CASE NewConversation(a)
      <4>1. ConversationOf(a) \in Nat /\ ConversationOf(a) < Len(PromptLen)
        BY <3>6, CountType DEF NewConversation
      <4>2. ConversationOf(a) + 1 \in DOMAIN PromptLen
        BY <4>1, Numbers
      <4>3. Prompt(a, ConversationOf(a) + 1) \in Seq(Mine(a))
        BY <4>2, MinePrompt
      <4> QED
        BY <2>2, <3>6, <4>3 DEF NewConversation, TypeOK
    <3> QED
      <4>1. CASE Answer(a) \/ AnswerUnrecorded(a) \/ AnswerEmpty(a)
        BY <2>2, <3>2, <3>3, <4>1 DEF Answer, AnswerUnrecorded, AnswerEmpty
      <4> QED
        BY <1>1, <3>1, <3>3, <3>4, <3>5, <3>6, <4>1 DEF AgentStep
  <2>5. \A i \in DOMAIN trace' : Written(i)'
    <3>1. trace \in Seq(EventsOver(Messages))
      BY DEF TypeOK, Events, EventsOver
    <3>2. ASSUME NEW event \in {"llm_request", "llm_response"}, NEW body \in Seq(Messages),
                 body \in Seq(Mine(a)), Record(event, a, body)
          PROVE  \A i \in DOMAIN trace' : Written(i)'
      <4>1. PICK e \in EventsOver(Messages) :
                trace' = Append(trace, e) /\ e.task = TaskOf(a) /\ e.body = body
        BY <3>1, <3>2, RecordType
      <4>2. e.task = a
        BY <2>1, <4>1 DEF TaskOf
      <4>3. \A i \in 1..Len(trace) : Written(i) /\ trace'[i] = trace[i]
        BY <2>1, <3>1, <4>1 DEF Separate
      <4>4. trace'[Len(trace) + 1] = e /\ DOMAIN trace' = 1..(Len(trace) + 1)
        BY <3>1, <4>1
      <4>5. \A b : Mine(b)' = Mine(b)
        BY DEF Mine
      <4> QED
        BY <3>2, <4>1, <4>2, <4>3, <4>4, <4>5
    <3>3. CASE trace' = trace
      BY <2>1, <3>3 DEF Separate
    <3>4. \A m \in Mine(a) : m \in Messages /\ <<m>> \in Seq(Messages) /\ <<m>> \in Seq(Mine(a))
      BY DEF Mine
    <3>5. <<>> \in Seq(Messages) /\ <<>> \in Seq(Mine(a)) /\ history[a] \in Seq(Messages)
      BY DEF TypeOK
    <3> QED
      BY <1>1, <2>2, <3>2, <3>3, <3>4, <3>5, Recording
  <2> QED
    BY <2>3, <2>4, <2>5
<1>2. CASE Distribute
  BY <1>2 DEF Distribute, Separate
<1>3. CASE UNCHANGED vars
  BY <1>3 DEF vars, Separate
<1> QED
  BY <1>1, <1>2, <1>3 DEF Next

-----------------------------------------------------------------------------
(* What is sent or has content makes a pair with the reasoning or without. *)
LEMMA TellingIs ==
  ASSUME NEW m \in Messages, m.content # Nothing \/ m.reasoning = NoReasoning PROVE m \in Telling
BY DEF Telling, Usable

(* If no answer has only reasoning, every step keeps the trace so. *)
LEMMA PlainStep == ASSUME TypeOK, Shapes, Plain, [Next]_vars PROVE Plain'
<1>1. ASSUME NEW a \in Agents, AgentStep(a) PROVE Plain'
  <2>1. SUFFICES ASSUME "thought" \notin faults
                 PROVE  trace' \in Seq(EventsOver(Telling)) /\ \A b \in Agents : late'[b] \subseteq Telling
    BY <1>1, Keeping DEF Plain, Telling
  <2>2. trace \in Seq(EventsOver(Telling)) /\ \A b \in Agents : late[b] \subseteq Telling
    BY <2>1 DEF Plain
  <2>3. Response(a) \in Telling /\ EmptyResponse(a) \in Telling
    <3>1. Response(a).content # Nothing
      BY ResponseType DEF Nothing
    <3> QED
      BY <2>1, <3>1, ResponseType, EmptyType, TellingIs
  <2>4. history[a] \in Seq(Telling)
    <3>1. history[a] \in Seq(Messages)
      BY CountType
    <3>2. \A i \in DOMAIN history[a] : history[a][i].reasoning = NoReasoning
      BY DEF Shapes, Shape, Shaped
    <3>3. \A i \in DOMAIN history[a] : history[a][i] \in Telling
      BY <3>1, <3>2, TellingIs
    <3> QED
      BY <3>1, <3>3
  <2>5. trace' \in Seq(EventsOver(Telling))
    <3>1. ASSUME NEW event \in {"llm_request", "llm_response"}, NEW body \in Seq(Telling),
                 Record(event, a, body)
          PROVE  trace' \in Seq(EventsOver(Telling))
      <4>1. PICK e \in EventsOver(Telling) : trace' = Append(trace, e)
        BY <2>2, <3>1, RecordType
      <4> QED
        BY <2>2, <4>1
    <3>2. <<>> \in Seq(Telling) /\ \A m \in Telling : <<m>> \in Seq(Telling)
      OBVIOUS
    <3> QED
      BY <1>1, <2>2, <2>3, <2>4, <3>1, <3>2, Recording
  <2>6. \A b \in Agents : late'[b] \subseteq late[b] \cup {Response(a)}
    <3>1. late' = late \/ \E L : L \subseteq late[a] \cup {Response(a)} /\ late' = [late EXCEPT ![a] = L]
      BY <1>1 DEF AgentStep, Ask, Answer, AnswerUnrecorded, AnswerEmpty, ProviderFails, GiveUp,
         LateAnswer, Continue, NewConversation, Accept, AskAgain
    <3> QED
      BY <3>1 DEF TypeOK
  <2> QED
    BY <2>2, <2>3, <2>5, <2>6
<1>2. ASSUME UNCHANGED <<faults, trace, late>> PROVE Plain'
  BY <1>2 DEF Plain, Telling
<1> QED
  BY <1>1, <1>2 DEF Next, Distribute, vars

-----------------------------------------------------------------------------
(* What is exported is made of the messages of the trace. *)
LEMMA AttachType ==
  ASSUME NEW M, \A m, r \in M : [m EXCEPT !.reasoning = r.reasoning] \in M,
         NEW group \in Some(PairsOver(M)), NEW i \in DOMAIN group[Len(group)].request
  PROVE  AttachReasoning(group, i) \in M
<1> DEFINE pair == group[Len(group)]
<1>1. group \in Seq(PairsOver(M)) /\ Len(group) \in 1..Len(group)
  BY DEF Some
<1>2. \A k \in DOMAIN group : group[k].response \in M /\ group[k].request \in Seq(M)
  <2>1. \A k \in DOMAIN group : group[k] \in PairsOver(M)
    BY <1>1
  <2> QED
    BY <2>1 DEF PairsOver
<1>3. pair.request[i] \in M
  BY <1>1, <1>2
<1> QED
  BY <1>2, <1>3 DEF AttachReasoning

(* A record is made of the messages of its group. *)
LEMMA ReconstructType ==
  ASSUME NEW M, \A m, r \in M : [m EXCEPT !.reasoning = r.reasoning] \in M,
         NEW group \in Some(PairsOver(M)), NEW toolResults
  PROVE  ReconstructConversation(group, toolResults, TRUE) \in Seq(M)
<1> DEFINE request == group[Len(group)].request
           final   == group[Len(group)].response
           shown   == [i \in DOMAIN request |-> AttachReasoning(group, i)]
<1>1. request \in Seq(M) /\ final \in M
  <2>1. group \in Seq(PairsOver(M)) /\ Len(group) \in 1..Len(group)
    BY DEF Some
  <2>2. group[Len(group)] \in PairsOver(M)
    BY <2>1
  <2> QED
    BY <2>2 DEF PairsOver
<1>2. \A i \in DOMAIN request : AttachReasoning(group, i) \in M
  BY AttachType
<1>3. shown \in Seq(M)
  <2>1. DOMAIN request = 1..Len(request) /\ Len(request) \in Nat
    BY <1>1
  <2>2. shown \in [1..Len(request) -> M]
    BY <1>2, <2>1
  <2> QED
    BY <2>1, <2>2
<1>4. ReconstructConversation(group, toolResults, TRUE) = Append(WithResults(shown, toolResults), final)
  BY DEF ReconstructConversation
<1> HIDE DEF shown, final
<1>5. WithResults(shown, toolResults) \in Seq(M)
  BY <1>3, KeptType DEF WithResults
<1>6. Append(WithResults(shown, toolResults), final) \in Seq(M)
  <2>1. \A s \in Seq(M) : Append(s, final) \in Seq(M)
    BY <1>1
  <2> QED
    BY Zenon, <1>5, <2>1
<1> QED
  BY Zenon, <1>4, <1>6

(* The groups of a trace are of the messages of its events. *)
LEMMA GroupsType ==
  ASSUME NEW M, NEW t \in Seq(EventsOver(M)), NEW r
  PROVE  GroupIntoConversations(ParseTraceEvents(t, r).pairs) \in Seq(Some(PairsOver(M)))
<1>1. ParseTraceEvents(t, r).pairs \in Seq(PairsOver(M))
  BY ParseType DEF Parsed
<1> QED
  BY <1>1, GroupType

(* The trace of a task has only messages of its agent. *)
LEMMA TraceOfMine ==
  ASSUME TypeOK, Separate, "shared" \notin faults, NEW a \in Agents
  PROVE  TraceOf(a) \in Seq(EventsOver(Mine(a)))
<1> DEFINE I == {i \in DOMAIN trace : trace[i].task = a}
<1>1. trace \in Seq(Events)
  BY DEF TypeOK
<1>2. ASSUME NEW i \in 1..Len(trace), i \in I PROVE trace[i] \in EventsOver(Mine(a))
  <2>1. trace[i] \in Events /\ trace[i].body \in Seq(Mine(a))
    BY <1>1, <1>2 DEF Separate
  <2> QED
    BY <2>1 DEF Events, EventsOver
<1>3. Kept(trace, I) \in Seq(EventsOver(Mine(a)))
  <2> HIDE DEF I
  <2> QED
    BY <1>1, <1>2, KeptType
<1> QED
  BY <1>3 DEF TraceOf

(* What is filed apart is exported apart. *)
LEMMA NotMixed == TypeOK /\ Separate /\ Filed => TasksDoNotMix
<1>1. SUFFICES ASSUME TypeOK, Separate, Filed, ~Running, "shared" \notin faults,
                      NEW a \in Agents, NEW k \in DOMAIN Exported(a, TRUE, TRUE)
               PROVE  Exported(a, TRUE, TRUE)[k] \in Seq(Mine(a))
  <2>1. ASSUME NEW b \in Agents, NEW s \in Seq(Mine(b)), NEW i \in DOMAIN s
        PROVE  /\ s[i].content # Nothing => s[i].content[1] = b
               /\ s[i].reasoning # NoReasoning => s[i].reasoning[1] = b
    BY DEF Mine
  <2> QED
    BY <2>1 DEF TasksDoNotMix
<1> DEFINE groups == GroupIntoConversations(ParseTraceEvents(files[a], TRUE).pairs)
<1>2. files[a] = TraceOf(a)
  BY <1>1 DEF Filed
<1>3. groups \in Seq(Some(PairsOver(Mine(a))))
  BY <1>1, <1>2, TraceOfMine, GroupsType
<1>4. PICK records : records = Exported(a, TRUE, TRUE)
  OBVIOUS
<1>5. SUFFICES records[k] \in Seq(Mine(a))
  BY Zenon, <1>4
<1>6. k \in DOMAIN records
  BY Zenon, <1>4
<1>7. CASE groups = <<>>
  <2> DEFINE content == <<a, 0, 0, 1>>
  <2>1. content \in Content /\ content[1] = a
    BY Numbers DEF Content
  <2>2. TaskPrompt(a) \in Mine(a)
    BY <2>1, MineIs DEF TaskPrompt
  <2>3. records = <<<<TaskPrompt(a)>>>>
    BY <1>4, <1>7 DEF Exported, BuildConversation
  <2>4. records[k] = <<TaskPrompt(a)>>
    BY <1>6, <2>3
  <2> QED
    BY <2>2, <2>4
<1>8. CASE groups # <<>>
  <2>1. records = [i \in DOMAIN groups |-> ReconstructConversation(groups[i], TRUE, TRUE)]
    BY <1>4, <1>8 DEF Exported, BuildConversation
  <2> HIDE DEF groups
  <2>2. k \in DOMAIN groups /\ records[k] = ReconstructConversation(groups[k], TRUE, TRUE)
    BY Zenon, <1>6, <2>1
  <2>3. groups[k] \in Some(PairsOver(Mine(a)))
    BY <1>3, <2>2
  <2>4. \A m, r \in Mine(a) : [m EXCEPT !.reasoning = r.reasoning] \in Mine(a)
    BY DEF Mine, Messages
  <2>5. ReconstructConversation(groups[k], TRUE, TRUE) \in Seq(Mine(a))
    BY <2>3, <2>4, ReconstructType
  <2> QED
    BY Zenon, <2>2, <2>5
<1> QED
  BY <1>7, <1>8

-----------------------------------------------------------------------------
(* Two positions of answers are not next to each other. *)
LEMMA AnswersApart ==
  ASSUME NEW c \in DOMAIN PromptLen, NEW j \in Nat, NEW k \in Nat
  PROVE  /\ AnswerAt(c, j) \in Nat /\ AnswerAt(c, j) # AnswerAt(c, k) + 1
         /\ AnswerAt(c, j + 1) = AnswerAt(c, j) + 2 /\ AnswerAt(c, j) > PromptLen[c]
         /\ AnswerAt(c, j) = AnswerAt(c, k) => j = k
         /\ AnswerAt(c, 0) = PromptLen[c] + 1
<1>1. PromptLen[c] \in Nat
  BY Numbers
<1> QED
  BY <1>1 DEF AnswerAt

(* A message of the right role at the end keeps the shape. *)
LEMMA ShapedAppend ==
  ASSUME NEW h \in Seq(Messages), NEW m \in Messages, NEW c, Shaped(h, c),
         m.reasoning = NoReasoning, m.role # "assistant" => m.content[2] = c,
         m.role = "assistant" <=> \E j \in Nat : Len(h) + 1 = AnswerAt(c, j)
  PROVE  Shaped(Append(h, m), c)
<1> DEFINE t == Append(h, m)
           n == Len(h)
<1>1. DOMAIN t = 1..(n + 1) /\ t[n + 1] = m /\ n \in Nat /\ \A i \in 1..n : t[i] = h[i]
  OBVIOUS
<1>2. DOMAIN h = 1..n
  OBVIOUS
<1> HIDE DEF t, n
<1>3. ASSUME NEW i \in 1..n
      PROVE  /\ t[i].reasoning = NoReasoning /\ (t[i].role # "assistant" => t[i].content[2] = c)
             /\ t[i].role = "assistant" <=> \E j \in Nat : i = AnswerAt(c, j)
  <2>1. i \in DOMAIN h /\ t[i] = h[i]
    BY <1>1, <1>2
  <2>2. /\ h[i].reasoning = NoReasoning /\ (h[i].role # "assistant" => h[i].content[2] = c)
        /\ h[i].role = "assistant" <=> \E j \in Nat : i = AnswerAt(c, j)
    BY Zenon, <2>1 DEF Shaped
  <2> QED
    BY Zenon, <2>1, <2>2
<1>4. /\ t[n + 1].reasoning = NoReasoning
      /\ t[n + 1].role # "assistant" => t[n + 1].content[2] = c
      /\ t[n + 1].role = "assistant" <=> \E j \in Nat : n + 1 = AnswerAt(c, j)
  BY <1>1 DEF n
<1>5. \A i \in DOMAIN t : i \in 1..n \/ i = n + 1
  BY <1>1
<1> QED
  BY <1>3, <1>4, <1>5 DEF Shaped, t

(* A prompt has the shape of a conversation that asks. *)
LEMMA ShapedPrompt ==
  ASSUME NEW a \in Agents, NEW c \in DOMAIN PromptLen
  PROVE  Shaped(Prompt(a, c), c) /\ Asking(Prompt(a, c), c)
<1>1. PromptLen[c] \in Nat /\ DOMAIN Prompt(a, c) = 1..PromptLen[c]
      /\ Len(Prompt(a, c)) = PromptLen[c]
  BY Numbers, PromptType
<1>2. ASSUME NEW i \in 1..PromptLen[c]
      PROVE  /\ Prompt(a, c)[i].reasoning = NoReasoning /\ Prompt(a, c)[i].content[2] = c
             /\ Prompt(a, c)[i].role = "user"
  <2> DEFINE content == <<a, c, i, 1>>
  <2>1. content \in Content /\ content[2] = c /\ Prompt(a, c)[i] = Message("user", content)
    BY PromptType
  <2> HIDE DEF content
  <2> QED
    BY <2>1, MessageType
<1>3. \A i \in 1..PromptLen[c] : \A j \in Nat : i # AnswerAt(c, j)
  BY <1>1 DEF AnswerAt
<1>4. Asking(Prompt(a, c), c)
  <2>1. Len(Prompt(a, c)) + 1 = AnswerAt(c, 0)
    BY <1>1, AnswersApart
  <2> QED
    BY <2>1 DEF Asking
<1>5. Shaped(Prompt(a, c), c)
  BY <1>1, <1>2, <1>3 DEF Shaped
<1> QED
  BY <1>4, <1>5

(* How a step of an agent changes its conversations. *)
LEMMA HistoryStep ==
  ASSUME TypeOK, NEW a \in Agents, AgentStep(a)
  PROVE  \/ /\ UNCHANGED <<history, finished>>
            /\ pc'[a] = "answered" <=> pc[a] = "answered"
         \/ /\ pc[a] = "waiting" /\ pc'[a] = "answered" /\ UNCHANGED finished
            /\ \/ history'[a] = Append(history[a], Sent(Response(a)))
               \/ /\ "kept" \in faults
                  /\ history'[a] = Append(history[a], Sent(EmptyResponse(a)))
         \/ /\ pc[a] = "answered" /\ pc'[a] = "ready" /\ UNCHANGED finished
            /\ \E role \in {"tool", "user"} : history'[a] = Append(history[a],
                   Message(role, <<a, ConversationOf(a), Len(history[a]) + 1, 1>>))
         \/ /\ pc[a] = "answered" /\ pc'[a] = "ready"
            /\ ConversationOf(a) + 1 \in DOMAIN PromptLen
            /\ finished'[a] = Append(finished[a], history[a])
            /\ history'[a] = Prompt(a, ConversationOf(a) + 1)
<1> USE DEF Goto
<1>1. pc \in [Agents -> {"ready", "waiting", "answered"}]
      /\ DOMAIN history = Agents /\ DOMAIN finished = Agents
  BY DEF TypeOK
<1>2. CASE Ask(a)
  BY <1>1, <1>2 DEF Ask
<1>3. CASE Accept(a, Response(a)) \/ ("kept" \in faults /\ Accept(a, EmptyResponse(a)))
  BY <1>1, <1>3 DEF Accept
<1>4. CASE ProviderFails(a) \/ GiveUp(a) \/ (AnswerEmpty(a) /\ AskAgain(a))
  BY <1>1, <1>4 DEF ProviderFails, GiveUp, AnswerEmpty, AskAgain
<1>5. CASE LateAnswer(a)
  BY <1>1, <1>5 DEF LateAnswer
<1>6. CASE Continue(a)
  BY <1>1, <1>6 DEF Continue
<1>7. CASE NewConversation(a)
  <2>1. ConversationOf(a) \in Nat /\ ConversationOf(a) < Len(PromptLen)
    BY <1>7, CountType DEF NewConversation
  <2>2. ConversationOf(a) + 1 \in DOMAIN PromptLen
    BY <2>1, Numbers
  <2> QED
    BY <1>1, <1>7, <2>2 DEF NewConversation
<1> QED
  <2>1. CASE Answer(a) \/ AnswerUnrecorded(a) \/ AnswerEmpty(a)
    BY <1>3, <1>4, <2>1 DEF Answer, AnswerUnrecorded, AnswerEmpty
  <2> QED
    BY <1>2, <1>4, <1>5, <1>6, <1>7, <2>1 DEF AgentStep

(* Every step keeps the shape of all conversations. *)
LEMMA ShapesStep == ASSUME TypeOK, Shapes, [Next]_vars PROVE Shapes'
<1>1. ASSUME NEW a \in Agents, AgentStep(a) PROVE Shapes'
  <2>1. ASSUME NEW b \in Agents \ {a} PROVE Shape(b)'
    <3>1. pc'[b] = pc[b] /\ history'[b] = history[b] /\ finished'[b] = finished[b] /\ Shape(b)
      BY <1>1, <2>1, Keeping DEF Shapes
    <3> QED
      BY <3>1 DEF Shape, ConversationOf
  <2>2. Shape(a)'
    <3> PICK c : c = ConversationOf(a)
      OBVIOUS
    <3>1. /\ history[a] \in Seq(Messages) /\ finished[a] \in Seq(Seq(Messages))
          /\ c \in Nat \ {0} /\ Len(finished[a]) = c - 1 /\ c \in DOMAIN PromptLen
      <4>1. c <= Len(PromptLen)
        BY DEF Shapes, Shape
      <4>2. c \in Nat \ {0} /\ Len(finished[a]) = c - 1
        BY CountType
      <4>3. c \in 1..Len(PromptLen)
        BY <4>1, <4>2, Numbers
      <4> QED
        BY <4>2, <4>3, CountType, Numbers
    <3>2. /\ c <= Len(PromptLen) /\ Shaped(history[a], c)
          /\ pc[a] = "answered" => Ended(history[a], c)
          /\ pc[a] # "answered" => Asking(history[a], c)
          /\ \A k \in DOMAIN finished[a] : Shaped(finished[a][k], k) /\ Ended(finished[a][k], k)
      BY DEF Shapes, Shape
    <3>3. CASE UNCHANGED <<history, finished>> /\ (pc'[a] = "answered" <=> pc[a] = "answered")
      <4>1. ConversationOf(a)' = c
        BY <3>3 DEF ConversationOf
      <4> QED
        BY <3>2, <3>3, <4>1 DEF Shape
    <3>4. ASSUME finished' = finished, NEW m \in Messages, history'[a] = Append(history[a], m),
                 m.reasoning = NoReasoning, m.role # "assistant" => m.content[2] = c,
                 IF m.role = "assistant" THEN pc[a] # "answered" /\ pc'[a] = "answered"
                 ELSE pc[a] = "answered" /\ pc'[a] # "answered"
          PROVE  Shape(a)'
      <4>1. ConversationOf(a)' = c
        BY <3>4 DEF ConversationOf
      <4>2. Len(history'[a]) = Len(history[a]) + 1 /\ Len(history[a]) \in Nat
        BY <3>1, <3>4
      <4>3. m.role = "assistant" <=> \E j \in Nat : Len(history[a]) + 1 = AnswerAt(c, j)
        <5>1. CASE m.role = "assistant"
          BY <3>2, <3>4, <5>1 DEF Asking
        <5>2. CASE m.role # "assistant"
          <6>1. PICK k \in Nat : Len(history[a]) = AnswerAt(c, k)
            BY <3>2, <3>4, <5>2 DEF Ended
          <6>2. \A j \in Nat : AnswerAt(c, j) # AnswerAt(c, k) + 1
            BY <3>1, AnswersApart
          <6> QED
            BY <5>2, <6>1, <6>2
        <5> QED
          BY <5>1, <5>2
      <4>4. Shaped(history'[a], c)
        BY <3>1, <3>2, <3>4, <4>3, ShapedAppend
      <4>5. CASE m.role = "assistant"
        <5>1. Ended(history'[a], c)
          BY <3>2, <3>4, <4>2, <4>5 DEF Ended, Asking
        <5> QED
          BY <3>2, <3>4, <4>1, <4>4, <4>5, <5>1 DEF Shape
      <4>6. CASE m.role # "assistant"
        <5>1. PICK j \in Nat : Len(history[a]) = AnswerAt(c, j)
          BY <3>2, <3>4, <4>6 DEF Ended
        <5>2. Len(history'[a]) + 1 = AnswerAt(c, j + 1) /\ j + 1 \in Nat
          BY <3>1, <4>2, <5>1, AnswersApart
        <5>3. Asking(history'[a], c)
          BY <5>2 DEF Asking
        <5> QED
          BY <3>2, <3>4, <4>1, <4>4, <4>6, <5>3 DEF Shape
      <4> QED
        BY <4>5, <4>6
    <3>5. CASE /\ pc[a] = "waiting" /\ pc'[a] = "answered" /\ UNCHANGED finished
               /\ \/ history'[a] = Append(history[a], Sent(Response(a)))
                  \/ history'[a] = Append(history[a], Sent(EmptyResponse(a)))
      <4>1. Response(a).content \in Content
        BY CountType, ResponseType
      <4>2. \E content \in Content \cup {Nothing} :
                history'[a] = Append(history[a], Message("assistant", content))
        BY <3>5, <4>1, ResponseType, EmptyType
      <4> QED
        BY <3>4, <3>5, <4>2, MessageType
    <3>6. CASE /\ pc[a] = "answered" /\ pc'[a] = "ready" /\ UNCHANGED finished
               /\ \E role \in {"tool", "user"} : history'[a] = Append(history[a],
                      Message(role, <<a, ConversationOf(a), Len(history[a]) + 1, 1>>))
      <4> DEFINE content == <<a, c, Len(history[a]) + 1, 1>>
      <4>1. content \in Content /\ content[2] = c
        BY CountType
      <4>2. \E role \in {"tool", "user"} : history'[a] = Append(history[a], Message(role, content))
        BY <3>6
      <4> HIDE DEF content
      <4> QED
        BY <3>4, <3>6, <4>1, <4>2, MessageType
    <3>7. CASE /\ pc[a] = "answered" /\ pc'[a] = "ready"
               /\ ConversationOf(a) + 1 \in DOMAIN PromptLen
               /\ finished'[a] = Append(finished[a], history[a])
               /\ history'[a] = Prompt(a, ConversationOf(a) + 1)
      <4>1. ConversationOf(a)' = c + 1
        BY <3>1, <3>7 DEF ConversationOf
      <4>2. Shaped(history'[a], c + 1) /\ Asking(history'[a], c + 1) /\ c + 1 <= Len(PromptLen)
        BY <3>7, ShapedPrompt, Numbers
      <4>3. \A k \in DOMAIN finished'[a] : Shaped(finished'[a][k], k) /\ Ended(finished'[a][k], k)
        <5>1. /\ DOMAIN finished'[a] = 1..c /\ finished'[a][c] = history[a]
              /\ \A k \in 1..(c - 1) : finished'[a][k] = finished[a][k] /\ k \in DOMAIN finished[a]
          BY <3>1, <3>7
        <5>2. \A k \in 1..c : k = c \/ k \in 1..(c - 1)
          BY <3>1
        <5> QED
          BY <3>2, <3>7, <5>1, <5>2
      <4> QED
        BY <3>7, <4>1, <4>2, <4>3 DEF Shape
    <3> QED
      BY <1>1, <3>3, <3>5, <3>6, <3>7, HistoryStep
  <2> QED
    BY <2>1, <2>2 DEF Shapes
<1>2. CASE UNCHANGED <<pc, history, finished>>
  BY <1>2 DEF Shapes, Shape, ConversationOf
<1> QED
  BY <1>1, <1>2 DEF Next, Distribute, vars

-----------------------------------------------------------------------------
(* What a step of an agent does to what is parsed for each of them. *)
LEMMA RecordedTo ==
  ASSUME TypeOK, "shared" \notin faults, NEW a \in Agents,
         NEW event \in {"llm_request", "llm_response"}, NEW body \in Seq(Messages),
         Record(event, a, body)
  PROVE  /\ \A b \in Agents \ {a} : TraceOf(b)' = TraceOf(b)
         /\ \E e \in EventsOver(Messages) : /\ TraceOf(a)' = Append(TraceOf(a), e)
                                           /\ e.event = event /\ e.body = body
<1>1. trace \in Seq(EventsOver(Messages))
  BY DEF TypeOK, Events, EventsOver
<1>2. PICK e \in EventsOver(Messages) :
          trace' = Append(trace, e) /\ e.event = event /\ e.task = TaskOf(a) /\ e.body = body
  BY <1>1, RecordType
<1>3. e.task = a
  BY <1>2 DEF TaskOf
<1> DEFINE n == Len(trace)
           Of(b)  == {i \in DOMAIN trace : trace[i].task = b}
           Now(b) == {i \in DOMAIN trace' : trace'[i].task = b}
<1>4. /\ n \in Nat /\ DOMAIN trace = 1..n /\ DOMAIN trace' = 1..(n + 1)
      /\ trace'[n + 1] = e /\ \A i \in 1..n : trace'[i] = trace[i]
  BY <1>1, <1>2
<1>5. ASSUME NEW b \in Agents
      PROVE  TraceOf(b)' = IF b = a THEN Append(TraceOf(b), e) ELSE TraceOf(b)
  <2>1. \A i \in 1..n : i \in Of(b) <=> i \in Now(b)
    BY <1>4
  <2>2. n + 1 \in Now(b) <=> b = a
    BY <1>3, <1>4
  <2>3. TraceOf(b) = Kept(trace, Of(b)) /\ TraceOf(b)' = Kept(Append(trace, e), Now(b))
    BY <1>2 DEF TraceOf
  <2> HIDE DEF Of, Now
  <2>4. Kept(Append(trace, e), Now(b)) =
            IF n + 1 \in Now(b) THEN Append(Kept(trace, Of(b)), e) ELSE Kept(trace, Of(b))
    BY <1>1, <2>1, KeptAppend
  <2> QED
    BY <2>2, <2>3, <2>4
<1> QED
  BY <1>2, <1>5

(* What is parsed of the trace of a task is of messages. *)
LEMMA ParsedIs ==
  ASSUME TypeOK, NEW a \in Agents
  PROVE  TraceOf(a) \in Seq(EventsOver(Messages)) /\ ParsedOf(a) \in Parsed(Messages)
<1>1. trace \in Seq(EventsOver(Messages))
  BY DEF TypeOK, Events, EventsOver
<1>2. TraceOf(a) \in Seq(EventsOver(Messages))
  BY <1>1, TraceOfType
<1> QED
  BY <1>2, ParseType DEF ParsedOf

(* What each kind of event does to what is parsed of its task. *)
LEMMA ParsedTo ==
  ASSUME TypeOK, "shared" \notin faults, NEW a \in Agents,
         NEW event \in {"llm_request", "llm_response"}, NEW body \in Seq(Messages),
         Record(event, a, body)
  PROVE  /\ \A b \in Agents \ {a} : ParsedOf(b)' = ParsedOf(b)
         /\ event = "llm_request" => ParsedOf(a)' = [ParsedOf(a) EXCEPT !.open = <<body>>]
         /\ event = "llm_response" /\ ParsedOf(a).open # <<>>
            /\ (body = <<>> \/ ~Usable(body[1], FALSE)) =>
                ParsedOf(a)' = [open |-> <<>>, pairs |-> ParsedOf(a).pairs]
         /\ event = "llm_response" /\ ParsedOf(a).open # <<>>
            /\ body # <<>> /\ Usable(body[1], FALSE) =>
                ParsedOf(a)' = [open  |-> <<>>,
                                pairs |-> Append(ParsedOf(a).pairs,
                                              [request  |-> ParsedOf(a).open[1],
                                               response |-> body[1]])]
<1>1. \A b \in Agents \ {a} : ParsedOf(b)' = ParsedOf(b)
  BY RecordedTo DEF ParsedOf
<1>2. PICK e \in EventsOver(Messages) :
          TraceOf(a)' = Append(TraceOf(a), e) /\ e.event = event /\ e.body = body
  BY RecordedTo
<1>3. ParsedOf(a)' = NextEvent(ParsedOf(a), e, FALSE)
  <2>1. TraceOf(a) \in Seq(EventsOver(Messages))
    BY ParsedIs
  <2>2. ParseTraceEvents(Append(TraceOf(a), e), FALSE) =
            NextEvent(ParseTraceEvents(TraceOf(a), FALSE), e, FALSE)
    BY <2>1, ParseAppend
  <2> QED
    BY <1>2, <2>2 DEF ParsedOf
<1>4. ASSUME event = "llm_request" PROVE ParsedOf(a)' = [ParsedOf(a) EXCEPT !.open = <<body>>]
  BY <1>2, <1>3, <1>4, NextRequest
<1>5. ASSUME event = "llm_response", ParsedOf(a).open # <<>>
      PROVE  ParsedOf(a)' =
                [open  |-> <<>>,
                 pairs |-> IF e.body # <<>> /\ Usable(e.body[1], FALSE)
                           THEN Append(ParsedOf(a).pairs,
                                    [request |-> ParsedOf(a).open[1], response |-> e.body[1]])
                           ELSE ParsedOf(a).pairs]
  BY <1>2, <1>3, <1>5, NextResponse DEF Closed
<1> QED
  BY <1>1, <1>2, <1>4, <1>5

(* With one call at a time only an answer that is recorded makes a pair. *)
LEMMA ParsedStep ==
  ASSUME TypeOK, Opens, InTurn, NEW a \in Agents, AgentStep(a)
  PROVE  /\ late'[a] = {} /\ \A b \in Agents \ {a} : ParsedOf(b)' = ParsedOf(b)
         /\ \/ /\ pc[a] = "waiting" /\ pc'[a] = "answered"
               /\ history'[a] = Append(history[a], Sent(Response(a)))
               /\ ParsedOf(a)'.pairs = Append(ParsedOf(a).pairs,
                                           [request |-> history[a], response |-> Response(a)])
            \/ /\ {"cut", "kept"} \cap faults # {} /\ pc'[a] = "answered"
               /\ ParsedOf(a)'.pairs = ParsedOf(a).pairs
            \/ /\ pc'[a] # "answered" /\ ParsedOf(a)'.pairs = ParsedOf(a).pairs
               /\ pc'[a] = "waiting" => ParsedOf(a)'.open = <<history'[a]>>
<1>1. late[a] = {} /\ (pc[a] = "waiting" => ParsedOf(a).open = <<history[a]>>)
  BY DEF Opens
<1>2. /\ history[a] \in Seq(Messages) /\ Response(a) \in Messages /\ EmptyResponse(a) \in Messages
      /\ pc \in [Agents -> {"ready", "waiting", "answered"}] /\ DOMAIN history = Agents
      /\ "shared" \notin faults
  BY CountType, ResponseType, EmptyType DEF TypeOK, InTurn
<1>11. Usable(Response(a), FALSE) /\ ~Usable(EmptyResponse(a), FALSE)
  <2>1. Response(a).content # Nothing
    BY ResponseType DEF Nothing
  <2> QED
    BY <2>1, EmptyType DEF Usable
<1>3. ASSUME trace' = trace PROVE \A b \in Agents : ParsedOf(b)' = ParsedOf(b)
  BY <1>3 DEF ParsedOf, TraceOf
<1>4. ParsedOf(a) \in Parsed(Messages)
  BY ParsedIs
<1> USE DEF Goto
<1>5. CASE Ask(a)
  <2>1. Record("llm_request", a, history[a]) /\ pc'[a] = "waiting" /\ UNCHANGED <<history, late>>
    BY <1>2, <1>5 DEF Ask
  <2>2. /\ \A b \in Agents \ {a} : ParsedOf(b)' = ParsedOf(b)
        /\ ParsedOf(a)' = [ParsedOf(a) EXCEPT !.open = <<history[a]>>]
    BY <1>2, <2>1, ParsedTo
  <2>3. ParsedOf(a)'.open = <<history[a]>> /\ ParsedOf(a)'.pairs = ParsedOf(a).pairs
    BY <1>4, <2>2 DEF Parsed
  <2> QED
    BY <1>1, <2>1, <2>2, <2>3
<1>6. CASE Answer(a)
  <2>1. /\ Record("llm_response", a, <<Response(a)>>) /\ pc[a] = "waiting"
        /\ pc'[a] = "answered" /\ UNCHANGED late
        /\ history'[a] = Append(history[a], Sent(Response(a)))
    BY <1>2, <1>6 DEF Answer, Accept
  <2>2. <<Response(a)>> \in Seq(Messages) /\ <<Response(a)>> # <<>> /\ <<Response(a)>>[1] = Response(a)
    BY <1>2
  <2>3. ParsedOf(a).open # <<>> /\ ParsedOf(a).open[1] = history[a]
    BY <1>1, <2>1
  <2>4. /\ \A b \in Agents \ {a} : ParsedOf(b)' = ParsedOf(b)
        /\ ParsedOf(a)' = [open |-> <<>>,
                           pairs |-> Append(ParsedOf(a).pairs,
                               [request |-> ParsedOf(a).open[1], response |-> <<Response(a)>>[1]])]
    BY <1>2, <1>11, <2>1, <2>2, <2>3, ParsedTo
  <2> QED
    BY <1>1, <2>1, <2>2, <2>3, <2>4
<1>7. CASE AnswerUnrecorded(a)
  BY <1>1, <1>2, <1>3, <1>7 DEF AnswerUnrecorded, Accept
<1>8. CASE AnswerEmpty(a) \/ ProviderFails(a)
  <2>1. /\ pc[a] = "waiting" /\ UNCHANGED late
        /\ pc'[a] = "ready" \/ (pc'[a] = "answered" /\ "kept" \in faults)
        /\ \/ trace' = trace
           \/ \E body \in {<<>>, <<EmptyResponse(a)>>} : Record("llm_response", a, body)
    BY <1>2, <1>8 DEF AnswerEmpty, ProviderFails, AskAgain, Accept
  <2>2. ASSUME NEW body \in {<<>>, <<EmptyResponse(a)>>}, Record("llm_response", a, body)
        PROVE  /\ \A b \in Agents \ {a} : ParsedOf(b)' = ParsedOf(b)
               /\ ParsedOf(a)'.pairs = ParsedOf(a).pairs
    <3>1. /\ body \in Seq(Messages) /\ ParsedOf(a).open # <<>>
          /\ body = <<>> \/ ~Usable(body[1], FALSE)
      <4>1. <<>> \in Seq(Messages) /\ \A m \in Messages : <<m>> \in Seq(Messages) /\ <<m>>[1] = m
        OBVIOUS
      <4> PICK m : m = EmptyResponse(a)
        OBVIOUS
      <4>2. body = <<>> \/ body = <<m>>
        BY <2>2
      <4>3. m \in Messages /\ ~Usable(m, FALSE)
        BY <1>2, <1>11
      <4>4. body \in Seq(Messages) /\ (body = <<>> \/ ~Usable(body[1], FALSE))
        BY Zenon, <4>1, <4>2, <4>3
      <4>5. ParsedOf(a).open # <<>>
        BY <1>1, <2>1
      <4> QED
        BY <4>4, <4>5
    <3>2. /\ \A b \in Agents \ {a} : ParsedOf(b)' = ParsedOf(b)
          /\ ParsedOf(a)' = [open |-> <<>>, pairs |-> ParsedOf(a).pairs]
      BY <1>2, <2>2, <3>1, ParsedTo
    <3> QED
      BY <3>2
  <2> QED
    BY <1>1, <1>3, <2>1, <2>2
<1>9. ~GiveUp(a) /\ ~LateAnswer(a)
  BY <1>1 DEF GiveUp, LateAnswer, InTurn
<1>10. CASE Continue(a) \/ NewConversation(a)
  BY <1>1, <1>2, <1>3, <1>10 DEF Continue, NewConversation
<1> QED
  BY <1>5, <1>6, <1>7, <1>8, <1>9, <1>10 DEF AgentStep

(* Every step keeps the request of an agent that waits the open one. *)
LEMMA OpensStep == ASSUME TypeOK, Opens, [Next]_vars PROVE Opens'
<1>1. ASSUME NEW a \in Agents, AgentStep(a) PROVE Opens'
  <2>1. SUFFICES ASSUME InTurn, NEW b \in Agents
                 PROVE  late'[b] = {} /\ (pc'[b] = "waiting" => ParsedOf(b)'.open = <<history'[b]>>)
    BY <1>1, Keeping DEF Opens, InTurn
  <2>2. CASE b = a
    BY <1>1, <2>1, <2>2, ParsedStep
  <2>3. CASE b # a
    <3>1. late[b] = {} /\ (pc[b] = "waiting" => ParsedOf(b).open = <<history[b]>>)
      BY <2>1 DEF Opens
    <3>2. ParsedOf(b)' = ParsedOf(b)
      BY <1>1, <2>1, <2>3, ParsedStep
    <3> QED
      BY <1>1, <2>3, <3>1, <3>2, Keeping
  <2> QED
    BY <2>2, <2>3
<1>2. ASSUME UNCHANGED <<faults, pc, history, finished, late, trace>> PROVE Opens'
  <2>1. \A b \in Agents : ParsedOf(b)' = ParsedOf(b)
    BY <1>2 DEF ParsedOf, TraceOf
  <2> QED
    BY <1>2, <2>1 DEF Opens, InTurn
<1> QED
  BY <1>1, <1>2 DEF Next, Distribute, vars

-----------------------------------------------------------------------------
(* What has been said stays said. *)
LEMMA SamePrefix ==
  ASSUME NEW M, NEW s \in Seq(M), NEW t \in Seq(M), NEW n \in Nat, n <= Len(s), n <= Len(t),
         \A i \in 1..n : s[i] = t[i]
  PROVE  SubSeq(s, 1, n) = SubSeq(t, 1, n)
<1>1. /\ SubSeq(s, 1, n) = [i \in 1..n |-> s[i]]
      /\ SubSeq(t, 1, n) = [i \in 1..n |-> t[i]]
  OBVIOUS
<1> QED
  BY <1>1

(* The conversations of an agent are of messages. *)
LEMMA ConversationType ==
  ASSUME TypeOK, NEW a \in Agents, NEW c \in 1..ConversationOf(a)
  PROVE  Conversation(a, c) \in Seq(Messages)
<1>1. /\ history[a] \in Seq(Messages) /\ finished[a] \in Seq(Seq(Messages))
      /\ ConversationOf(a) \in Nat \ {0} /\ Len(finished[a]) = ConversationOf(a) - 1
  BY CountType
<1>2. c = ConversationOf(a) \/ c \in DOMAIN finished[a]
  BY <1>1
<1> QED
  BY <1>1, <1>2 DEF Conversation

(* The conversations of an agent have their shape. *)
LEMMA ConversationShape ==
  ASSUME TypeOK, Shapes, NEW a \in Agents, NEW c \in 1..ConversationOf(a)
  PROVE  c \in DOMAIN PromptLen /\ Shaped(Conversation(a, c), c)
<1>1. ConversationOf(a) \in Nat \ {0} /\ Len(finished[a]) = ConversationOf(a) - 1
      /\ finished[a] \in Seq(Seq(Messages))
  BY CountType
<1>2. ConversationOf(a) <= Len(PromptLen)
  BY DEF Shapes, Shape
<1>3. c \in 1..Len(PromptLen)
  BY <1>1, <1>2, Numbers
<1>4. c = ConversationOf(a) \/ c \in DOMAIN finished[a]
  BY <1>1
<1>5. Shaped(Conversation(a, c), c)
  BY <1>4 DEF Shapes, Shape, Conversation
<1> QED
  BY <1>3, <1>5, Numbers

(* A step of an agent only adds to its conversations. *)
LEMMA ConversationStep ==
  ASSUME TypeOK, TypeOK', NEW a \in Agents, AgentStep(a), NEW c \in 1..ConversationOf(a)
  PROVE  /\ ConversationOf(a)' \in Nat /\ c <= ConversationOf(a)'
         /\ Len(Conversation(a, c)) <= Len(Conversation(a, c)')
         /\ \A p \in DOMAIN Conversation(a, c) : Conversation(a, c)'[p] = Conversation(a, c)[p]
<1>1. /\ history[a] \in Seq(Messages) /\ finished[a] \in Seq(Seq(Messages))
      /\ ConversationOf(a) \in Nat \ {0} /\ Len(finished[a]) = ConversationOf(a) - 1
  BY CountType
<1>2. Conversation(a, c) \in Seq(Messages)
  BY ConversationType
<1>3. CASE /\ UNCHANGED finished
           /\ UNCHANGED history \/ \E m \in Messages : history'[a] = Append(history[a], m)
  <2>1. ConversationOf(a)' = ConversationOf(a)
    BY <1>3 DEF ConversationOf
  <2>2. CASE c = ConversationOf(a)
    <3>1. Conversation(a, c) = history[a] /\ Conversation(a, c)' = history'[a]
      BY <2>1, <2>2 DEF Conversation
    <3>2. /\ Len(history[a]) <= Len(history'[a])
          /\ \A p \in DOMAIN history[a] : history'[a][p] = history[a][p]
      <4> PICK h : h = history[a]
        OBVIOUS
      <4>1. h \in Seq(Messages) /\ Len(h) \in Nat /\ DOMAIN h = 1..Len(h)
        BY <1>1
      <4>2. history'[a] = h \/ \E m \in Messages : history'[a] = Append(h, m)
        BY <1>3
      <4>3. \A m \in Messages : /\ Len(h) <= Len(Append(h, m))
                                /\ \A p \in DOMAIN h : Append(h, m)[p] = h[p]
        BY <4>1
      <4> QED
        BY <4>1, <4>2, <4>3
    <3> QED
      BY <1>1, <2>1, <3>1, <3>2
  <2>3. CASE c # ConversationOf(a)
    <3>1. Conversation(a, c)' = Conversation(a, c)
      BY <1>3, <2>1, <2>3 DEF Conversation
    <3> QED
      BY <1>1, <1>2, <2>1, <3>1
  <2> QED
    BY <2>2, <2>3
<1>4. CASE finished'[a] = Append(finished[a], history[a])
  <2>1. ConversationOf(a)' = ConversationOf(a) + 1
    BY <1>1, <1>4 DEF ConversationOf
  <2>2. Conversation(a, c)' = finished'[a][c]
    BY <1>1, <2>1 DEF Conversation
  <2>3. finished'[a][c] = Conversation(a, c)
    BY <1>1, <1>4 DEF Conversation
  <2> QED
    BY <1>1, <1>2, <2>1, <2>2, <2>3
<1>5. /\ Sent(Response(a)) \in Messages /\ Sent(EmptyResponse(a)) \in Messages
      /\ \A role \in {"tool", "user"} :
             Message(role, <<a, ConversationOf(a), Len(history[a]) + 1, 1>>) \in Messages
  BY ResponseType, EmptyType, CountType, MessageType
<1> QED
  BY <1>3, <1>4, <1>5, HistoryStep

(* So what a pair is stays the same. *)
LEMMA PairStays ==
  ASSUME TypeOK, TypeOK', NEW a \in Agents, AgentStep(a), NEW c \in 1..ConversationOf(a),
         NEW p \in DOMAIN Conversation(a, c)
  PROVE  /\ c \in 1..ConversationOf(a)' /\ p \in DOMAIN Conversation(a, c)'
         /\ Conversation(a, c)'[p] = Conversation(a, c)[p] /\ Pair(a, c, p)' = Pair(a, c, p)
<1> PICK h : h = Conversation(a, c)
  OBVIOUS
<1> PICK t : t = Conversation(a, c)'
  OBVIOUS
<1>1. h \in Seq(Messages)
  BY ConversationType
<1>2. ConversationOf(a) \in Nat /\ ConversationOf(a)' \in Nat /\ c <= ConversationOf(a)'
  BY CountType, ConversationStep
<1>3. c \in 1..ConversationOf(a)'
  BY <1>2
<1>4. t \in Seq(Messages)
  <2>1. history'[a] \in Seq(Messages) /\ finished'[a] \in Seq(Seq(Messages))
    BY DEF TypeOK
  <2>2. c = ConversationOf(a)' \/ c \in DOMAIN finished'[a]
    BY <1>2, <1>3, <2>1 DEF ConversationOf
  <2> QED
    BY <2>1, <2>2 DEF Conversation
<1>5. Len(h) <= Len(t) /\ \A i \in DOMAIN h : t[i] = h[i]
  BY ConversationStep
<1>6. p \in DOMAIN t /\ t[p] = h[p] /\ SubSeq(t, 1, p - 1) = SubSeq(h, 1, p - 1)
  <2>1. p \in 1..Len(h) /\ p \in 1..Len(t) /\ t[p] = h[p]
    BY <1>1, <1>4, <1>5
  <2>2. p - 1 \in Nat /\ p - 1 <= Len(h) /\ p - 1 <= Len(t) /\ \A i \in 1..(p - 1) : t[i] = h[i]
    BY <1>1, <1>4, <1>5, <2>1
  <2> QED
    BY <1>1, <1>4, <2>1, <2>2, SamePrefix
<1> QED
  BY <1>3, <1>6 DEF Pair

(* And a pair that was given stays given. *)
LEMMA GivenStays ==
  ASSUME TypeOK, TypeOK', NEW a \in Agents, AgentStep(a), NEW pair, Given(a, pair)
  PROVE  Given(a, pair)'
<1>1. PICK c \in 1..ConversationOf(a) : \E p \in DOMAIN Conversation(a, c) :
          Conversation(a, c)[p].role = "assistant" /\ pair = Pair(a, c, p)
  BY DEF Given
<1>2. PICK p \in DOMAIN Conversation(a, c) :
          Conversation(a, c)[p].role = "assistant" /\ pair = Pair(a, c, p)
  BY <1>1
<1>3. /\ c \in 1..ConversationOf(a)' /\ p \in DOMAIN Conversation(a, c)'
      /\ Conversation(a, c)'[p].role = "assistant" /\ pair = Pair(a, c, p)'
  BY <1>2, PairStays
<1> QED
  BY <1>3 DEF Given

(* The pair an accepted answer makes. *)
LEMMA Accepted ==
  ASSUME TypeOK, NEW a \in Agents, NEW c, c = ConversationOf(a), c = ConversationOf(a)',
         NEW p, p = Len(history[a]) + 1, history'[a] = Append(history[a], Sent(Response(a)))
  PROVE  /\ c \in 1..ConversationOf(a)' /\ p \in DOMAIN Conversation(a, c)'
         /\ Conversation(a, c)'[p].role = "assistant"
         /\ Pair(a, c, p)' = [request |-> history[a], response |-> Response(a)]
<1>1. history[a] \in Seq(Messages) /\ Sent(Response(a)) \in Messages
  BY CountType, ResponseType
<1>2. c \in Nat \ {0} /\ p \in Nat \ {0}
  <2>1. c \in Nat \ {0}
    BY CountType
  <2> QED
    BY <1>1, <2>1
<1>3. Conversation(a, c)' = Append(history[a], Sent(Response(a)))
  BY DEF Conversation
<1>4. p \in DOMAIN Conversation(a, c)' /\ Conversation(a, c)'[p] = Sent(Response(a))
  BY <1>1, <1>3
<1>5. Sent(Response(a)).role = "assistant"
      /\ [Sent(Response(a)) EXCEPT !.reasoning = Sent(Response(a)).content] = Response(a)
  <2> PICK id : id = <<a, ConversationOf(a), Len(history[a]) + 1, attempt[a]>>
    OBVIOUS
  <2>1. Response(a) = [role |-> "assistant", content |-> id, reasoning |-> id]
    BY DEF Response, NextContent
  <2>2. Sent(Response(a)) = [role |-> "assistant", content |-> id, reasoning |-> NoReasoning]
    BY <2>1, ResponseType DEF Message
  <2> QED
    BY <2>1, <2>2, SMTT(30)
<1>6. SubSeq(Append(history[a], Sent(Response(a))), 1, p - 1) = history[a]
  BY <1>1
<1>7. Pair(a, c, p)' = [request |-> history[a], response |-> Response(a)]
  BY <1>3, <1>4, <1>5, <1>6 DEF Pair
<1>8. c \in 1..ConversationOf(a)'
  BY <1>2
<1> QED
  BY <1>4, <1>5, <1>7, <1>8

(* As does one of an agent that did not step. *)
LEMMA GivenSame ==
  ASSUME NEW a, history'[a] = history[a], finished'[a] = finished[a], NEW pair, Given(a, pair)
  PROVE  Given(a, pair)'
<1>1. ConversationOf(a)' = ConversationOf(a)
  BY DEF ConversationOf
<1>2. \A c : Conversation(a, c)' = Conversation(a, c)
  BY <1>1 DEF Conversation
<1>3. \A c, p : Pair(a, c, p)' = Pair(a, c, p)
  BY <1>2 DEF Pair
<1> QED
  BY <1>1, <1>2, <1>3 DEF Given

(* Every step keeps all pairs pairs the agents had. *)
LEMMA AllGivenStep == ASSUME TypeOK, TypeOK', Opens, AllGiven, [Next]_vars PROVE AllGiven'
<1>1. ASSUME NEW a \in Agents, AgentStep(a) PROVE AllGiven'
  <2>1. SUFFICES ASSUME InTurn, NEW b \in Agents,
                        NEW now, now = ParsedOf(b)'.pairs, NEW i \in DOMAIN now
                 PROVE  Given(b, now[i])'
    BY <1>1, Keeping DEF AllGiven, InTurn
  <2>2. \A j \in DOMAIN ParsedOf(b).pairs : Given(b, ParsedOf(b).pairs[j])
    BY <2>1 DEF AllGiven
  <2>3. CASE b # a
    <3>1. ParsedOf(b)' = ParsedOf(b) /\ history'[b] = history[b] /\ finished'[b] = finished[b]
      BY <1>1, <2>1, <2>3, ParsedStep, Keeping
    <3> QED
      BY <2>1, <2>2, <3>1, GivenSame
  <2>4. CASE b = a
    <3> PICK pairs : pairs = ParsedOf(a).pairs
      OBVIOUS
    <3>1. pairs \in Seq(PairsOver(Messages)) /\ \A j \in DOMAIN pairs : Given(a, pairs[j])'
      BY <1>1, <2>2, <2>4, ParsedIs, GivenStays DEF Parsed
    <3>2. CASE now = pairs
      BY <2>1, <2>4, <3>1, <3>2
    <3>3. CASE /\ pc[a] = "waiting" /\ pc'[a] = "answered"
               /\ history'[a] = Append(history[a], Sent(Response(a)))
               /\ now = Append(pairs, [request |-> history[a], response |-> Response(a)])
      <4> PICK pair : pair = [request |-> history[a], response |-> Response(a)]
        OBVIOUS
      <4> PICK c : c = ConversationOf(a)
        OBVIOUS
      <4> PICK p : p = Len(history[a]) + 1
        OBVIOUS
      <4>1. UNCHANGED finished /\ history'[a] = Append(history[a], Sent(Response(a)))
        BY <1>1, <3>3, HistoryStep
      <4>2. c \in 1..ConversationOf(a)' /\ p \in DOMAIN Conversation(a, c)'
            /\ Conversation(a, c)'[p].role = "assistant" /\ Pair(a, c, p)' = pair
        <5>1. c = ConversationOf(a)'
          BY <4>1 DEF ConversationOf
        <5> QED
          BY <4>1, <5>1, Accepted
      <4>3. Given(a, pair)'
        BY <4>2 DEF Given
      <4>4. i \in 1..Len(pairs) \/ (i = Len(pairs) + 1 /\ now[i] = pair)
        <5>1. now = Append(pairs, pair) /\ pair \in PairsOver(Messages)
          BY <3>3, CountType, ResponseType DEF PairsOver
        <5> QED
          BY <2>1, <3>1, <5>1
      <4>5. i \in 1..Len(pairs) => i \in DOMAIN pairs /\ now[i] = pairs[i]
        <5>1. now = Append(pairs, pair) /\ pair \in PairsOver(Messages)
          BY <3>3, CountType, ResponseType DEF PairsOver
        <5> QED
          BY <3>1, <5>1
      <4> QED
        BY <2>4, <3>1, <4>3, <4>4, <4>5
    <3> QED
      BY <1>1, <2>1, <2>4, <3>2, <3>3, ParsedStep
  <2> QED
    BY <2>3, <2>4
<1>2. ASSUME UNCHANGED <<faults, pc, history, finished, late, trace>> PROVE AllGiven'
  <2>1. \A b \in Agents : ParsedOf(b)' = ParsedOf(b)
    BY <1>2 DEF ParsedOf, TraceOf
  <2>2. \A b, pair : Given(b, pair) => Given(b, pair)'
    BY <1>2, GivenSame
  <2> QED
    BY <1>2, <2>1, <2>2 DEF AllGiven, InTurn
<1> QED
  BY <1>1, <1>2 DEF Next, Distribute, vars

-----------------------------------------------------------------------------
(* A sequence of which all is kept stays as it is. *)
LEMMA KeptAll ==
  ASSUME NEW A, NEW s \in Seq(A), NEW I, DOMAIN s \subseteq I PROVE Kept(s, I) = s
<1> DEFINE n == Len(s)
           f == [m \in 0..n |-> SubSeq(s, 1, m)]
<1>1. n \in Nat /\ DOMAIN s = 1..n
  OBVIOUS
<1>2. PICK g \in [0..n -> Seq(A)] : Keeps(g, s, I) /\ Kept(s, I) = g[n]
  <2>1. \A i \in 1..n : i \in I => s[i] \in A
    OBVIOUS
  <2> QED
    BY <2>1, KeptDef
<1>3. f[0] = <<>> /\ f[n] = s
  <2>1. SubSeq(s, 1, 0) = <<>> /\ SubSeq(s, 1, n) = s
    OBVIOUS
  <2> QED
    BY <1>1, <2>1
<1>4. ASSUME NEW m \in 1..n PROVE f[m] = Append(f[m - 1], s[m])
  <2>1. SubSeq(s, 1, m) = Append(SubSeq(s, 1, m - 1), s[m])
    OBVIOUS
  <2> QED
    BY <1>1, <2>1
<1>5. \A m \in 1..n : g[m] = Append(g[m - 1], s[m])
  BY <1>1, <1>2 DEF Keeps, Extended
<1>6. g[0] = f[0]
  BY <1>2, <1>3 DEF Keeps
<1> HIDE DEF f, n
<1>7. g[n] = f[n]
  <2>1. \A m \in 1..n : g[m - 1] = f[m - 1] => g[m] = f[m]
    BY <1>4, <1>5
  <2> QED
    BY <1>1, <1>6, <2>1, RoundsAgree
<1> QED
  BY <1>2, <1>3, <1>7

(* Each element at one of the positions is among the kept. *)
LEMMA KeptHas ==
  ASSUME NEW A, NEW s \in Seq(A), NEW I, NEW i \in DOMAIN s, i \in I
  PROVE  \E k \in DOMAIN Kept(s, I) : Kept(s, I)[k] = s[i]
<1> DEFINE n == Len(s)
<1>1. n \in Nat /\ i \in 1..n /\ \A m \in 1..n : s[m] \in A
  OBVIOUS
<1>2. PICK g \in [0..n -> Seq(A)] : Keeps(g, s, I) /\ Kept(s, I) = g[n]
  BY <1>1, KeptDef
<1> DEFINE S == {m \in Nat : m \in i..n => \E k \in DOMAIN g[m] : g[m][k] = s[i]}
<1>3. 0 \in S
  BY <1>1
<1>4. ASSUME NEW m \in Nat, m \in S PROVE m + 1 \in S
  <2>1. SUFFICES ASSUME NEW q \in i..n, q = m + 1 PROVE \E k \in DOMAIN g[q] : g[q][k] = s[i]
    OBVIOUS
  <2>2. q \in 1..n /\ g[m] \in Seq(A) /\ s[q] \in A
    BY <1>1, <2>1
  <2>3. g[q] = Extended(g[m], s, I, q)
    BY <1>2, <2>1, <2>2 DEF Keeps
  <2>4. CASE q = i
    <3>1. g[q] = Append(g[m], s[i])
      BY <2>3, <2>4 DEF Extended
    <3>2. Len(g[m]) + 1 \in DOMAIN g[q] /\ g[q][Len(g[m]) + 1] = s[i]
      BY <2>2, <2>4, <3>1
    <3> QED
      BY <3>2
  <2>5. CASE q # i
    <3>1. m \in i..n
      BY <1>1, <2>1, <2>5
    <3>2. PICK k \in DOMAIN g[m] : g[m][k] = s[i]
      BY <1>4, <3>1
    <3>3. g[q] = g[m] \/ g[q] = Append(g[m], s[q])
      BY <2>3 DEF Extended
    <3>4. k \in DOMAIN g[q] /\ g[q][k] = g[m][k]
      BY <2>2, <3>2, <3>3, SMTT(30)
    <3> QED
      BY <3>2, <3>4
  <2> QED
    BY <2>4, <2>5
<1>5. \A m \in Nat : m \in S
  <2> HIDE DEF S
  <2> QED
    BY <1>3, <1>4, NatInd
<1> QED
  BY <1>1, <1>2, <1>5

(* UpToAnswer is what it says: there is a last answer, or none. *)
LEMMA LastAnswer ==
  ASSUME NEW h \in Seq(Messages)
  PROVE  /\ UpToAnswer(h) \in 0..Len(h)
         /\ UpToAnswer(h) > 0 => h[UpToAnswer(h)].role = "assistant"
         /\ \A i \in DOMAIN h : h[i].role = "assistant" => i <= UpToAnswer(h)
<1> DEFINE Last(n, m) == /\ n > 0 => h[n].role = "assistant"
                         /\ \A i \in (n + 1)..m : h[i].role # "assistant"
           S == {m \in Nat : \E n \in 0..m : Last(n, m)}
<1>1. 0 \in S
  OBVIOUS
<1>2. ASSUME NEW m \in Nat, m \in S PROVE m + 1 \in S
  <2>1. PICK n \in 0..m : Last(n, m)
    BY <1>2
  <2>2. CASE h[m + 1].role = "assistant"
    <3>1. Last(m + 1, m + 1)
      BY <2>2
    <3> QED
      BY <3>1
  <2>3. CASE h[m + 1].role # "assistant"
    <3>1. Last(n, m + 1) /\ n \in 0..(m + 1)
      BY <2>1, <2>3
    <3> QED
      BY <3>1
  <2> QED
    BY <2>2, <2>3
<1>3. \A m \in Nat : m \in S
  <2> HIDE DEF S
  <2> QED
    BY <1>1, <1>2, NatInd
<1>4. Len(h) \in Nat /\ DOMAIN h = 1..Len(h)
  OBVIOUS
<1>5. \E n \in 0..Len(h) : Last(n, Len(h))
  BY <1>3, <1>4
<1>6. UpToAnswer(h) \in 0..Len(h) /\ Last(UpToAnswer(h), Len(h))
  BY <1>5 DEF UpToAnswer
<1> HIDE DEF Last
<1>7. UpToAnswer(h) > 0 => h[UpToAnswer(h)].role = "assistant"
  BY <1>6 DEF Last
<1>8. ASSUME NEW i \in DOMAIN h, h[i].role = "assistant" PROVE i <= UpToAnswer(h)
  BY <1>4, <1>6, <1>8 DEF Last
<1> QED
  BY <1>6, <1>7, <1>8

(* Answered is the beginning of a history, up to its last answer. *)
LEMMA AnsweredIs ==
  ASSUME NEW h \in Seq(Messages)
  PROVE  /\ Answered(h) \in Seq(Messages) /\ Len(Answered(h)) = UpToAnswer(h)
         /\ \A i \in 1..UpToAnswer(h) : Answered(h)[i] = h[i]
<1>1. UpToAnswer(h) \in 0..Len(h)
  BY LastAnswer
<1> PICK u : u = UpToAnswer(h)
  OBVIOUS
<1>2. /\ SubSeq(h, 1, u) \in Seq(Messages) /\ Len(SubSeq(h, 1, u)) = u
      /\ \A i \in 1..u : SubSeq(h, 1, u)[i] = h[i]
  BY <1>1
<1> QED
  BY <1>2 DEF Answered

(* What is seen of each conversation. *)
SeenOf(a) == [i \in 1..ConversationOf(a) |-> Answered(Append(finished[a], history[a])[i])]

(* Seen leaves out the conversations without an answer. *)
LEMMA SeenType ==
  ASSUME TypeOK, NEW a \in Agents
  PROVE  /\ Seen(a) = Kept(SeenOf(a), {i \in DOMAIN SeenOf(a) : SeenOf(a)[i] # <<>>})
         /\ SeenOf(a) \in Seq(Seq(Messages)) /\ DOMAIN SeenOf(a) = 1..ConversationOf(a)
         /\ \A c \in 1..ConversationOf(a) : SeenOf(a)[c] = Answered(Conversation(a, c))
<1>1. /\ history[a] \in Seq(Messages) /\ finished[a] \in Seq(Seq(Messages))
      /\ ConversationOf(a) \in Nat \ {0} /\ Len(finished[a]) = ConversationOf(a) - 1
  BY CountType
<1>2. ASSUME NEW c \in 1..ConversationOf(a)
      PROVE  Append(finished[a], history[a])[c] = Conversation(a, c)
  <2>1. CASE c = ConversationOf(a)
    BY <1>1, <2>1 DEF Conversation
  <2>2. CASE c # ConversationOf(a)
    BY <1>1, <2>2 DEF Conversation
  <2> QED
    BY <2>1, <2>2
<1>3. \A c \in 1..ConversationOf(a) : Answered(Conversation(a, c)) \in Seq(Messages)
  BY ConversationType, AnsweredIs
<1>4. SeenOf(a) \in [1..ConversationOf(a) -> Seq(Messages)]
      /\ \A c \in 1..ConversationOf(a) : SeenOf(a)[c] = Answered(Conversation(a, c))
  BY <1>2, <1>3 DEF SeenOf
<1>5. SeenOf(a) \in Seq(Seq(Messages))
  BY <1>1, <1>4
<1> QED
  BY <1>4, <1>5 DEF Seen, SeenOf

(* Up to any answer a conversation has been seen. *)
LEMMA SeenHas ==
  ASSUME TypeOK, NEW a \in Agents, NEW c \in 1..ConversationOf(a),
         NEW p \in DOMAIN Conversation(a, c), Conversation(a, c)[p].role = "assistant"
  PROVE  \E i \in DOMAIN Seen(a) : p \in DOMAIN Seen(a)[i]
                                   /\ SubSeq(Seen(a)[i], 1, p) = SubSeq(Conversation(a, c), 1, p)
<1> DEFINE I == {i \in DOMAIN SeenOf(a) : SeenOf(a)[i] # <<>>}
<1> PICK h : h = Conversation(a, c)
  OBVIOUS
<1> PICK s : s = Answered(h)
  OBVIOUS
<1>1. h \in Seq(Messages) /\ p \in 1..Len(h)
  BY ConversationType
<1>2. p <= UpToAnswer(h) /\ UpToAnswer(h) \in 0..Len(h)
  BY <1>1, LastAnswer
<1>3. s \in Seq(Messages) /\ Len(s) = UpToAnswer(h) /\ \A i \in 1..UpToAnswer(h) : s[i] = h[i]
  BY <1>1, AnsweredIs
<1>4. p \in DOMAIN s /\ s # <<>>
  BY <1>1, <1>2, <1>3
<1>5. SubSeq(s, 1, p) = SubSeq(h, 1, p)
  <2>1. p \in Nat /\ p <= Len(s) /\ p <= Len(h) /\ \A i \in 1..p : s[i] = h[i]
    BY <1>1, <1>2, <1>3
  <2> QED
    BY <1>1, <1>3, <2>1, SamePrefix
<1>6. SeenOf(a)[c] = s /\ c \in DOMAIN SeenOf(a) /\ c \in I
  BY <1>4, SeenType
<1>7. Seen(a) = Kept(SeenOf(a), I) /\ SeenOf(a) \in Seq(Seq(Messages))
  BY SeenType
<1> HIDE DEF I
<1>8. PICK i \in DOMAIN Seen(a) : Seen(a)[i] = s
  BY <1>6, <1>7, KeptHas
<1> QED
  BY <1>4, <1>5, <1>8

(* Without reasoning a record is the last pair of its group. *)
LEMMA ReconstructPlain ==
  ASSUME NEW M, NEW group \in Some(PairsOver(M))
  PROVE  /\ group[Len(group)] \in PairsOver(M)
         /\ ReconstructConversation(group, TRUE, FALSE) =
                Append(group[Len(group)].request,
                       [group[Len(group)].response EXCEPT !.reasoning = NoReasoning])
<1> DEFINE request == group[Len(group)].request
           final   == [group[Len(group)].response EXCEPT !.reasoning = NoReasoning]
           shown   == [i \in DOMAIN request |-> request[i]]
           I       == {i \in DOMAIN shown : TRUE \/ shown[i].role # "tool"}
<1>1. group[Len(group)] \in PairsOver(M)
  <2>1. group \in Seq(PairsOver(M)) /\ Len(group) \in 1..Len(group)
    BY DEF Some
  <2> QED
    BY <2>1
<1>2. request \in Seq(M)
  BY <1>1 DEF PairsOver
<1>3. ReconstructConversation(group, TRUE, FALSE) = Append(Kept(shown, I), final)
  BY DEF ReconstructConversation, WithResults
<1>4. shown = request /\ DOMAIN shown \subseteq I
  BY <1>2
<1> HIDE DEF shown, I, request, final
<1>5. Kept(shown, I) = request
  BY <1>2, <1>4, KeptAll
<1>6. ReconstructConversation(group, TRUE, FALSE) = Append(request, final)
  BY <1>3, <1>5
<1> QED
  BY <1>1, <1>6 DEF request, final

(* A pair that was given, put together again, is what was seen of a conversation. *)
LEMMA GivenSeen ==
  ASSUME TypeOK, Shapes, NEW a \in Agents, NEW pair, Given(a, pair)
  PROVE  \E i \in DOMAIN Seen(a) : \E n \in DOMAIN Seen(a)[i] :
             Append(pair.request, [pair.response EXCEPT !.reasoning = NoReasoning]) =
                 SubSeq(Seen(a)[i], 1, n)
<1>1. PICK c \in 1..ConversationOf(a) : \E p \in DOMAIN Conversation(a, c) :
          Conversation(a, c)[p].role = "assistant" /\ pair = Pair(a, c, p)
  BY DEF Given
<1>2. PICK p \in DOMAIN Conversation(a, c) :
          Conversation(a, c)[p].role = "assistant" /\ pair = Pair(a, c, p)
  BY <1>1
<1> PICK h : h = Conversation(a, c)
  OBVIOUS
<1>3. h \in Seq(Messages)
  BY ConversationType
<1>4. Shaped(h, c)
  BY ConversationShape
<1>5. h[p] \in Messages /\ h[p].reasoning = NoReasoning
  BY <1>2, <1>3, <1>4 DEF Shaped
<1>6. pair = [request  |-> SubSeq(h, 1, p - 1),
              response |-> [h[p] EXCEPT !.reasoning = h[p].content]]
  BY <1>2 DEF Pair
<1>7. [pair.response EXCEPT !.reasoning = NoReasoning] = h[p]
  BY <1>5, <1>6 DEF Messages
<1>8. Append(SubSeq(h, 1, p - 1), h[p]) = SubSeq(h, 1, p)
  BY <1>2, <1>3
<1>9. PICK i \in DOMAIN Seen(a) : p \in DOMAIN Seen(a)[i] /\ SubSeq(Seen(a)[i], 1, p) = SubSeq(h, 1, p)
  BY <1>2, SeenHas
<1> QED
  BY <1>6, <1>7, <1>8, <1>9

(* A sequence of one element. *)
LEMMA OnlyOne == ASSUME NEW x, NEW r, r = <<x>>, NEW k \in DOMAIN r PROVE r[k] = x
OBVIOUS

(* What is put together of given pairs was seen. *)
LEMMA SeenWhole == TypeOK /\ Filed /\ Shapes /\ AllGiven => ExportWasSeen
<1>1. SUFFICES ASSUME TypeOK, Filed, Shapes, AllGiven, ~Running, InTurn,
                      NEW a \in Agents, NEW k \in DOMAIN Exported(a, TRUE, FALSE)
               PROVE  \/ Exported(a, TRUE, FALSE)[k] = <<TaskPrompt(a)>>
                      \/ \E i \in DOMAIN Seen(a) : \E n \in DOMAIN Seen(a)[i] :
                             Exported(a, TRUE, FALSE)[k] = SubSeq(Seen(a)[i], 1, n)
  BY DEF ExportWasSeen
<1> PICK records : records = Exported(a, TRUE, FALSE)
  OBVIOUS
<1>9. k \in DOMAIN records
  BY Zenon
<1>10. SUFFICES \/ records[k] = <<TaskPrompt(a)>>
                \/ \E i \in DOMAIN Seen(a) : \E n \in DOMAIN Seen(a)[i] :
                       records[k] = SubSeq(Seen(a)[i], 1, n)
  BY Zenon
<1> DEFINE pairs  == ParsedOf(a).pairs
           groups == GroupIntoConversations(ParseTraceEvents(files[a], FALSE).pairs)
           P      == {pair \in PairsOver(Messages) : Given(a, pair)}
<1>2. pairs \in Seq(P)
  <2>1. pairs \in Seq(PairsOver(Messages))
    BY <1>1, ParsedIs DEF Parsed
  <2>2. \A i \in DOMAIN pairs : Given(a, pairs[i])
    BY <1>1 DEF AllGiven
  <2> HIDE DEF pairs
  <2> QED
    BY <2>1, <2>2
<1>3. groups = GroupIntoConversations(pairs)
  BY <1>1 DEF Filed, ParsedOf
<1>4. groups \in Seq(Some(P))
  <2> HIDE DEF groups, pairs, P
  <2> QED
    BY <1>2, <1>3, GroupType
<1>5. CASE groups = <<>>
  <2>1. records = <<<<TaskPrompt(a)>>>>
    BY <1>5 DEF Exported, BuildConversation
  <2>2. records[k] = <<TaskPrompt(a)>>
    BY Zenon, <1>9, <2>1, OnlyOne
  <2> QED
    BY <2>2
<1>6. CASE groups # <<>>
  <2>1. records = [i \in DOMAIN groups |-> ReconstructConversation(groups[i], TRUE, FALSE)]
    BY <1>6 DEF Exported, BuildConversation
  <2> HIDE DEF groups
  <2>2. k \in DOMAIN groups /\ records[k] = ReconstructConversation(groups[k], TRUE, FALSE)
    BY Zenon, <1>9, <2>1
  <2>3. groups[k] \in Some(P)
    BY <1>4, <2>2
  <2> PICK last : last = groups[k][Len(groups[k])]
    OBVIOUS
  <2>4. last \in P
    BY <2>3 DEF Some
  <2>5. groups[k] \in Some(PairsOver(Messages))
    BY <2>3 DEF Some
  <2>6. records[k] = Append(last.request, [last.response EXCEPT !.reasoning = NoReasoning])
    BY <2>2, <2>5, ReconstructPlain
  <2>7. Given(a, last)
    BY <2>4
  <2> QED
    BY <1>1, <2>6, <2>7, GivenSeen, ZenonT(60)
<1> QED
  BY <1>5, <1>6

-----------------------------------------------------------------------------
(* The conversations of an agent are told apart by the exporter. *)
LEMMA TellsStays ==
  ASSUME TypeOK, TypeOK', NEW a \in Agents, AgentStep(a), NEW c \in 1..ConversationOf(a),
         c \in DOMAIN PromptLen, NEW group, Len(group) \in Nat, DOMAIN group = 1..Len(group),
         Tells(a, c, group), Len(Conversation(a, c)') <= AnswerAt(c, Len(group)) - 1
  PROVE  Tells(a, c, group)'
<1> PICK n : n = Len(group)
  OBVIOUS
<1>1. PromptLen[c] \in Nat /\ n \in Nat \ {0}
  BY Numbers DEF Tells
<1>2. Conversation(a, c) \in Seq(Messages) /\ AnswerAt(c, n - 1) <= Len(Conversation(a, c))
  BY ConversationType DEF Tells
<1>3. ASSUME NEW j \in 1..n PROVE group[j] = Pair(a, c, AnswerAt(c, j - 1))'
  <2> PICK p : p = AnswerAt(c, j - 1)
    OBVIOUS
  <2>1. p \in Nat \ {0} /\ p <= AnswerAt(c, n - 1)
    BY <1>1 DEF AnswerAt
  <2>2. p \in DOMAIN Conversation(a, c)
    <3>1. AnswerAt(c, n - 1) \in Nat
      BY <1>1 DEF AnswerAt
    <3> QED
      BY <1>2, <2>1, <3>1
  <2>3. Pair(a, c, p)' = Pair(a, c, p)
    BY <2>2, PairStays
  <2>4. group[j] = Pair(a, c, p)
    BY DEF Tells
  <2>5. AnswerAt(c, j - 1)' = AnswerAt(c, j - 1)
    BY DEF AnswerAt
  <2> QED
    BY <2>3, <2>4, <2>5
<1>4. AnswerAt(c, n - 1) <= Len(Conversation(a, c)')
  <2>1. Len(Conversation(a, c)) <= Len(Conversation(a, c)')
    BY ConversationStep
  <2>2. AnswerAt(c, n - 1) \in Nat /\ Len(Conversation(a, c)) \in Nat
    BY <1>1, <1>2 DEF AnswerAt
  <2>3. Len(Conversation(a, c)') \in Int
    <3>1. history'[a] \in Seq(Messages) /\ finished'[a] \in Seq(Seq(Messages))
      BY DEF TypeOK
    <3>2. c \in 1..ConversationOf(a)' /\ ConversationOf(a)' = Len(finished'[a]) + 1
      BY ConversationStep DEF ConversationOf
    <3>3. c = ConversationOf(a)' \/ c \in DOMAIN finished'[a]
      BY <3>1, <3>2
    <3>4. Conversation(a, c)' \in Seq(Messages)
      BY <3>1, <3>3 DEF Conversation
    <3> QED
      BY <3>4
  <2> QED
    BY <1>2, <2>1, <2>2, <2>3
<1>5. group # <<>>
  BY DEF Tells
<1> QED
  BY <1>3, <1>4, <1>5 DEF Tells, AnswerAt

(* Within a conversation a request is longer than the one before. *)
LEMMA SameConversation ==
  ASSUME NEW prev \in Seq(Messages), NEW curr \in Seq(Messages), Len(prev) < Len(curr)
  PROVE  ~IsNewConversation(prev, curr)
<1>1. Len(prev) \in Nat /\ Len(curr) \in Nat
  OBVIOUS
<1> QED
  BY <1>1 DEF IsNewConversation

(* The first request of the next conversation is not longer, and begins differently. *)
LEMMA OtherConversation ==
  ASSUME NEW prev \in Seq(Messages), NEW curr \in Seq(Messages), 1 <= Len(curr),
         Len(curr) <= Len(prev), prev[1].content # curr[1].content
  PROVE  IsNewConversation(prev, curr)
<1>1. Len(prev) \in Nat /\ Len(curr) \in Nat /\ 1 \in DOMAIN curr
  OBVIOUS
<1> QED
  BY <1>1 DEF IsNewConversation

(* One more pair of a task is one more round of the grouping. *)
LEMMA GroupsTo ==
  ASSUME TypeOK, NEW a \in Agents, NEW pair \in PairsOver(Messages),
         ParsedOf(a)'.pairs = Append(ParsedOf(a).pairs, pair)
  PROVE  GroupsOf(a)' = NextPair(GroupsOf(a), pair)
<1>1. ParsedOf(a).pairs \in Seq(PairsOver(Messages))
  BY ParsedIs DEF Parsed
<1>2. GroupIntoConversations(Append(ParsedOf(a).pairs, pair)) =
          NextPair(GroupIntoConversations(ParsedOf(a).pairs), pair)
  BY <1>1, GroupAppend
<1> QED
  BY <1>2 DEF GroupsOf

(* The groups of a task are of messages. *)
LEMMA GroupsAre ==
  ASSUME TypeOK, NEW a \in Agents PROVE GroupsOf(a) \in Seq(Some(PairsOver(Messages)))
<1>1. ParsedOf(a).pairs \in Seq(PairsOver(Messages))
  BY ParsedIs DEF Parsed
<1> QED
  BY <1>1, GroupType DEF GroupsOf

(* The groups of the other conversations stay as they are. *)
LEMMA OthersTold ==
  ASSUME TypeOK, TypeOK', Shapes, NEW a \in Agents, AgentStep(a),
         NEW k \in 1..ConversationOf(a), NEW group \in Some(PairsOver(Messages)),
         Tells(a, k, group), Conversation(a, k)' = Conversation(a, k)
  PROVE  Tells(a, k, group)'
<1>1. Len(group) \in Nat /\ DOMAIN group = 1..Len(group)
  BY DEF Some
<1>2. k \in DOMAIN PromptLen
  BY ConversationShape
<1>3. Len(Conversation(a, k)') <= AnswerAt(k, Len(group)) - 1
  BY DEF Tells
<1> QED
  BY <1>1, <1>2, <1>3, TellsStays

(* Where a conversation asks next says how many answers it has. *)
LEMMA Between ==
  ASSUME NEW c \in DOMAIN PromptLen, NEW n \in Nat \ {0}, NEW j \in Nat \ {0}, NEW l,
         l = AnswerAt(c, j) - 1, AnswerAt(c, n - 1) <= l, l <= AnswerAt(c, n) - 1
  PROVE  n = j /\ AnswerAt(c, n - 1) \in Nat /\ AnswerAt(c, n - 1) < l /\ AnswerAt(c, n - 1) >= 1
<1> PICK m : m = PromptLen[c]
  OBVIOUS
<1>1. m \in Nat
  BY Numbers
<1>2. /\ l = m + 2 * j /\ AnswerAt(c, n - 1) = m + 2 * (n - 1) + 1
      /\ AnswerAt(c, n) = m + 2 * n + 1
  BY <1>1 DEF AnswerAt
<1>3. m + 2 * (n - 1) + 1 <= m + 2 * j /\ m + 2 * j <= m + 2 * n
  BY <1>1, <1>2
<1>4. n = j
  BY <1>1, <1>3
<1> QED
  BY <1>1, <1>2, <1>4

(* One more element of a sequence. *)
LEMMA AppendIs ==
  ASSUME NEW A, NEW s \in Seq(A), NEW e \in A
  PROVE  /\ Len(Append(s, e)) = Len(s) + 1 /\ DOMAIN Append(s, e) = 1..(Len(s) + 1)
         /\ Append(s, e)[Len(s) + 1] = e /\ DOMAIN s = 1..Len(s)
         /\ \A k \in 1..Len(s) : Append(s, e)[k] = s[k]
OBVIOUS

(* The request of a pair is all before its answer. *)
LEMMA RequestIs ==
  ASSUME NEW a, NEW c, NEW p PROVE Pair(a, c, p).request = SubSeq(Conversation(a, c), 1, p - 1)
BY DEF Pair

(* An answer that is recorded begins the group of its conversation, or goes on with it. *)
LEMMA GroupedAnswer ==
  ASSUME TypeOK, TypeOK', Shapes, Separable, NEW a \in Agents, AgentStep(a), GroupedFor(a),
         pc[a] = "waiting", UNCHANGED finished,
         history'[a] = Append(history[a], Sent(Response(a))),
         ParsedOf(a)'.pairs = Append(ParsedOf(a).pairs,
                                  [request |-> history[a], response |-> Response(a)])
  PROVE  GroupedFor(a)'
<1> PICK c : c = ConversationOf(a)
  OBVIOUS
<1> PICK p : p = Len(history[a]) + 1
  OBVIOUS
<1> PICK pair : pair = [request |-> history[a], response |-> Response(a)]
  OBVIOUS
<1> PICK groups : groups = GroupsOf(a)
  OBVIOUS
<1> PICK now : now = GroupsOf(a)'
  OBVIOUS
<1>1. c \in Nat \ {0} /\ Len(finished[a]) = c - 1
  BY CountType
<1>2. history[a] \in Seq(Messages) /\ p \in Nat \ {0} /\ c = ConversationOf(a)'
      /\ finished[a] \in Seq(Seq(Messages))
  <2>1. history[a] \in Seq(Messages) /\ finished[a] \in Seq(Seq(Messages))
    BY CountType
  <2>2. c = ConversationOf(a)'
    BY DEF ConversationOf
  <2> QED
    BY <2>1, <2>2
<1>3. c \in DOMAIN PromptLen /\ PromptLen[c] \in Nat \ {0} /\ Shaped(history[a], c)
  <2>1. c \in 1..ConversationOf(a) /\ Conversation(a, c) = history[a]
    BY <1>1 DEF Conversation
  <2> QED
    BY <2>1, ConversationShape, Numbers
<1>4. PICK j \in Nat : p = AnswerAt(c, j)
  BY DEF Shapes, Shape, Asking
<1>5. pair \in PairsOver(Messages) /\ pair.request = history[a]
  BY <1>2, ResponseType DEF PairsOver
<1>6. pair = Pair(a, c, p)'
  BY <1>2, Accepted
<1>7. now = NextPair(groups, pair) /\ groups \in Seq(Some(PairsOver(Messages)))
  BY <1>5, GroupsTo, GroupsAre
<1>8. Conversation(a, c)' = history'[a] /\ Len(history'[a]) = p /\ HasAnswer(a)'
  <2>1. Len(history'[a]) = p
    BY <1>2, ResponseType
  <2>2. p > PromptLen[c]
    BY <1>3, <1>4, AnswersApart
  <2> QED
    BY <1>2, <2>1, <2>2 DEF Conversation, HasAnswer
<1>9. /\ Len(groups) = IF HasAnswer(a) THEN c ELSE c - 1
      /\ \A k \in DOMAIN groups : Tells(a, k, groups[k])
  BY <1>1 DEF GroupedFor
<1>10. ASSUME NEW k \in DOMAIN groups, k # c PROVE Tells(a, k, groups[k])'
  <2>1. k \in 1..ConversationOf(a) /\ groups[k] \in Some(PairsOver(Messages))
    BY <1>1, <1>7, <1>9
  <2>2. Conversation(a, k)' = Conversation(a, k)
    BY <1>2, <1>10 DEF Conversation
  <2>3. Tells(a, k, groups[k])
    BY <1>9
  <2> QED
    BY <2>1, <2>2, <2>3, OthersTold
<1>11. SUFFICES Len(now) = c /\ \A k \in DOMAIN now : Tells(a, k, now[k])'
  BY <1>2, <1>8 DEF GroupedFor
<1>12. CASE j = 0
  <2>1. p = PromptLen[c] + 1 /\ ~HasAnswer(a) /\ Len(groups) = c - 1
    BY <1>1, <1>3, <1>4, <1>9, <1>12 DEF AnswerAt, HasAnswer
  <2>2. now = Append(groups, <<pair>>)
    <3>1. CASE groups = <<>>
      BY <1>7, <3>1 DEF NextPair
    <3>2. CASE groups # <<>>
      <4> PICK b : b = Len(groups)
        OBVIOUS
      <4> PICK group : group = groups[b]
        OBVIOUS
      <4> PICK q : q = AnswerAt(b, Len(group) - 1)
        OBVIOUS
      <4> PICK h : h = Conversation(a, b)
        OBVIOUS
      <4> PICK prev : prev = group[Len(group)].request
        OBVIOUS
      <4>1. b \in DOMAIN groups /\ b = c - 1 /\ b \in 1..ConversationOf(a)
        BY <1>1, <1>7, <2>1, <3>2
      <4>2. b \in DOMAIN PromptLen /\ Shaped(h, b) /\ h \in Seq(Messages)
        BY <4>1, ConversationShape, ConversationType
      <4>3. PromptLen[b] \in Nat \ {0} /\ PromptLen[c] <= PromptLen[b]
        <5>1. c \in 2..Len(PromptLen)
          BY <1>1, <1>3, <4>1, <4>2, Numbers
        <5>2. PromptLen[c] <= PromptLen[c - 1]
          BY <5>1 DEF Separable
        <5> QED
          BY <4>1, <4>2, <5>2, Numbers
      <4>4. group \in Some(PairsOver(Messages)) /\ Len(group) \in Nat \ {0} /\ DOMAIN group = 1..Len(group)
        <5>1. group \in Some(PairsOver(Messages))
          BY <1>7, <4>1
        <5> QED
          BY <5>1 DEF Some
      <4>5. /\ q <= Len(h) /\ group[Len(group)] = Pair(a, b, q)
        <5>1. Tells(a, b, group)
          BY <1>9, <4>1
        <5>2. Len(group) \in DOMAIN group
          BY <4>4
        <5>3. group[Len(group)] = Pair(a, b, AnswerAt(b, Len(group) - 1))
              /\ AnswerAt(b, Len(group) - 1) <= Len(Conversation(a, b))
          BY <5>1, <5>2 DEF Tells
        <5> QED
          BY <5>3
      <4>6. q \in Nat /\ q > PromptLen[b]
        BY <4>3, <4>4 DEF AnswerAt
      <4>7. prev = SubSeq(h, 1, q - 1)
        BY <4>5, RequestIs
      <4>8. prev \in Seq(Messages) /\ Len(prev) = q - 1 /\ prev[1] = h[1] /\ 1 \in DOMAIN h
        <5>1. q - 1 \in 1..Len(h)
          BY <4>2, <4>3, <4>5, <4>6
        <5>2. \A s \in Seq(Messages) : \A m \in 1..Len(s) :
                  /\ SubSeq(s, 1, m) \in Seq(Messages) /\ Len(SubSeq(s, 1, m)) = m
                  /\ SubSeq(s, 1, m)[1] = s[1] /\ 1 \in DOMAIN s
          OBVIOUS
        <5> QED
          BY <4>2, <4>7, <5>1, <5>2
      <4>9. Len(history[a]) = PromptLen[c] /\ 1 \in DOMAIN history[a]
        BY <1>2, <1>3, <2>1
      <4>10. prev[1].content[2] = b /\ history[a][1].content[2] = c
        <5>1. \A d \in DOMAIN PromptLen, k \in Nat : 1 # AnswerAt(d, k)
          <6> SUFFICES ASSUME NEW d \in DOMAIN PromptLen, NEW k \in Nat PROVE 1 # AnswerAt(d, k)
            OBVIOUS
          <6>1. PromptLen[d] \in Nat \ {0} /\ AnswerAt(d, k) > PromptLen[d] /\ AnswerAt(d, k) \in Nat
            BY Numbers, AnswersApart
          <6> QED
            BY <6>1
        <5>2. h[1].role # "assistant" /\ history[a][1].role # "assistant"
          BY <1>3, <4>2, <4>8, <4>9, <5>1 DEF Shaped
        <5> QED
          BY <1>3, <4>2, <4>8, <4>9, <5>2 DEF Shaped
      <4>11. prev[1].content # history[a][1].content
        BY <1>1, <4>1, <4>10
      <4>12. IsNewConversation(prev, history[a])
        <5>1. 1 <= Len(history[a]) /\ Len(history[a]) <= Len(prev)
          BY <1>3, <4>3, <4>6, <4>8, <4>9
        <5> QED
          BY <1>2, <4>8, <4>11, <5>1, OtherConversation
      <4> QED
        BY <1>5, <1>7, <4>12 DEF NextPair
    <3> QED
      BY <3>1, <3>2
  <2>3. <<pair>> \in Some(PairsOver(Messages))
    BY <1>5 DEF Some
  <2>4. /\ Len(now) = c /\ DOMAIN now = 1..c /\ now[c] = <<pair>>
        /\ \A k \in 1..(c - 1) : now[k] = groups[k] /\ k \in DOMAIN groups
    <3> PICK one : one = <<pair>>
      OBVIOUS
    <3>1. one \in Some(PairsOver(Messages)) /\ now = Append(groups, one)
      BY <2>2, <2>3
    <3>2. /\ Len(now) = Len(groups) + 1 /\ DOMAIN now = 1..(Len(groups) + 1)
          /\ now[Len(groups) + 1] = one /\ DOMAIN groups = 1..Len(groups)
          /\ \A k \in 1..Len(groups) : now[k] = groups[k]
      <4>1. /\ Len(Append(groups, one)) = Len(groups) + 1
            /\ DOMAIN Append(groups, one) = 1..(Len(groups) + 1)
            /\ Append(groups, one)[Len(groups) + 1] = one /\ DOMAIN groups = 1..Len(groups)
            /\ \A k \in 1..Len(groups) : Append(groups, one)[k] = groups[k]
        BY <1>7, <3>1, AppendIs
      <4> QED
        BY <3>1, <4>1
    <3>3. Len(groups) + 1 = c
      BY <1>1, <2>1
    <3> QED
      BY <2>1, <3>2, <3>3
  <2>5. Tells(a, c, <<pair>>)'
    <3>1. Len(<<pair>>) = 1 /\ <<pair>>[1] = pair /\ DOMAIN <<pair>> = 1..1 /\ <<pair>> # <<>>
      OBVIOUS
    <3>2. AnswerAt(c, 0) = p /\ AnswerAt(c, 1) = p + 2
      BY <1>3, <1>4, <1>12 DEF AnswerAt
    <3>3. p <= Len(Conversation(a, c)') /\ Len(Conversation(a, c)') <= p + 2 - 1
      BY <1>2, <1>8
    <3>4. PICK one : one = <<pair>>
      OBVIOUS
    <3>5. Tells(a, c, one)'
      BY <1>6, <3>1, <3>2, <3>3, <3>4 DEF Tells, AnswerAt
    <3> QED
      BY <3>4, <3>5
  <2>6. ASSUME NEW k \in 1..c PROVE Tells(a, k, now[k])'
    <3>1. CASE k = c
      BY <2>4, <2>5, <3>1
    <3>2. CASE k # c
      <4>1. k \in 1..(c - 1)
        BY <1>1, <3>2
      <4> QED
        BY <1>10, <2>4, <3>2, <4>1
    <3> QED
      BY <3>1, <3>2
  <2> QED
    BY <2>4, <2>6
<1>13. CASE j # 0
  <2> PICK group : group = groups[c]
    OBVIOUS
  <2> PICK n : n = Len(group)
    OBVIOUS
  <2> PICK q : q = AnswerAt(c, n - 1)
    OBVIOUS
  <2>1. HasAnswer(a) /\ Len(groups) = c
    <3>1. Len(history[a]) > PromptLen[c]
      BY <1>2, <1>3, <1>4, <1>13 DEF AnswerAt
    <3>2. HasAnswer(a)
      BY <3>1 DEF HasAnswer
    <3> QED
      BY <1>9, <3>2
  <2>2. c \in DOMAIN groups /\ groups # <<>> /\ DOMAIN groups = 1..c
    BY <1>1, <1>7, <2>1
  <2>3. group \in Some(PairsOver(Messages)) /\ n \in Nat \ {0} /\ DOMAIN group = 1..n
        /\ group \in Seq(PairsOver(Messages))
    <3>1. group \in Some(PairsOver(Messages))
      BY <1>7, <2>2
    <3> QED
      BY <3>1 DEF Some
  <2>4. /\ q <= Len(history[a]) /\ Len(history[a]) <= AnswerAt(c, n) - 1
        /\ \A i \in DOMAIN group : group[i] = Pair(a, c, AnswerAt(c, i - 1))
    <3>1. Tells(a, c, group)
      BY <1>9, <2>2
    <3> QED
      BY <3>1 DEF Tells, Conversation
  <2>5. n = j /\ q \in Nat /\ q < p - 1 /\ q >= 1
    <3>1. j \in Nat \ {0} /\ n \in Nat \ {0}
      BY <1>13, <2>3
    <3>2. Len(history[a]) = AnswerAt(c, j) - 1
      BY <1>2, <1>4
    <3>3. AnswerAt(c, n - 1) <= Len(history[a]) /\ Len(history[a]) <= AnswerAt(c, n) - 1
      BY <2>4
    <3>4. /\ n = j /\ AnswerAt(c, n - 1) \in Nat /\ AnswerAt(c, n - 1) < Len(history[a])
          /\ AnswerAt(c, n - 1) >= 1
      BY <1>3, <3>1, <3>2, <3>3, Between
    <3>5. Len(history[a]) = p - 1
      BY <1>2
    <3> QED
      BY <3>4, <3>5
  <2>6. group[n].request = SubSeq(history[a], 1, q - 1)
    <3>1. group[n] = Pair(a, c, q)
      <4>1. n \in DOMAIN group
        BY <2>3
      <4> QED
        BY <2>4, <4>1
    <3> QED
      BY <3>1, RequestIs DEF Conversation
  <2>7. group[n].request \in Seq(Messages) /\ Len(group[n].request) < Len(history[a])
    <3>1. q - 1 \in 0..Len(history[a]) /\ q - 1 < Len(history[a])
      BY <1>2, <2>4, <2>5
    <3>2. \A s \in Seq(Messages) : \A m \in 0..Len(s) :
              SubSeq(s, 1, m) \in Seq(Messages) /\ Len(SubSeq(s, 1, m)) = m
      OBVIOUS
    <3> QED
      BY <1>2, <2>6, <3>1, <3>2
  <2>8. ~IsNewConversation(group[n].request, history[a])
    BY <1>2, <2>7, SameConversation
  <2> PICK longer : longer = Append(group, pair)
    OBVIOUS
  <2>9. now = [groups EXCEPT ![c] = longer]
    BY <1>5, <1>7, <2>1, <2>2, <2>8 DEF NextPair
  <2>10. /\ Len(longer) = n + 1 /\ DOMAIN longer = 1..(n + 1) /\ longer[n + 1] = pair
         /\ longer # <<>> /\ \A i \in 1..n : longer[i] = group[i]
    BY <1>5, <2>3, SMTT(30)
  <2>11. Len(now) = c /\ DOMAIN now = 1..c /\ now[c] = longer
         /\ \A k \in 1..c : k # c => now[k] = groups[k]
    <3>1. longer \in Some(PairsOver(Messages))
      BY <1>5, <2>3 DEF Some
    <3> QED
      BY <1>7, <2>1, <2>2, <2>9, <3>1
  <2>12. Tells(a, c, longer)'
    <3>1. AnswerAt(c, Len(longer) - 1) = p /\ AnswerAt(c, Len(longer)) = p + 2
      <4>1. Len(longer) - 1 = j /\ Len(longer) = j + 1
        BY <2>5, <2>10
      <4>2. AnswerAt(c, j) = p /\ AnswerAt(c, j + 1) = p + 2
        BY <1>3, <1>4 DEF AnswerAt
      <4> QED
        BY <4>1, <4>2
    <3>2. p <= Len(Conversation(a, c)') /\ Len(Conversation(a, c)') <= p + 2 - 1
      BY <1>2, <1>8
    <3>3. ASSUME NEW i \in 1..n PROVE longer[i] = Pair(a, c, AnswerAt(c, i - 1))'
      <4> PICK r : r = AnswerAt(c, i - 1)
        OBVIOUS
      <4>1. r \in Nat \ {0} /\ r <= q
        BY <1>3, <2>3, SMTT(30) DEF AnswerAt
      <4>2. r \in DOMAIN Conversation(a, c) /\ c \in 1..ConversationOf(a)
        BY <1>1, <1>2, <2>4, <2>5, <4>1, SMTT(30) DEF Conversation
      <4>3. Pair(a, c, r)' = Pair(a, c, r)
        BY <4>2, PairStays
      <4>4. longer[i] = Pair(a, c, r)
        BY <2>3, <2>4, <2>10
      <4>5. AnswerAt(c, i - 1)' = AnswerAt(c, i - 1)
        BY DEF AnswerAt
      <4> QED
        BY <4>3, <4>4, <4>5
    <3>4. ASSUME NEW i \in DOMAIN longer PROVE longer[i] = Pair(a, c, AnswerAt(c, i - 1))'
      <4>1. i \in 1..n \/ i = n + 1
        BY <2>3, <2>10
      <4>2. AnswerAt(c, n) = p
        BY <1>4, <2>5
      <4>3. CASE i = n + 1
        <5>1. i - 1 = n
          BY <2>3, <4>3
        <5>2. Pair(a, c, AnswerAt(c, i - 1))' = Pair(a, c, p)'
          BY <4>2, <5>1 DEF AnswerAt
        <5> QED
          BY <1>6, <2>10, <4>3, <5>2
      <4> QED
        BY <3>3, <4>1, <4>3
    <3>5. \A x, y : AnswerAt(x, y)' = AnswerAt(x, y)
      BY DEF AnswerAt
    <3>6. AnswerAt(c, Len(longer) - 1) <= Len(Conversation(a, c)')
          /\ Len(Conversation(a, c)') <= AnswerAt(c, Len(longer)) - 1
      BY <3>1, <3>2
    <3> QED
      BY <2>10, <3>4, <3>5, <3>6 DEF Tells
  <2>13. ASSUME NEW k \in 1..c PROVE Tells(a, k, now[k])'
    <3>1. CASE k = c
      BY <2>11, <2>12, <3>1
    <3>2. CASE k # c
      BY <1>10, <2>2, <2>11, <3>2
    <3> QED
      BY <3>1, <3>2
  <2> QED
    BY <2>11, <2>13
<1> QED
  BY <1>12, <1>13

(* Any other step of an agent leaves the groups alone. *)
LEMMA GroupedSilent ==
  ASSUME TypeOK, TypeOK', Shapes, NEW a \in Agents, AgentStep(a), GroupedFor(a),
         pc'[a] # "answered", ParsedOf(a)'.pairs = ParsedOf(a).pairs
  PROVE  GroupedFor(a)'
<1> PICK c : c = ConversationOf(a)
  OBVIOUS
<1> PICK groups : groups = GroupsOf(a)
  OBVIOUS
<1> PICK h : h = history[a]
  OBVIOUS
<1>1. groups = GroupsOf(a)' /\ groups \in Seq(Some(PairsOver(Messages)))
  BY GroupsAre DEF GroupsOf
<1>2. c \in Nat \ {0} /\ Len(finished[a]) = c - 1 /\ c \in 1..ConversationOf(a)
      /\ finished[a] \in Seq(Seq(Messages)) /\ h \in Seq(Messages)
  <2>1. c \in Nat \ {0} /\ Len(finished[a]) = c - 1
    BY CountType
  <2>2. finished[a] \in Seq(Seq(Messages)) /\ h \in Seq(Messages)
    BY CountType
  <2> QED
    BY <2>1, <2>2
<1>3. c \in DOMAIN PromptLen /\ PromptLen[c] \in Nat \ {0}
  BY <1>2, ConversationShape, Numbers
<1>4. /\ Len(groups) = IF HasAnswer(a) THEN c ELSE c - 1
      /\ \A k \in DOMAIN groups : Tells(a, k, groups[k])
  BY <1>2 DEF GroupedFor
<1>5. ASSUME NEW k \in DOMAIN groups
      PROVE  k \in 1..ConversationOf(a) /\ groups[k] \in Some(PairsOver(Messages))
  BY <1>1, <1>2, <1>4
<1>6. CASE UNCHANGED <<history, finished>>
  <2>1. ConversationOf(a)' = c /\ (HasAnswer(a)' <=> HasAnswer(a))
    BY <1>6 DEF ConversationOf, HasAnswer
  <2>2. ASSUME NEW k \in DOMAIN groups PROVE Tells(a, k, groups[k])'
    <3>1. Conversation(a, k)' = Conversation(a, k)
      BY <1>6, <2>1 DEF Conversation
    <3> QED
      BY <1>4, <1>5, <3>1, OthersTold
  <2> QED
    BY <1>1, <1>4, <2>1, <2>2, <1>2, <1>6 DEF GroupedFor
<1>7. ASSUME pc[a] = "answered" PROVE HasAnswer(a) /\ Len(groups) = c /\ Ended(h, c)
  <2>1. PICK j \in Nat : Len(h) = AnswerAt(c, j)
    BY <1>7 DEF Shapes, Shape, Ended
  <2>2. AnswerAt(c, j) > PromptLen[c]
    BY <1>3, AnswersApart
  <2>3. HasAnswer(a)
    BY <2>1, <2>2 DEF HasAnswer
  <2> QED
    BY <1>4, <2>1, <2>3 DEF Ended
<1>8. CASE /\ pc[a] = "answered" /\ UNCHANGED finished
           /\ \E role \in {"tool", "user"} :
                  history'[a] = Append(h, Message(role, <<a, c, Len(h) + 1, 1>>))
  <2>1. Len(history'[a]) = Len(h) + 1 /\ Len(h) \in Nat
    <3>1. \A role \in {"tool", "user"} : Message(role, <<a, c, Len(h) + 1, 1>>) \in Messages
      BY CountType, MessageType
    <3> QED
      BY <1>2, <1>8, <3>1
  <2>2. ConversationOf(a)' = c /\ HasAnswer(a)'
    <3>1. Len(h) > PromptLen[c]
      BY <1>7, <1>8 DEF HasAnswer
    <3>2. Len(history'[a]) > PromptLen[c]
      BY <1>3, <2>1, <3>1
    <3>3. ConversationOf(a)' = c
      BY <1>8 DEF ConversationOf
    <3> QED
      BY <3>2, <3>3 DEF HasAnswer
  <2>3. ASSUME NEW k \in DOMAIN groups, k # c PROVE Tells(a, k, groups[k])'
    <3>1. Conversation(a, k)' = Conversation(a, k)
      BY <1>8, <2>2, <2>3 DEF Conversation
    <3> QED
      BY <1>4, <1>5, <3>1, OthersTold
  <2>4. ASSUME c \in DOMAIN groups PROVE Tells(a, c, groups[c])'
    <3> PICK group : group = groups[c]
      OBVIOUS
    <3> PICK n : n = Len(group)
      OBVIOUS
    <3>1. Tells(a, c, group) /\ Conversation(a, c) = h /\ Conversation(a, c)' = history'[a]
      BY <1>4, <2>2, <2>4 DEF Conversation
    <3>2. Len(group) \in Nat \ {0} /\ DOMAIN group = 1..Len(group)
      <4>1. group \in Some(PairsOver(Messages))
        BY <1>5, <2>4
      <4> QED
        BY <4>1 DEF Some
    <3>3. Len(h) <= AnswerAt(c, n) - 1
      BY <3>1 DEF Tells
    <3>4. PICK j \in Nat : Len(h) = AnswerAt(c, j)
      BY <1>7, <1>8 DEF Ended
    <3>5. AnswerAt(c, j) + 1 <= AnswerAt(c, n) - 1
      <4>1. n \in Nat
        BY <3>2
      <4> QED
        BY <1>3, <3>3, <3>4, <4>1 DEF AnswerAt
    <3>6. Len(Conversation(a, c)') <= AnswerAt(c, Len(group)) - 1
      BY <2>1, <3>1, <3>4, <3>5
    <3> QED
      BY <1>2, <1>3, <3>1, <3>2, <3>6, TellsStays
  <2> QED
    BY <1>1, <1>7, <1>8, <2>2, <2>3, <2>4 DEF GroupedFor
<1>9. CASE /\ pc[a] = "answered" /\ c + 1 \in DOMAIN PromptLen
           /\ finished'[a] = Append(finished[a], h) /\ history'[a] = Prompt(a, c + 1)
  <2>1. ConversationOf(a)' = c + 1 /\ Len(finished'[a]) = c
    BY <1>2, <1>9 DEF ConversationOf
  <2>2. ~HasAnswer(a)'
    <3>1. Len(history'[a]) = PromptLen[c + 1] /\ PromptLen[c + 1] \in Nat
      BY <1>9, PromptType, Numbers
    <3> QED
      BY <2>1, <3>1 DEF HasAnswer
  <2>3. ASSUME NEW k \in DOMAIN groups PROVE Tells(a, k, groups[k])'
    <3>1. k \in 1..c
      BY <1>5
    <3>2. finished'[a][k] = IF k = c THEN h ELSE finished[a][k]
      BY <1>2, <1>9, <3>1
    <3>3. Conversation(a, k)' = Conversation(a, k)
      <4>1. k # c + 1
        BY <1>2, <3>1
      <4> QED
        BY <2>1, <3>2, <4>1 DEF Conversation
    <3> QED
      BY <1>4, <1>5, <3>3, OthersTold
  <2> QED
    BY <1>1, <1>7, <1>9, <2>1, <2>2, <2>3 DEF GroupedFor
<1> QED
  BY <1>6, <1>8, <1>9, HistoryStep

(* Groups of agents that did not step stay as they are. *)
LEMMA GroupedSame ==
  ASSUME NEW a, history'[a] = history[a], finished'[a] = finished[a],
         ParsedOf(a)' = ParsedOf(a), GroupedFor(a)
  PROVE  GroupedFor(a)'
<1>1. ConversationOf(a)' = ConversationOf(a) /\ GroupsOf(a)' = GroupsOf(a)
  BY DEF ConversationOf, GroupsOf
<1>2. \A c : Conversation(a, c)' = Conversation(a, c)
  BY <1>1 DEF Conversation
<1>3. \A c, p : Pair(a, c, p)' = Pair(a, c, p)
  BY <1>2 DEF Pair
<1>4. \A c, g : Tells(a, c, g)' <=> Tells(a, c, g)
  BY <1>2, <1>3 DEF Tells, AnswerAt
<1>5. HasAnswer(a)' <=> HasAnswer(a)
  BY <1>1 DEF HasAnswer
<1> QED
  BY <1>1, <1>4, <1>5 DEF GroupedFor

(* Every step keeps the groups the conversations. *)
LEMMA GroupedStep ==
  ASSUME TypeOK, TypeOK', Shapes, Opens, Grouped, [Next]_vars PROVE Grouped'
<1>1. ASSUME NEW a \in Agents, AgentStep(a) PROVE Grouped'
  <2>1. SUFFICES ASSUME faults \subseteq {"error", "empty"}, Separable, NEW b \in Agents PROVE GroupedFor(b)'
    BY <1>1, Keeping DEF Grouped, Separable
  <2>2. GroupedFor(b) /\ InTurn /\ {"cut", "kept"} \cap faults = {}
    BY <2>1 DEF Grouped, InTurn
  <2>3. CASE b # a
    <3>1. ParsedOf(b)' = ParsedOf(b) /\ history'[b] = history[b] /\ finished'[b] = finished[b]
      BY <1>1, <2>2, <2>3, ParsedStep, Keeping
    <3> QED
      BY <2>2, <3>1, GroupedSame
  <2>4. CASE b = a
    <3>1. CASE /\ pc[a] = "waiting" /\ pc'[a] = "answered"
               /\ history'[a] = Append(history[a], Sent(Response(a)))
               /\ ParsedOf(a)'.pairs = Append(ParsedOf(a).pairs,
                                           [request |-> history[a], response |-> Response(a)])
      <4>1. UNCHANGED finished /\ history'[a] = Append(history[a], Sent(Response(a)))
        BY <1>1, <3>1, HistoryStep
      <4> QED
        BY <1>1, <2>1, <2>2, <2>4, <3>1, <4>1, GroupedAnswer
    <3>2. CASE pc'[a] # "answered" /\ ParsedOf(a)'.pairs = ParsedOf(a).pairs
      BY <1>1, <2>2, <2>4, <3>2, GroupedSilent
    <3> QED
      BY <1>1, <2>2, <3>1, <3>2, ParsedStep
  <2> QED
    BY <2>3, <2>4
<1>2. ASSUME UNCHANGED <<faults, pc, history, finished, late, trace>> PROVE Grouped'
  <2>1. \A b \in Agents : ParsedOf(b)' = ParsedOf(b)
    BY <1>2 DEF ParsedOf, TraceOf
  <2>2. \A b \in Agents : GroupedFor(b) => GroupedFor(b)'
    BY <1>2, <2>1, GroupedSame
  <2> QED
    BY <1>2, <2>2 DEF Grouped, Separable
<1> QED
  BY <1>1, <1>2 DEF Next, Distribute, vars

-----------------------------------------------------------------------------
(* What is put together of a whole conversation. *)
LEMMA KeptFirst ==
  ASSUME NEW A, NEW s \in Seq(A), NEW I, NEW b \in 0..Len(s), \A i \in 1..Len(s) : i \in I <=> i <= b
  PROVE  Kept(s, I) = SubSeq(s, 1, b)
<1> DEFINE n == Len(s)
           f == [m \in 0..n |-> SubSeq(s, 1, IF m <= b THEN m ELSE b)]
<1>1. n \in Nat /\ DOMAIN s = 1..n /\ b \in Nat /\ b <= n
  OBVIOUS
<1>2. PICK g \in [0..n -> Seq(A)] : Keeps(g, s, I) /\ Kept(s, I) = g[n]
  <2>1. \A i \in 1..n : i \in I => s[i] \in A
    OBVIOUS
  <2> QED
    BY <2>1, KeptDef
<1>3. f[0] = <<>> /\ f[n] = SubSeq(s, 1, b)
  <2>1. SubSeq(s, 1, 0) = <<>>
    OBVIOUS
  <2>2. f[0] = SubSeq(s, 1, 0)
    BY <1>1
  <2>3. f[n] = SubSeq(s, 1, b)
    <3>1. (IF n <= b THEN n ELSE b) = b
      <4> HIDE DEF n
      <4>1. n <= b => n = b
        BY <1>1
      <4> QED
        BY <4>1
    <3>2. f[n] = SubSeq(s, 1, IF n <= b THEN n ELSE b)
      BY <1>1
    <3> HIDE DEF f, n
    <3> QED
      BY <3>1, <3>2
  <2> QED
    BY <2>1, <2>2, <2>3
<1>4. ASSUME NEW m \in 1..n PROVE f[m] = IF m <= b THEN Append(f[m - 1], s[m]) ELSE f[m - 1]
  <2>1. CASE m <= b
    <3>1. SubSeq(s, 1, m) = Append(SubSeq(s, 1, m - 1), s[m])
      OBVIOUS
    <3>2. f[m] = SubSeq(s, 1, m) /\ f[m - 1] = SubSeq(s, 1, m - 1)
      BY <1>1, <2>1
    <3> HIDE DEF f
    <3> QED
      BY <2>1, <3>1, <3>2
  <2>2. CASE ~(m <= b)
    <3>1. (IF m <= b THEN m ELSE b) = b /\ (IF m - 1 <= b THEN m - 1 ELSE b) = b
      BY <1>1, <2>2
    <3>2. /\ f[m] = SubSeq(s, 1, IF m <= b THEN m ELSE b)
          /\ f[m - 1] = SubSeq(s, 1, IF m - 1 <= b THEN m - 1 ELSE b)
      BY <1>1, SMTT(30)
    <3>3. f[m] = SubSeq(s, 1, b) /\ f[m - 1] = SubSeq(s, 1, b)
      <4> HIDE DEF f
      <4> QED
        BY <3>1, <3>2
    <3> HIDE DEF f
    <3> QED
      BY <2>2, <3>3
  <2> QED
    BY <2>1, <2>2
<1>5. \A m \in 1..n : g[m] = IF m <= b THEN Append(g[m - 1], s[m]) ELSE g[m - 1]
  BY <1>1, <1>2 DEF Keeps, Extended
<1>6. g[0] = f[0]
  BY <1>2, <1>3 DEF Keeps
<1> HIDE DEF f, n
<1>7. g[n] = f[n]
  <2>1. \A m \in 1..n : g[m - 1] = f[m - 1] => g[m] = f[m]
    BY <1>4, <1>5
  <2> QED
    BY <1>1, <1>6, <2>1, RoundsAgree
<1> QED
  BY <1>2, <1>3, <1>7

(* The answers of a conversation up to one of them. *)
LEMMA AnswersCounted ==
  ASSUME NEW c \in DOMAIN PromptLen, NEW k \in Nat
  PROVE  Cardinality({i \in 1..AnswerAt(c, k) : \E q \in Nat : i = AnswerAt(c, q)}) = k + 1
<1> DEFINE T(j) == {i \in 1..AnswerAt(c, j) : \E q \in Nat : i = AnswerAt(c, q)}
           S    == {j \in Nat : IsFiniteSet(T(j)) /\ Cardinality(T(j)) = j + 1}
<1> PICK m : m = PromptLen[c]
  OBVIOUS
<1>1. m \in Nat
  BY Numbers
<1>2. \A j \in Nat : AnswerAt(c, j) = m + 2 * j + 1
  BY DEF AnswerAt
<1>3. 0 \in S
  <2>1. ASSUME NEW i \in T(0) PROVE i = AnswerAt(c, 0)
    <3>1. PICK q \in Nat : i = AnswerAt(c, q)
      OBVIOUS
    <3>2. m + 2 * q + 1 <= m + 1
      BY <1>1, <1>2, <3>1
    <3>3. q = 0
      BY <1>1, <3>2
    <3> QED
      BY <3>1, <3>3
  <2>2. AnswerAt(c, 0) \in T(0)
    BY <1>1, <1>2
  <2> HIDE DEF T
  <2>3. T(0) = {AnswerAt(c, 0)}
    BY <2>1, <2>2
  <2>4. IsFiniteSet(T(0)) /\ Cardinality(T(0)) = 1
    BY <2>3, FS_Singleton
  <2> QED
    BY <2>4
<1>4. ASSUME NEW j \in Nat, j \in S PROVE j + 1 \in S
  <2> PICK p : p = AnswerAt(c, j + 1)
    OBVIOUS
  <2>1. p = AnswerAt(c, j) + 2 /\ AnswerAt(c, j) \in Nat /\ p \in Nat
    BY <1>1, <1>2
  <2>2. p \notin T(j) /\ p \in T(j + 1)
    BY <2>1
  <2>3. ASSUME NEW i \in T(j + 1), i # p PROVE i \in T(j)
    <3>1. PICK q \in Nat : i = AnswerAt(c, q)
      OBVIOUS
    <3>2. m + 2 * q + 1 <= m + 2 * (j + 1) + 1 /\ q # j + 1
      BY <1>1, <1>2, <2>3, <3>1
    <3>3. q <= j
      BY <1>1, <3>2
    <3>4. AnswerAt(c, q) <= AnswerAt(c, j) /\ i \in Nat \ {0}
      BY <1>1, <1>2, <3>1, <3>3
    <3> QED
      BY <2>1, <3>1, <3>4
  <2>4. ASSUME NEW i \in T(j) PROVE i \in T(j + 1)
    BY <2>1
  <2>5. T(j + 1) = T(j) \cup {p}
    <3> HIDE DEF T
    <3> QED
      BY <2>2, <2>3, <2>4
  <2>6. IsFiniteSet(T(j)) /\ Cardinality(T(j)) = j + 1
    BY <1>4
  <2> HIDE DEF T
  <2>7. IsFiniteSet(T(j) \cup {p}) /\ Cardinality(T(j) \cup {p}) = j + 1 + 1
    BY <2>2, <2>6, FS_AddElement
  <2> QED
    BY <2>5, <2>7
<1>5. \A j \in Nat : j \in S
  <2> HIDE DEF S
  <2> QED
    BY <1>3, <1>4, NatInd
<1> QED
  BY <1>5

(* A conversation has an answer if it is longer than its prompt. *)
LEMMA AnsweredSome ==
  ASSUME NEW c \in DOMAIN PromptLen, NEW h \in Seq(Messages), Shaped(h, c)
  PROVE  Answered(h) # <<>> <=> Len(h) > PromptLen[c]
<1>1. PromptLen[c] \in Nat /\ Len(h) \in Nat /\ DOMAIN h = 1..Len(h)
  BY Numbers
<1>2. Answered(h) # <<>> <=> UpToAnswer(h) > 0
  <2>1. UpToAnswer(h) \in 0..Len(h) /\ Answered(h) \in Seq(Messages) /\ Len(Answered(h)) = UpToAnswer(h)
    BY AnsweredIs, LastAnswer
  <2> QED
    BY <2>1
<1>3. ASSUME UpToAnswer(h) > 0 PROVE Len(h) > PromptLen[c]
  <2> PICK u : u = UpToAnswer(h)
    OBVIOUS
  <2>1. u \in DOMAIN h /\ h[u].role = "assistant"
    BY <1>1, <1>3, LastAnswer
  <2>2. PICK j \in Nat : u = AnswerAt(c, j)
    BY <2>1 DEF Shaped
  <2>3. u > PromptLen[c]
    BY <2>2, AnswersApart
  <2> QED
    BY <1>1, <2>1, <2>3
<1>4. ASSUME Len(h) > PromptLen[c] PROVE UpToAnswer(h) > 0
  <2> PICK p : p = AnswerAt(c, 0)
    OBVIOUS
  <2>1. p = PromptLen[c] + 1
    BY AnswersApart
  <2>2. p \in DOMAIN h
    BY <1>1, <1>4, <2>1
  <2>3. h[p].role = "assistant"
    BY <2>2 DEF Shaped
  <2>4. p <= UpToAnswer(h) /\ UpToAnswer(h) \in Nat
    BY <2>2, <2>3, LastAnswer
  <2> QED
    BY <1>1, <2>1, <2>4
<1> QED
  BY <1>2, <1>3, <1>4

(* One group for each conversation that has an answer. *)
LEMMA SeenGrouped ==
  ASSUME TypeOK, Shapes, NEW a \in Agents, GroupedFor(a)
  PROVE  /\ Len(GroupsOf(a)) \in 0..ConversationOf(a)
         /\ Seen(a) = SubSeq(SeenOf(a), 1, Len(GroupsOf(a)))
<1> PICK c : c = ConversationOf(a)
  OBVIOUS
<1> PICK b : b = Len(GroupsOf(a))
  OBVIOUS
<1> PICK s : s = SeenOf(a)
  OBVIOUS
<1> DEFINE I == {i \in DOMAIN s : s[i] # <<>>}
<1>1. c \in Nat \ {0} /\ Len(finished[a]) = c - 1
  BY CountType
<1>2. b = (IF HasAnswer(a) THEN c ELSE c - 1) /\ b \in 0..c
  BY <1>1 DEF GroupedFor
<1>3. /\ Seen(a) = Kept(s, I) /\ s \in Seq(Seq(Messages)) /\ DOMAIN s = 1..c
      /\ \A i \in 1..c : s[i] = Answered(Conversation(a, i))
  BY SeenType
<1>4. ASSUME NEW i \in 1..c PROVE i \in I <=> i <= b
  <2> PICK h : h = Conversation(a, i)
    OBVIOUS
  <2>1. i \in DOMAIN PromptLen /\ Shaped(h, i) /\ h \in Seq(Messages)
    BY ConversationShape, ConversationType
  <2>2. i \in I <=> Len(h) > PromptLen[i]
    BY <1>3, <2>1, AnsweredSome
  <2>3. CASE i = c
    <3>1. h = history[a]
      BY <2>3 DEF Conversation
    <3> QED
      BY <1>1, <1>2, <2>2, <2>3, <3>1 DEF HasAnswer
  <2>4. CASE i # c
    <3>1. h = finished[a][i] /\ i \in DOMAIN finished[a]
      <4>1. finished[a] \in Seq(Seq(Messages))
        BY CountType
      <4> QED
        BY <1>1, <2>4, <4>1 DEF Conversation
    <3>2. PICK j \in Nat : Len(h) = AnswerAt(i, j)
      BY <3>1 DEF Shapes, Shape, Ended
    <3>3. Len(h) > PromptLen[i]
      BY <2>1, <3>2, AnswersApart
    <3> QED
      BY <1>1, <1>2, <2>2, <2>4, <3>3
  <2> QED
    BY <2>3, <2>4
<1>5. Len(s) = c
  BY <1>1, <1>3
<1> HIDE DEF I
<1>6. Kept(s, I) = SubSeq(s, 1, b)
  BY <1>2, <1>3, <1>4, <1>5, KeptFirst
<1> QED
  BY <1>2, <1>3, <1>6

(* Showing the reasoning changes no role. *)
LEMMA ShownType ==
  ASSUME NEW m \in Messages, NEW reasoning
  PROVE  Shown(m, reasoning) \in Messages /\ Shown(m, reasoning).role = m.role
BY DEF Shown, Messages, Nothing, NoReasoning

(* The reasoning an answer gets back is that of its own response. *)
LEMMA AttachIs ==
  ASSUME NEW a, NEW k \in DOMAIN PromptLen, Conversation(a, k) \in Seq(Messages),
         Shaped(Conversation(a, k), k), NEW group, Len(group) \in Nat \ {0},
         DOMAIN group = 1..Len(group),
         \A j \in DOMAIN group : group[j] = Pair(a, k, AnswerAt(k, j - 1)),
         AnswerAt(k, Len(group) - 1) <= Len(Conversation(a, k)),
         NEW i \in 1..(AnswerAt(k, Len(group) - 1) - 1)
  PROVE  AttachReasoning(group, i) = Shown(Conversation(a, k)[i], TRUE)
<1> PICK h : h = Conversation(a, k)
  OBVIOUS
<1> PICK n : n = Len(group)
  OBVIOUS
<1> PICK p : p = AnswerAt(k, n - 1)
  OBVIOUS
<1>1. PromptLen[k] \in Nat /\ p \in Nat \ {0} /\ Len(h) \in Nat
  BY Numbers DEF AnswerAt
<1> PICK request : request = group[n].request
  OBVIOUS
<1>2. request = SubSeq(h, 1, p - 1)
  <2>1. n \in DOMAIN group
    OBVIOUS
  <2>2. group[n] = Pair(a, k, p)
    BY <2>1
  <2> QED
    BY <2>2, RequestIs
<1>3. \A j \in 1..(p - 1) : request[j] = h[j] /\ j \in DOMAIN h
  <2>1. p - 1 \in 0..Len(h)
    BY <1>1
  <2>2. \A s \in Seq(Messages) : \A b \in 0..Len(s) : \A j \in 1..b :
            SubSeq(s, 1, b)[j] = s[j] /\ j \in DOMAIN s
    OBVIOUS
  <2> QED
    BY <1>2, <2>1, <2>2
<1>4. h[i] \in Messages /\ h[i].reasoning = NoReasoning
  BY <1>3 DEF Shaped
<1> DEFINE nth == Cardinality({j \in 1..i : request[j].role = "assistant"})
<1>5. AttachReasoning(group, i) =
          IF h[i].role = "assistant" /\ nth \in DOMAIN group /\ h[i].reasoning = NoReasoning
          THEN [h[i] EXCEPT !.reasoning = group[nth].response.reasoning] ELSE h[i]
  BY <1>3 DEF AttachReasoning
<1>6. CASE h[i].role # "assistant"
  BY <1>5, <1>6 DEF Shown
<1>7. CASE h[i].role = "assistant"
  <2>1. PICK j \in Nat : i = AnswerAt(k, j)
    BY <1>3, <1>7 DEF Shaped
  <2>2. {q \in 1..i : request[q].role = "assistant"} =
            {q \in 1..AnswerAt(k, j) : \E r \in Nat : q = AnswerAt(k, r)}
    <3>1. ASSUME NEW q \in 1..i
          PROVE  request[q].role = "assistant" <=> \E r \in Nat : q = AnswerAt(k, r)
      <4>1. q \in 1..(p - 1)
        BY <1>1
      <4>2. request[q] = h[q] /\ q \in DOMAIN h
        BY <1>3, <4>1
      <4> QED
        BY <4>2 DEF Shaped
    <3> QED
      BY <2>1, <3>1
  <2>3. nth = j + 1
    BY <2>2, AnswersCounted
  <2>4. j + 1 \in DOMAIN group
    <3> PICK m : m = PromptLen[k]
      OBVIOUS
    <3>1. m + 2 * j + 1 <= m + 2 * (n - 1) + 1 - 1
      BY <1>1, <2>1 DEF AnswerAt
    <3>2. m \in Nat
      BY <1>1
    <3>3. j + 1 <= n
      BY <3>1, <3>2
    <3> QED
      BY <3>3
  <2>5. group[j + 1] = Pair(a, k, i)
    <3>1. j + 1 - 1 = j
      OBVIOUS
    <3>2. group[j + 1] = Pair(a, k, AnswerAt(k, j + 1 - 1))
      BY <2>4
    <3> QED
      BY <2>1, <3>1, <3>2
  <2>6. group[j + 1].response.reasoning = h[i].content
    <3>1. Pair(a, k, i).response = [h[i] EXCEPT !.reasoning = h[i].content]
      BY DEF Pair
    <3>2. [h[i] EXCEPT !.reasoning = h[i].content].reasoning = h[i].content
      BY <1>4 DEF Messages
    <3> QED
      BY <2>5, <3>1, <3>2
  <2> HIDE DEF nth
  <2>7. AttachReasoning(group, i) = [h[i] EXCEPT !.reasoning = h[i].content]
    BY <1>4, <1>5, <1>7, <2>3, <2>4, <2>6
  <2> QED
    BY <1>7, <2>7 DEF Shown
<1> QED
  BY <1>6, <1>7

Before(g, p) == [i \in 1..(p - 1) |-> g[i]]

(* A sequence is all before its last element, and that one. *)
LEMMA LastOne ==
  ASSUME NEW A, NEW p \in Nat \ {0}, NEW g \in [1..p -> A]
  PROVE  Before(g, p) \in Seq(A) /\ g = Append(Before(g, p), g[p])
<1> PICK front : front = Before(g, p)
  OBVIOUS
<1>1. /\ front \in [1..(p - 1) -> A] /\ p - 1 \in Nat
      /\ \A k \in 1..(p - 1) : front[k] = g[k]
  BY DEF Before
<1>2. front \in Seq(A) /\ Len(front) = p - 1
  BY <1>1
<1>3. g[p] \in A
  OBVIOUS
<1> PICK t : t = Append(front, g[p])
  OBVIOUS
<1>4. /\ t \in Seq(A) /\ Len(t) = p /\ t[p] = g[p] /\ \A k \in 1..(p - 1) : t[k] = front[k]
  BY <1>2, <1>3
<1>5. t \in [1..p -> A]
  <2>1. t \in [1..Len(t) -> A]
    BY <1>4, LenProperties
  <2> QED
    BY <1>4, <2>1
<1>6. ASSUME NEW i \in 1..p PROVE t[i] = g[i]
  <2>1. i = p \/ i \in 1..(p - 1)
    OBVIOUS
  <2> QED
    BY <1>1, <1>4, <2>1
<1>7. t = g
  BY <1>5, <1>6
<1> QED
  BY <1>2, <1>7

(* An answer is among the results whatever is left out. *)
LEMMA ResultsAppend ==
  ASSUME NEW front \in Seq(Messages), NEW x \in Messages, x.role = "assistant", NEW toolResults
  PROVE  WithResults(Append(front, x), toolResults) = Append(WithResults(front, toolResults), x)
<1> DEFINE I == {i \in DOMAIN front : toolResults \/ front[i].role # "tool"}
           J == {i \in DOMAIN Append(front, x) : toolResults \/ Append(front, x)[i].role # "tool"}
<1>1. /\ DOMAIN front = 1..Len(front) /\ Len(front) \in Nat
      /\ DOMAIN Append(front, x) = 1..(Len(front) + 1) /\ Append(front, x)[Len(front) + 1] = x
      /\ \A i \in 1..Len(front) : Append(front, x)[i] = front[i]
  BY AppendIs
<1>2. \A i \in 1..Len(front) : i \in I <=> i \in J
  BY <1>1
<1>3. Len(front) + 1 \in J
  BY <1>1
<1>4. /\ WithResults(front, toolResults) = Kept(front, I)
      /\ WithResults(Append(front, x), toolResults) = Kept(Append(front, x), J)
  BY DEF WithResults
<1> HIDE DEF I, J
<1>5. Kept(Append(front, x), J) = Append(Kept(front, I), x)
  BY <1>2, <1>3, KeptAppend
<1> QED
  BY <1>4, <1>5

(* What a group holds of its conversation, up to its last answer at p. *)
Told(a, k, group) ==
   LET h == Conversation(a, k)
       s == Answered(h)
       n == Len(group)
       p == AnswerAt(k, n - 1)
       request == group[n].request
   IN
       /\ h \in Seq(Messages) /\ p \in Nat \ {0} /\ p <= Len(h) /\ Len(h) \in Nat
       /\ h[p] \in Messages /\ h[p].role = "assistant" /\ h[p].reasoning = NoReasoning
       /\ Len(s) = p /\ s \in Seq(Messages) /\ \A i \in 1..p : s[i] = h[i]
       /\ n \in DOMAIN group /\ group[n] = Pair(a, k, p)
       /\ DOMAIN request = 1..(p - 1) /\ \A i \in 1..(p - 1) : request[i] = h[i]
       /\ \A i \in 1..(p - 1) : AttachReasoning(group, i) = Shown(h[i], TRUE)

(* A group that tells a conversation holds this of it. *)
LEMMA TellsIs ==
  ASSUME TypeOK, Shapes, NEW a \in Agents, NEW k \in 1..ConversationOf(a),
         NEW group \in Some(PairsOver(Messages)), Tells(a, k, group)
  PROVE  Told(a, k, group)
<1> PICK h : h = Conversation(a, k)
  OBVIOUS
<1> PICK s : s = Answered(h)
  OBVIOUS
<1> PICK n : n = Len(group)
  OBVIOUS
<1> PICK p : p = AnswerAt(k, n - 1)
  OBVIOUS
<1> PICK request : request = group[n].request
  OBVIOUS
<1>1. h \in Seq(Messages) /\ Shaped(h, k) /\ k \in DOMAIN PromptLen
      /\ PromptLen[k] \in Nat \ {0} /\ Len(h) \in Nat /\ DOMAIN h = 1..Len(h)
  BY ConversationShape, ConversationType, Numbers
<1>2. n \in Nat \ {0} /\ DOMAIN group = 1..n
  BY DEF Some
<1>3. /\ p \in Nat \ {0} /\ p <= Len(h) /\ Len(h) <= p + 1
      /\ \A j \in DOMAIN group : group[j] = Pair(a, k, AnswerAt(k, j - 1))
  <2>1. /\ Len(h) <= AnswerAt(k, n) - 1 /\ p <= Len(h)
        /\ \A j \in DOMAIN group : group[j] = Pair(a, k, AnswerAt(k, j - 1))
    BY DEF Tells
  <2>2. p \in Nat \ {0} /\ AnswerAt(k, n) = p + 2
    BY <1>1, <1>2 DEF AnswerAt
  <2> QED
    BY <1>1, <2>1, <2>2
<1>4. h[p] \in Messages /\ h[p].role = "assistant" /\ h[p].reasoning = NoReasoning
  <2>1. p \in DOMAIN h /\ n - 1 \in Nat
    BY <1>1, <1>2, <1>3
  <2>2. h[p].role = "assistant" /\ h[p].reasoning = NoReasoning
    BY <1>1, <2>1 DEF Shaped
  <2> QED
    BY <1>1, <2>1, <2>2
<1>5. UpToAnswer(h) = p
  <2> PICK u : u = UpToAnswer(h)
    OBVIOUS
  <2>1. u \in 0..Len(h) /\ (u > 0 => h[u].role = "assistant") /\ p <= u
    BY <1>1, <1>3, <1>4, LastAnswer
  <2>2. ASSUME u = p + 1 PROVE FALSE
    <3>1. u \in DOMAIN h /\ h[u].role = "assistant"
      BY <1>1, <1>3, <2>1, <2>2
    <3>2. PICK j \in Nat : u = AnswerAt(k, j)
      BY <1>1, <3>1 DEF Shaped
    <3>3. n - 1 \in Nat
      BY <1>2
    <3> QED
      BY <1>1, <2>2, <3>2, <3>3, AnswersApart
  <2> QED
    BY <1>1, <1>3, <2>1, <2>2
<1>6. Len(s) = p /\ s \in Seq(Messages) /\ \A i \in 1..p : s[i] = h[i]
  BY <1>1, <1>5, AnsweredIs
<1>7. n \in DOMAIN group /\ group[n] = Pair(a, k, p)
  <2>1. n \in DOMAIN group
    BY <1>2
  <2> QED
    BY <1>3, <2>1
<1>8. DOMAIN request = 1..(p - 1) /\ \A i \in 1..(p - 1) : request[i] = h[i]
  <2>1. request = SubSeq(h, 1, p - 1)
    BY <1>7, RequestIs
  <2>2. p - 1 \in 0..Len(h)
    BY <1>1, <1>3
  <2>3. \A t \in Seq(Messages) : \A b \in 0..Len(t) :
            DOMAIN SubSeq(t, 1, b) = 1..b /\ \A j \in 1..b : SubSeq(t, 1, b)[j] = t[j]
    OBVIOUS
  <2> QED
    BY <1>1, <2>1, <2>2, <2>3
<1>9. ASSUME NEW i \in 1..(p - 1) PROVE AttachReasoning(group, i) = Shown(h[i], TRUE)
  <2>1. /\ Conversation(a, k) \in Seq(Messages) /\ Shaped(Conversation(a, k), k)
        /\ k \in DOMAIN PromptLen
    BY <1>1
  <2>2. Len(group) \in Nat \ {0} /\ DOMAIN group = 1..Len(group)
    BY <1>2
  <2>3. AnswerAt(k, Len(group) - 1) <= Len(Conversation(a, k))
        /\ i \in 1..(AnswerAt(k, Len(group) - 1) - 1)
    BY <1>3
  <2>4. \A j \in DOMAIN group : group[j] = Pair(a, k, AnswerAt(k, j - 1))
    BY <1>3
  <2>5. AttachReasoning(group, i) = Shown(Conversation(a, k)[i], TRUE)
    BY <2>1, <2>2, <2>3, <2>4, AttachIs
  <2> QED
    BY Zenon, <2>5
<1> QED
  BY Zenon, <1>1, <1>3, <1>4, <1>6, <1>7, <1>8, <1>9 DEF Told

(* A record of a group is what the agent saw of the conversation. *)
LEMMA RecordOf ==
  ASSUME TypeOK, Shapes, NEW a \in Agents, NEW k \in 1..ConversationOf(a),
         NEW group \in Some(PairsOver(Messages)), Tells(a, k, group),
         NEW toolResults \in BOOLEAN, NEW reasoning \in BOOLEAN,
         NEW s, s = Answered(Conversation(a, k))
  PROVE  ReconstructConversation(group, toolResults, reasoning) =
             WithResults([i \in DOMAIN s |-> Shown(s[i], reasoning)], toolResults)
<1> PICK h : h = Conversation(a, k)
  OBVIOUS
<1> PICK n : n = Len(group)
  OBVIOUS
<1> PICK p : p = AnswerAt(k, n - 1)
  OBVIOUS
<1> PICK request : request = group[n].request
  OBVIOUS
<1> PICK final : final = group[n].response
  OBVIOUS
<1>1. /\ h \in Seq(Messages) /\ p \in Nat \ {0} /\ p <= Len(h) /\ Len(h) \in Nat
      /\ h[p] \in Messages /\ h[p].role = "assistant" /\ h[p].reasoning = NoReasoning
      /\ Len(s) = p /\ s \in Seq(Messages) /\ \A i \in 1..p : s[i] = h[i]
      /\ n \in DOMAIN group /\ group[n] = Pair(a, k, p)
      /\ DOMAIN request = 1..(p - 1) /\ \A i \in 1..(p - 1) : request[i] = h[i]
      /\ \A i \in 1..(p - 1) : AttachReasoning(group, i) = Shown(h[i], TRUE)
  <2>1. s = Answered(h)
    OBVIOUS
  <2>2. Told(a, k, group)
    BY TellsIs
  <2> QED
    BY Zenon, <2>1, <2>2 DEF Told
<1>2. DOMAIN s = 1..p /\ p \in 1..p /\ \A i \in 1..p : h[i] \in Messages
  BY <1>1
<1>3. PICK full \in [1..p -> Messages] : \A i \in 1..p : full[i] = Shown(h[i], reasoning)
  <2> DEFINE f == [i \in 1..p |-> Shown(h[i], reasoning)]
  <2>1. f \in [1..p -> Messages] /\ \A i \in 1..p : f[i] = Shown(h[i], reasoning)
    BY <1>2, ShownType
  <2> QED
    BY <2>1
<1> PICK front : front = Before(full, p)
  OBVIOUS
<1> PICK x : x = full[p]
  OBVIOUS
<1>4. full = Append(front, x) /\ front \in Seq(Messages)
  <2>1. Before(full, p) \in Seq(Messages) /\ full = Append(Before(full, p), full[p])
    BY <1>1, LastOne
  <2> QED
    BY Zenon, <2>1
<1>5. x = Shown(h[p], reasoning) /\ x \in Messages /\ x.role = "assistant"
  <2>1. full[p] = Shown(h[p], reasoning)
    BY <1>2, <1>3
  <2>2. Shown(h[p], reasoning) \in Messages /\ Shown(h[p], reasoning).role = "assistant"
    BY <1>1, ShownType
  <2> QED
    BY Zenon, <2>1, <2>2
<1>6. (IF reasoning THEN final ELSE [final EXCEPT !.reasoning = NoReasoning]) = x
  <2>1. Pair(a, k, p).response = [h[p] EXCEPT !.reasoning = h[p].content]
    BY DEF Pair
  <2>2. final = [h[p] EXCEPT !.reasoning = h[p].content]
    BY <1>1, <2>1
  <2>3. [final EXCEPT !.reasoning = NoReasoning] = h[p]
    BY <1>1, <2>2 DEF Messages
  <2>4. x = IF h[p].role = "assistant" /\ reasoning
            THEN [h[p] EXCEPT !.reasoning = h[p].content] ELSE h[p]
    BY Zenon, <1>5 DEF Shown
  <2> QED
    BY Zenon, <1>1, <2>2, <2>3, <2>4
<1> DEFINE shown == [i \in DOMAIN request |->
                        IF reasoning THEN AttachReasoning(group, i) ELSE request[i]]
<1>7. shown = front
  <2>1. ASSUME NEW i \in 1..(p - 1)
        PROVE  (IF reasoning THEN AttachReasoning(group, i) ELSE request[i]) = full[i]
    <3>1. AttachReasoning(group, i) = Shown(h[i], TRUE)
      BY Zenon, <1>1
    <3>2. request[i] = h[i]
      BY Zenon, <1>1
    <3>3. full[i] = Shown(h[i], reasoning)
      <4>1. p \in Nat \ {0}
        BY Zenon, <1>1
      <4>2. i \in 1..p
        BY <4>1
      <4> QED
        BY Zenon, <1>3, <4>2
    <3>4. CASE reasoning
      <4>1. reasoning = TRUE
        BY <3>4
      <4> QED
        BY Zenon, <3>1, <3>3, <3>4, <4>1
    <3>5. CASE ~reasoning
      <4>1. Shown(h[i], reasoning) = h[i]
        BY Zenon, <3>5 DEF Shown
      <4> QED
        BY Zenon, <3>2, <3>3, <3>5, <4>1
    <3> QED
      BY Zenon, <3>4, <3>5
  <2>2. front = [i \in 1..(p - 1) |-> full[i]]
    BY Zenon DEF Before
  <2>3. DOMAIN request = 1..(p - 1)
    BY <1>1
  <2> QED
    BY <2>1, <2>2, <2>3
<1>8. [i \in DOMAIN s |-> Shown(s[i], reasoning)] = full
  BY <1>1, <1>2, <1>3
<1>9. ReconstructConversation(group, toolResults, reasoning) =
          Append(WithResults(shown, toolResults),
                 IF reasoning THEN final ELSE [final EXCEPT !.reasoning = NoReasoning])
  BY DEF ReconstructConversation
<1>10. WithResults(Append(front, x), toolResults) = Append(WithResults(front, toolResults), x)
  BY Zenon, <1>4, <1>5, ResultsAppend
<1> HIDE DEF shown
<1> QED
  BY Zenon, <1>4, <1>6, <1>7, <1>8, <1>9, <1>10

(* The beginning of a sequence. *)
LEMMA SubSeqIs ==
  ASSUME NEW A, NEW s \in Seq(A), NEW b \in 0..Len(s)
  PROVE  /\ DOMAIN SubSeq(s, 1, b) = 1..b /\ \A k \in 1..b : SubSeq(s, 1, b)[k] = s[k]
         /\ SubSeq(s, 1, b) = <<>> <=> b = 0
OBVIOUS

(* The records of a task are all the agent saw of its conversations. *)
LEMMA RecordsAre ==
  ASSUME TypeOK, Filed, Shapes, Plain, ~Running, "thought" \notin faults,
         NEW a \in Agents, GroupedFor(a), NEW toolResults \in BOOLEAN, NEW reasoning \in BOOLEAN
  PROVE  Exported(a, toolResults, reasoning) = Wanted(a, toolResults, reasoning)
<1> PICK seen : seen = Seen(a)
  OBVIOUS
<1> PICK groups : groups = GroupsOf(a)
  OBVIOUS
<1> PICK b : b = Len(groups)
  OBVIOUS
<1>1. /\ groups \in Seq(Some(PairsOver(Messages))) /\ b \in Nat /\ DOMAIN groups = 1..b
      /\ groups = <<>> <=> b = 0
  BY GroupsAre
<1>2. /\ DOMAIN seen = 1..b /\ (seen = <<>> <=> b = 0)
      /\ \A k \in 1..b : seen[k] = Answered(Conversation(a, k)) /\ k \in 1..ConversationOf(a)
  <2>1. b \in 0..ConversationOf(a) /\ seen = SubSeq(SeenOf(a), 1, b)
    BY SeenGrouped
  <2>2. /\ SeenOf(a) \in Seq(Seq(Messages)) /\ DOMAIN SeenOf(a) = 1..ConversationOf(a)
        /\ \A c \in 1..ConversationOf(a) : SeenOf(a)[c] = Answered(Conversation(a, c))
    BY SeenType
  <2>3. ConversationOf(a) \in Nat
    BY CountType
  <2>4. b \in 0..Len(SeenOf(a)) /\ \A k \in 1..b : k \in 1..ConversationOf(a)
    BY <2>1, <2>2, <2>3
  <2> HIDE DEF SeenOf
  <2>5. /\ DOMAIN SubSeq(SeenOf(a), 1, b) = 1..b
        /\ \A k \in 1..b : SubSeq(SeenOf(a), 1, b)[k] = SeenOf(a)[k]
        /\ SubSeq(SeenOf(a), 1, b) = <<>> <=> b = 0
    BY <2>2, <2>4, SubSeqIs
  <2> QED
    BY Zenon, <2>1, <2>2, <2>4, <2>5
<1>3. Exported(a, toolResults, reasoning) =
          IF groups = <<>> THEN <<<<TaskPrompt(a)>>>>
          ELSE [k \in DOMAIN groups |->
                   ReconstructConversation(groups[k], toolResults, reasoning)]
  <2>1. files[a] = TraceOf(a)
    BY DEF Filed
  <2>2. ParseTraceEvents(files[a], reasoning) = ParsedOf(a)
    <3>1. TraceOf(a) \in Seq(EventsOver(Telling))
      BY TraceOfType DEF Plain
    <3>2. \A m \in Telling : Usable(m, TRUE) <=> Usable(m, FALSE)
      BY DEF Telling
    <3> QED
      BY <2>1, <3>1, <3>2, ParseSame DEF ParsedOf
  <2>3. GroupIntoConversations(ParseTraceEvents(files[a], reasoning).pairs) = groups
    BY Zenon, <2>2 DEF GroupsOf
  <2> QED
    BY Zenon, <2>3 DEF Exported, BuildConversation
<1>4. Wanted(a, toolResults, reasoning) =
          IF seen = <<>> THEN <<<<TaskPrompt(a)>>>>
          ELSE [k \in DOMAIN seen |->
                   WithResults([i \in DOMAIN seen[k] |-> Shown(seen[k][i], reasoning)], toolResults)]
  BY Zenon DEF Wanted
<1>5. ASSUME NEW k \in 1..b
      PROVE  ReconstructConversation(groups[k], toolResults, reasoning) =
                 WithResults([i \in DOMAIN seen[k] |-> Shown(seen[k][i], reasoning)], toolResults)
  <2>1. k \in 1..ConversationOf(a) /\ seen[k] = Answered(Conversation(a, k))
    BY <1>2
  <2>2. groups[k] \in Some(PairsOver(Messages))
    BY <1>1
  <2>3. Tells(a, k, groups[k])
    BY <1>1 DEF GroupedFor
  <2>4. \A g \in Some(PairsOver(Messages)), c \in 1..ConversationOf(a) : Tells(a, c, g) =>
            \A s : s = Answered(Conversation(a, c)) =>
                ReconstructConversation(g, toolResults, reasoning) =
                    WithResults([i \in DOMAIN s |-> Shown(s[i], reasoning)], toolResults)
    <3> SUFFICES ASSUME NEW g \in Some(PairsOver(Messages)), NEW c \in 1..ConversationOf(a),
                        Tells(a, c, g), NEW s, s = Answered(Conversation(a, c))
                 PROVE  ReconstructConversation(g, toolResults, reasoning) =
                            WithResults([i \in DOMAIN s |-> Shown(s[i], reasoning)], toolResults)
      BY Zenon
    <3> QED
      BY RecordOf
  <2> QED
    BY Zenon, <2>1, <2>2, <2>3, <2>4
<1>6. CASE b = 0
  BY Zenon, <1>1, <1>2, <1>3, <1>4, <1>6
<1>7. CASE b # 0
  <2> DEFINE record(k) == ReconstructConversation(groups[k], toolResults, reasoning)
             wanted(k) == WithResults([i \in DOMAIN seen[k] |-> Shown(seen[k][i], reasoning)],
                                      toolResults)
  <2>1. groups # <<>> /\ DOMAIN groups = 1..b /\ seen # <<>> /\ DOMAIN seen = 1..b
    BY Zenon, <1>1, <1>2, <1>7
  <2>2. Exported(a, toolResults, reasoning) = [k \in 1..b |-> record(k)]
    BY Zenon, <1>3, <2>1
  <2>3. Wanted(a, toolResults, reasoning) = [k \in 1..b |-> wanted(k)]
    BY Zenon, <1>4, <2>1
  <2>4. \A k \in 1..b : record(k) = wanted(k)
    BY Zenon, <1>5
  <2> HIDE DEF record, wanted
  <2> QED
    BY Zenon, <2>2, <2>3, <2>4
<1> QED
  BY Zenon, <1>6, <1>7

(* So the export is faithful. *)
LEMMA FaithfulIs == TypeOK /\ Filed /\ Shapes /\ Plain /\ Grouped => ExportIsFaithful
<1>1. SUFFICES ASSUME TypeOK, Filed, Shapes, Plain, Grouped, ~Running,
                      faults \subseteq {"error", "empty"}, Separable,
                      NEW a \in Agents, NEW toolResults \in BOOLEAN, NEW reasoning \in BOOLEAN
               PROVE  Exported(a, toolResults, reasoning) = Wanted(a, toolResults, reasoning)
  BY Zenon DEF ExportIsFaithful
<1>2. GroupedFor(a)
  BY Zenon, <1>1 DEF Grouped
<1>3. "thought" \notin faults
  BY <1>1
<1> QED
  BY Zenon, <1>1, <1>2, <1>3, RecordsAre

-----------------------------------------------------------------------------
(* The invariant: with the types, what is true of the messages of a task,  *)
(* of its file, of the conversations, of answers that are only reasoning,  *)
(* of the request that is open, and of what the exporter makes of the      *)
(* trace so far.                                                           *)
TraceInv == /\ TypeOK /\ Separate /\ Filed /\ Shapes /\ Plain
            /\ Opens /\ AllGiven /\ Grouped

(* The invariant holds initially. *)
LEMMA TraceInit == Init => TraceInv
<1>1. SUFFICES ASSUME Init PROVE TraceInv
  OBVIOUS
<1>2. TypeOK
  BY <1>1, InitType
<1>3. /\ trace = <<>> /\ files = <<>> /\ 1 \in DOMAIN PromptLen /\ PromptLen[1] \in Nat \ {0}
      /\ \A a \in Agents : /\ history[a] = Prompt(a, 1) /\ finished[a] = <<>>
                           /\ late[a] = {} /\ pc[a] = "ready"
  BY <1>1, Numbers DEF Init
<1>4. \A a \in Agents : ConversationOf(a) = 1
  BY <1>3 DEF ConversationOf
<1>5. \A a \in Agents : TraceOf(a) = <<>>
  BY <1>3, KeptEmpty DEF TraceOf
<1>6. \A a \in Agents : ParsedOf(a) = NoEvents /\ ParsedOf(a).pairs = <<>> /\ GroupsOf(a) = <<>>
  <2>1. NoEvents.pairs = <<>>
    BY DEF NoEvents
  <2> QED
    BY Zenon, <1>5, <2>1, ParseEmpty, GroupEmpty DEF ParsedOf, GroupsOf
<1>7. Separate
  <2>1. \A a \in Agents : Prompt(a, 1) \in Seq(Mine(a))
    BY <1>3, MinePrompt
  <2> QED
    BY <1>3, <2>1 DEF Separate
<1>8. Filed
  BY <1>3 DEF Filed, Running
<1>13. Plain
  BY <1>3 DEF Plain
<1>9. Shapes
  <2>1. ASSUME NEW a \in Agents PROVE Shape(a)
    <3>1. Shaped(Prompt(a, 1), 1) /\ Asking(Prompt(a, 1), 1)
      BY <1>3, ShapedPrompt
    <3>2. pc[a] # "answered" /\ 1 <= Len(PromptLen) /\ DOMAIN finished[a] = {}
      BY <1>3, Numbers
    <3> QED
      BY <1>3, <1>4, <3>1, <3>2 DEF Shape
  <2> QED
    BY <2>1 DEF Shapes
<1>10. Opens
  BY <1>3 DEF Opens
<1>11. AllGiven
  BY <1>6 DEF AllGiven
<1>12. Grouped
  <2>1. ASSUME NEW a \in Agents PROVE GroupedFor(a)
    <3>1. Len(history[a]) = PromptLen[1]
      BY <1>3, PromptType
    <3>2. ~HasAnswer(a) /\ Len(finished[a]) = 0
      BY <1>3, <1>4, <3>1 DEF HasAnswer
    <3> QED
      BY <1>6, <3>2 DEF GroupedFor
  <2> QED
    BY <2>1 DEF Grouped
<1> QED
  BY <1>2, <1>7, <1>8, <1>9, <1>10, <1>11, <1>12, <1>13 DEF TraceInv

(* Every step keeps the invariant. *)
LEMMA TraceStep == TraceInv /\ [Next]_vars => TraceInv'
<1>1. SUFFICES ASSUME TraceInv, [Next]_vars PROVE TraceInv'
  OBVIOUS
<1>2. TypeOK /\ Separate /\ Filed /\ Shapes /\ Plain /\ Opens /\ AllGiven /\ Grouped
  BY <1>1 DEF TraceInv
<1>3. TypeOK'
  BY <1>1, <1>2, TypeStep
<1>4. Separate' /\ Filed' /\ Shapes' /\ Plain' /\ Opens'
  BY <1>1, <1>2, SeparateStep, FiledStep, ShapesStep, PlainStep, OpensStep
<1>5. AllGiven' /\ Grouped'
  BY <1>1, <1>2, <1>3, AllGivenStep, GroupedStep
<1> QED
  BY <1>3, <1>4, <1>5 DEF TraceInv

(* The invariant holds in every state of every behavior, for any number of *)
(* agents, any prompts, any number of answers and attempts (app.py:44-105,    *)
(* trace_pipeline.py:32-58, openai_messages.py:128-236).                      *)
THEOREM Invariance == Spec => []TraceInv
BY TraceInit, TraceStep, PTL DEF Spec

(* The variables of the agents, the proxy's trace and the files keep their *)
(* types (app.py:44-105, trace_pipeline.py:32-58).                            *)
THEOREM TypeCorrect == Spec => []TypeOK
<1>1. TraceInv => TypeOK
  BY DEF TraceInv
<1> QED
  BY <1>1, Invariance, PTL

(* However the calls of the tasks interleave in the one trace, and whether *)
(* they fail, are cut, are given up or are answered late, nothing of one   *)
(* task is exported for another (trace_pipeline.py:32-58).                    *)
THEOREM TasksSeparate == Spec => []TasksDoNotMix
<1>1. TraceInv => TasksDoNotMix
  BY NotMixed DEF TraceInv
<1> QED
  BY <1>1, Invariance, PTL

(* If the calls of a task follow each other, then whatever responses the   *)
(* trace is missing and whatever answers are empty, a record exported      *)
(* without reasoning is the beginning of a conversation that its agent had *)
(* (openai_messages.py:128-162).                                           *)
THEOREM ExportSeen == Spec => []ExportWasSeen
<1>1. TraceInv => ExportWasSeen
  BY SeenWhole DEF TraceInv
<1> QED
  BY <1>1, Invariance, PTL

(* If no response is lost, empty answers are asked for again and have no   *)
(* reasoning, and no conversation begins with more messages than the one   *)
(* before, the export of a task is the conversations of its   *)
(* agent: all of them, in order, up to the last answer of each, with the   *)
(* results of tools and the reasoning that was asked for                   *)
(* (openai_messages.py:128-236).                                              *)
THEOREM ExportFaithful == Spec => []ExportIsFaithful
<1>1. TraceInv => ExportIsFaithful
  BY FaithfulIs DEF TraceInv
<1> QED
  BY <1>1, Invariance, PTL
=============================================================================
