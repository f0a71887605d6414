------------------------ MODULE TelemetryQueue_proofs ------------------------
(***************************************************************************)
(* The safety properties of TelemetryQueue, for any events, tabs, attempts *)
(* and pages, over a storage that may reject calls.                        *)
(***************************************************************************)
EXTENDS TelemetryQueue, SequenceTheorems, FiniteSetTheorems, TLAPS

\* The items of a queue or of a copy, and the events they are of.
Items(s) == {s[i] : i \in DOMAIN s}
Holds(s, e) == \E x \in Items(s) : x.event = e

\* No event twice.
Distinct(s) == \A i, j \in DOMAIN s : s[i].event = s[j].event => i = j

\* A flush at "items" has an item left; at "write" it has none. A tab that flushes is open.
Shape ==
  /\ TypeOK
  /\ \A t \in Tabs : call[t].at # "over" /\ (call[t].at # "idle" => t \in open)
  /\ \A c \in Calls : /\ call[c].at = "items" => call[c].left # <<>>
                      /\ call[c].at = "write" => call[c].left = <<>>

-----------------------------------------------------------------------------
(* Sequences.                                                              *)

LEMMA ItemsAppend ==
  ASSUME NEW s \in Seq(Item), NEW x \in Item
  PROVE  /\ Append(s, x) \in Seq(Item) /\ Items(Append(s, x)) = Items(s) \cup {x}
         /\ Distinct(s) /\ ~ Holds(s, x.event) => Distinct(Append(s, x))
<1>1. /\ Append(s, x) \in Seq(Item) /\ Len(Append(s, x)) = Len(s) + 1
      /\ Append(s, x)[Len(s) + 1] = x /\ \A i \in 1 .. Len(s) : Append(s, x)[i] = s[i]
      /\ DOMAIN s = 1 .. Len(s) /\ DOMAIN Append(s, x) = 1 .. Len(s) + 1 /\ Len(s) \in Nat
  OBVIOUS
<1>2. Items(Append(s, x)) = Items(s) \cup {x}
  BY <1>1 DEF Items
<1>3. Distinct(s) /\ ~ Holds(s, x.event) => Distinct(Append(s, x))
  BY <1>1 DEF Distinct, Holds, Items
<1> QED BY <1>1, <1>2, <1>3

LEMMA ItemsTail ==
  ASSUME NEW s \in Seq(Item), s # <<>>
  PROVE  /\ Head(s) \in Item /\ Tail(s) \in Seq(Item) /\ Items(s) = {Head(s)} \cup Items(Tail(s))
         /\ Len(s) = 1 <=> Tail(s) = <<>>
         /\ Distinct(s) => Distinct(Tail(s)) /\ ~ Holds(Tail(s), Head(s).event)
<1>1. /\ Len(s) \in Nat \ {0} /\ DOMAIN s = 1 .. Len(s) /\ Head(s) = s[1] /\ Head(s) \in Item
      /\ Tail(s) \in Seq(Item) /\ Len(Tail(s)) = Len(s) - 1 /\ DOMAIN Tail(s) = 1 .. Len(s) - 1
      /\ \A i \in 1 .. Len(s) - 1 : Tail(s)[i] = s[i + 1]
  OBVIOUS
<1>2. Items(s) = {Head(s)} \cup Items(Tail(s))
  <2>1. \A i \in 1 .. Len(s) : i = 1 \/ (i - 1 \in 1 .. Len(s) - 1 /\ s[i] = Tail(s)[i - 1])
    BY <1>1
  <2>2. ASSUME NEW i \in 1 .. Len(s) PROVE s[i] \in {Head(s)} \cup Items(Tail(s))
    BY <1>1, <2>1 DEF Items
  <2>3. Head(s) \in Items(s)
    BY <1>1 DEF Items
  <2>4. \A i \in 1 .. Len(s) - 1 : i + 1 \in 1 .. Len(s)
    BY <1>1
  <2>5. \A x \in Items(Tail(s)) : x \in Items(s)
    BY <1>1, <2>4 DEF Items
  <2> QED BY <1>1, <2>2, <2>3, <2>5 DEF Items
<1>3. Distinct(s) => Distinct(Tail(s)) /\ ~ Holds(Tail(s), Head(s).event)
  BY <1>1 DEF Distinct, Holds, Items
<1>4. Len(s) = 1 <=> Tail(s) = <<>>
  <2>1. Len(Tail(s)) = 0 <=> Tail(s) = <<>>
    BY <1>1, EmptySeq
  <2> QED BY <1>1, <2>1
<1> QED BY <1>1, <1>2, <1>3, <1>4

\* An item that failed comes back with one more attempt, unless it was the last.
LEMMA RetryIs ==
  ASSUME NEW item \in Item
  PROVE  \/ Retry(item) = <<>> /\ item.attempts + 1 >= MaxAttempts
         \/ \E x \in Item : /\ Retry(item) = <<x>> /\ x.event = item.event
                            /\ x.attempts = item.attempts + 1
<1>1. CASE GivesUp(item.attempts + 1)
  BY <1>1 DEF Retry, GivesUp
<1>2. CASE ~ GivesUp(item.attempts + 1)
  <2> DEFINE x == [item EXCEPT !.attempts = @ + 1]
  <2>1. x \in Item /\ x.event = item.event /\ x.attempts = item.attempts + 1
    BY <1>2, QueueAssumption DEF Item, GivesUp
  <2> QED BY <1>2, <2>1 DEF Retry
<1> QED BY <1>1, <1>2

-----------------------------------------------------------------------------
(* What each action does to the call that takes it.                        *)

Takes(c, y) == c \in Calls /\ y \in Call /\ call' = [call EXCEPT ![c] = y]

Blank(y) == y.left = <<>> /\ y.kept = <<>>

\* The locals a call may take.
LEMMA LocalsAre ==
  ASSUME NEW step \in Step, NEW q \in Seq(Item), NEW n \in Nat, NEW y,
         y = [at |-> step, left |-> q, kept |-> <<>>, sent |-> n]
  PROVE  y \in Call /\ y.at = step /\ y.left = q /\ y.kept = <<>> /\ y.sent = n
<1>1. PICK none \in Seq(Item) : none = <<>>
  BY EmptySeq
<1>2. y = [at |-> step, left |-> q, kept |-> none, sent |-> n]
  BY <1>1
<1> QED BY <1>1, <1>2 DEF Call

LEMMA AtIs ==
  ASSUME NEW step \in Step
  PROVE  At(step) \in Call /\ At(step).at = step /\ Blank(At(step)) /\ At(step).sent = 0
<1>1. PICK none \in Seq(Item), zero \in Nat : none = <<>> /\ zero = 0
  BY EmptySeq
<1>2. PICK y : y = At(step)
  OBVIOUS
<1>3. y = [at |-> step, left |-> none, kept |-> <<>>, sent |-> zero]
  BY <1>1, <1>2 DEF At
<1>4. y \in Call /\ y.at = step /\ y.left = none /\ y.kept = <<>> /\ y.sent = zero
  BY <1>3, LocalsAre
<1> QED BY <1>1, <1>2, <1>4 DEF Blank

LEMMA CopyIs ==
  ASSUME NEW step \in Step, NEW q \in Seq(Item), NEW y, y = [At(step) EXCEPT !.left = q]
  PROVE  y \in Call /\ y.at = step /\ y.left = q /\ y.kept = <<>> /\ y.sent = 0
<1>1. PICK zero \in Nat : zero = 0
  OBVIOUS
<1>2. y = [at |-> step, left |-> q, kept |-> <<>>, sent |-> zero]
  BY <1>1 DEF At
<1>3. y \in Call /\ y.at = step /\ y.left = q /\ y.kept = <<>> /\ y.sent = zero
  BY <1>2, LocalsAre DEF At
<1> QED BY <1>1, <1>3

LEMMA SumIs ==
  ASSUME NEW step \in Step, NEW n \in Nat, NEW y, y = [At(step) EXCEPT !.sent = n]
  PROVE  y \in Call /\ y.at = step /\ Blank(y) /\ y.sent = n
<1>1. PICK none \in Seq(Item) : none = <<>>
  BY EmptySeq
<1>2. y = [at |-> step, left |-> none, kept |-> <<>>, sent |-> n]
  BY <1>1 DEF At
<1>3. y \in Call /\ y.at = step /\ y.left = none /\ y.kept = <<>> /\ y.sent = n
  BY <1>2, LocalsAre DEF At
<1> QED BY <1>1, <1>3 DEF Blank

Finished(c, y) == /\ Blank(y) /\ y.sent = 0 /\ y.at \in {"idle", "over"}
                  /\ c \in Events => y.at = "over"
                  /\ c \in Tabs => y.at = "idle"

LEMMA DoneIs == ASSUME NEW c \in Calls PROVE Done(c) \in Call /\ Finished(c, Done(c))
<1>1. "idle" \in Step /\ "over" \in Step /\ <<>> \in Seq(Item) /\ 0 \in Nat
  BY EmptySeq DEF Step
<1>2. c \in Events => c \notin Tabs
  BY QueueAssumption
<1> QED BY <1>1, <1>2, AtIs DEF Done, Finished

LEMMA CallIs ==
  ASSUME Shape, NEW c \in Calls
  PROVE  /\ call[c] \in Call /\ call[c].left \in Seq(Item) /\ call[c].kept \in Seq(Item)
         /\ call[c].sent \in Nat
BY DEF Shape, TypeOK, Call

\* What a read of the queue gives.
LEMMA ReadsAre ==
  ASSUME Shape, NEW q \in Readable
  PROVE  q \in Seq(Item) /\ (q = queue \/ q = <<>>)
<1>1. queue \in Seq(Item) /\ <<>> \in Seq(Item)
  BY EmptySeq DEF Shape, TypeOK
<1> QED BY <1>1 DEF Readable

LEMMA BootIs ==
  ASSUME Shape, NEW t \in Tabs, Boot(t)
  PROVE  /\ ~ Running(t) /\ UNCHANGED <<queue, stats, serverVars, history>>
         /\ \E y : Takes(t, y) /\ y.at = "flush" /\ Blank(y) /\ y.sent = 0
<1>1. Takes(t, At("flush")) /\ At("flush").at = "flush" /\ Blank(At("flush")) /\ At("flush").sent = 0
  BY AtIs DEF Boot, Becomes, Takes, Calls, Step
<1> QED BY <1>1 DEF Boot, Shape, Running

LEMMA LeaveIs ==
  ASSUME Shape, NEW t \in Tabs, Leave(t)
  PROVE  /\ UNCHANGED <<queue, stats, serverVars, stored, raced>>
         /\ \E gone \in SUBSET Calls :
              /\ call' \in [Calls -> Call]
              /\ \A c \in gone : Running(c) /\ Finished(c, call'[c])
              /\ \A c \in Calls \ gone : call'[c] = call[c]
              /\ stale' = stale \ gone
              /\ disturbed' = (disturbed \/ \E c \in gone : call[c].at \in {"items", "write"})
<1> DEFINE gone == {c \in Calls : Running(c) /\ (c = t \/ (c \in Events /\ host[c] = t))}
<1>1. /\ call' = [c \in Calls |-> IF c \in gone THEN Done(c) ELSE call[c]]
      /\ stale' = stale \ gone
      /\ disturbed' = (disturbed \/ \E c \in gone : call[c].at \in {"items", "write"})
  BY DEF Leave
<1>2. \A c \in Calls : Done(c) \in Call /\ Finished(c, Done(c)) /\ call[c] \in Call
  BY DoneIs, CallIs
<1>3. call' \in [Calls -> Call]
  BY <1>1, <1>2
<1>4. \A c \in gone : c \in Calls /\ Running(c) /\ Finished(c, call'[c])
  BY <1>1, <1>2
<1>5. \A c \in Calls \ gone : call'[c] = call[c]
  BY <1>1
<1>6. gone \in SUBSET Calls
  OBVIOUS
<1> HIDE DEF gone
<1> QED BY <1>1, <1>3, <1>4, <1>5, <1>6 DEF Leave

LEMMA EnqueueIs ==
  ASSUME Shape, NEW e \in Events, Enqueue(e)
  PROVE  /\ call[e].at = "idle" /\ UNCHANGED <<stats, serverVars, stored>>
         /\ \E q \in Seq(Item), y \in Call :
              /\ q = queue \/ q = <<>>
              /\ Reads(e, q) /\ Takes(e, y)
              /\ y.at = "push" /\ y.left = q /\ y.kept = <<>> /\ y.sent = 0
<1>1. PICK q \in Readable : Reads(e, q) /\ Becomes(e, [At("push") EXCEPT !.left = q])
  BY DEF Enqueue
<1> DEFINE y == [At("push") EXCEPT !.left = q]
<1>2. q \in Seq(Item) /\ (q = queue \/ q = <<>>) /\ "push" \in Step /\ 0 \in Nat
  BY ReadsAre DEF Step
<1>3. y \in Call /\ y.at = "push" /\ y.left = q /\ y.kept = <<>> /\ y.sent = 0
  BY <1>2, CopyIs DEF At
<1>4. Takes(e, y)
  BY <1>1, <1>3 DEF Becomes, Takes, Calls
<1> HIDE DEF y
<1> QED BY <1>1, <1>2, <1>3, <1>4 DEF Enqueue

LEMMA PushIs ==
  ASSUME Shape, NEW e \in Events, Push(e)
  PROVE  /\ call[e].at = "push" /\ UNCHANGED <<stats, serverVars, disturbed>>
         /\ \E y : Takes(e, y) /\ y.at = "flush" /\ Blank(y) /\ y.sent = 0
         /\ Fresh(e) \in Item /\ Fresh(e).event = e /\ Fresh(e).attempts = 0
         /\ \/ Writes(e, Append(call[e].left, Fresh(e))) /\ stored' = stored \cup {e}
            \/ WriteFails(e) /\ UNCHANGED stored
<1>1. Takes(e, At("flush")) /\ At("flush").at = "flush" /\ Blank(At("flush")) /\ At("flush").sent = 0
  BY AtIs DEF Push, Becomes, Takes, Calls, Step
<1>2. 0 \in 0 .. MaxAttempts - 1
  BY QueueAssumption
<1>3. Fresh(e) \in Item /\ Fresh(e).event = e /\ Fresh(e).attempts = 0
  BY <1>2 DEF Fresh, Item
<1> QED BY <1>1, <1>3 DEF Push

LEMMA FlushIs ==
  ASSUME Shape, NEW c \in Calls, Flush(c)
  PROVE  /\ call[c].at = "flush" /\ UNCHANGED <<stats, serverVars, stored>>
         /\ \/ /\ \E y : Takes(c, y) /\ Finished(c, y)
               /\ UNCHANGED <<queue, history>>
            \/ \E q \in Seq(Item), y \in Call :
                 /\ q = queue /\ q # <<>>
                 /\ Reads(c, q) /\ Takes(c, y)
                 /\ y.at = "items" /\ y.left = q /\ y.kept = <<>> /\ y.sent = 0
<1>1. PICK q \in Readable :
        \/ q = <<>> /\ Becomes(c, Done(c)) /\ UNCHANGED <<queue, history>>
        \/ q # <<>> /\ Reads(c, q) /\ Becomes(c, [At("items") EXCEPT !.left = q]) /\ UNCHANGED stored
  BY DEF Flush
<1> DEFINE y == [At("items") EXCEPT !.left = q]
<1>2. q \in Seq(Item) /\ (q = queue \/ q = <<>>) /\ "items" \in Step /\ 0 \in Nat
  BY ReadsAre DEF Step
<1>3. y \in Call /\ y.at = "items" /\ y.left = q /\ y.kept = <<>> /\ y.sent = 0
  BY <1>2, CopyIs DEF At
<1>4. CASE Becomes(c, Done(c)) /\ UNCHANGED <<queue, history>>
  BY <1>4, DoneIs DEF Becomes, Takes, Flush, history
<1>5. CASE q # <<>> /\ Reads(c, q) /\ Becomes(c, y) /\ UNCHANGED stored
  <2>1. Takes(c, y)
    BY <1>3, <1>5 DEF Becomes, Takes
  <2> HIDE DEF y
  <2> QED BY <1>2, <1>3, <1>5, <2>1 DEF Flush
<1> QED BY <1>1, <1>4, <1>5

\* An item handled. What comes back of it is kept.
LEMMA HandledIs ==
  ASSUME Shape, NEW c \in Calls, call[c].at = "items", NEW n \in Nat, NEW back,
         back = <<>> \/ \E x \in Item : back = <<x>>, Handled(c, back, n)
  PROVE  \E y : /\ Takes(c, y)
                /\ y.left = Tail(call[c].left) /\ y.sent = call[c].sent + n
                /\ y.at = IF y.left = <<>> THEN "write" ELSE "items"
                /\ back = <<>> => y.kept = call[c].kept
                /\ \A x \in Item : back = <<x>> => y.kept = Append(call[c].kept, x)
<1> DEFINE y == [at |-> IF Len(call[c].left) = 1 THEN "write" ELSE "items",
                 left |-> Tail(call[c].left), kept |-> call[c].kept \o back,
                 sent |-> call[c].sent + n]
<1>1. call[c].left # <<>>
  BY DEF Shape
<1>2. call[c].left \in Seq(Item) /\ call[c].kept \in Seq(Item) /\ call[c].sent \in Nat
  BY CallIs
<1>3. /\ Tail(call[c].left) \in Seq(Item)
      /\ Len(call[c].left) = 1 <=> Tail(call[c].left) = <<>>
  BY <1>1, <1>2, ItemsTail
<1>4. /\ back = <<>> => call[c].kept \o back = call[c].kept
      /\ \A x \in Item : back = <<x>> => /\ call[c].kept \o back = Append(call[c].kept, x)
                                         /\ call[c].kept \o back \in Seq(Item)
  <2>1. call[c].kept \o <<>> = call[c].kept
    BY <1>2, ConcatEmptySeq
  <2>2. \A x \in Item : /\ call[c].kept \o <<x>> = Append(call[c].kept, x)
                        /\ Append(call[c].kept, x) \in Seq(Item)
    BY <1>2, ItemsAppend, AppendIsConcat
  <2> QED BY <2>1, <2>2
<1>5. call[c].kept \o back \in Seq(Item)
  BY <1>2, <1>4
<1>6. y \in Call
  BY <1>2, <1>3, <1>5 DEF Call, Step
<1>7. Takes(c, y)
  BY <1>6 DEF Handled, Becomes, Takes
<1>8. /\ y.left = Tail(call[c].left) /\ y.sent = call[c].sent + n
      /\ y.kept = call[c].kept \o back
      /\ y.at = IF Len(call[c].left) = 1 THEN "write" ELSE "items"
  OBVIOUS
<1> HIDE DEF y
<1>9. y.at = IF y.left = <<>> THEN "write" ELSE "items"
  BY <1>3, <1>8
<1> QED BY <1>4, <1>7, <1>8, <1>9

LEMMA HeadIs ==
  ASSUME Shape, NEW c \in Calls, call[c].at = "items"
  PROVE  LET item == Head(call[c].left)
         IN  /\ item \in Item /\ item.event \in Events /\ item.attempts \in Nat
             /\ Items(call[c].left) = {item} \cup Items(Tail(call[c].left))
             /\ Distinct(call[c].left) => /\ Distinct(Tail(call[c].left))
                                          /\ ~ Holds(Tail(call[c].left), item.event)
<1>1. call[c].left \in Seq(Item) /\ call[c].left # <<>>
  BY CallIs DEF Shape
<1>2. Head(call[c].left) \in Item
  BY <1>1, ItemsTail
<1>3. Head(call[c].left).event \in Events /\ Head(call[c].left).attempts \in Nat
  BY <1>2, QueueAssumption DEF Item
<1> QED BY <1>1, <1>2, <1>3, ItemsTail

\* The items handled: not due, delivered, given up, to be retried.
LEMMA HandleIs ==
  ASSUME Shape, NEW c \in Calls, NotDue(c) \/ Delivered(c) \/ NotDelivered(c)
  PROVE  LET item == Head(call[c].left)
             tried == tries' = [tries EXCEPT ![item.event] = @ + 1]
             others == recorded' \in {recorded, recorded \cup {item.event}} /\ UNCHANGED told
         IN  /\ call[c].at = "items" /\ UNCHANGED <<queue, stats, history>>
             /\ \E y : /\ Takes(c, y) /\ y.left = Tail(call[c].left)
                       /\ y.at = IF y.left = <<>> THEN "write" ELSE "items"
                       /\ \/ /\ y.kept = Append(call[c].kept, item) /\ y.sent = call[c].sent
                             /\ UNCHANGED serverVars
                          \/ /\ y.kept = call[c].kept /\ y.sent = call[c].sent + 1
                             /\ tried /\ recorded' = recorded \cup {item.event} /\ told' = told + 1
                          \/ /\ y.kept = call[c].kept /\ y.sent = call[c].sent
                             /\ item.attempts + 1 >= MaxAttempts /\ tried /\ others
                          \/ \E x \in Item :
                               /\ y.kept = Append(call[c].kept, x) /\ y.sent = call[c].sent
                               /\ x.event = item.event /\ x.attempts = item.attempts + 1
                               /\ tried /\ others
<1> DEFINE item == Head(call[c].left)
           tried == tries' = [tries EXCEPT ![item.event] = @ + 1]
           others == recorded' \in {recorded, recorded \cup {item.event}} /\ UNCHANGED told
<1>1. call[c].at = "items" /\ UNCHANGED <<queue, stats, history>>
  BY DEF NotDue, Delivered, NotDelivered
<1>2. item \in Item /\ call[c].sent + 0 = call[c].sent
  BY <1>1, HeadIs, CallIs
<1>3. CASE NotDue(c)
  <2>1. Handled(c, <<item>>, 0) /\ UNCHANGED serverVars
    BY <1>3 DEF NotDue
  <2> HIDE DEF item
  <2> QED BY <1>1, <1>2, <2>1, HandledIs DEF item
<1>4. CASE Delivered(c)
  <2>1. Handled(c, <<>>, 1) /\ tried /\ recorded' = recorded \cup {item.event} /\ told' = told + 1
    BY <1>4 DEF Delivered
  <2> HIDE DEF item, tried
  <2> QED BY <1>1, <2>1, HandledIs DEF item, tried
<1>5. CASE NotDelivered(c)
  <2>1. Handled(c, Retry(item), 0) /\ tried /\ others
    BY <1>5 DEF NotDelivered
  <2>2. CASE Retry(item) = <<>> /\ item.attempts + 1 >= MaxAttempts
    <3> HIDE DEF item, tried, others
    <3> QED BY <1>1, <1>2, <2>1, <2>2, HandledIs DEF item, tried, others
  <2>3. ASSUME NEW x \in Item, Retry(item) = <<x>>, x.event = item.event,
               x.attempts = item.attempts + 1
        PROVE  \E y : /\ Takes(c, y) /\ y.left = Tail(call[c].left)
                      /\ y.at = IF y.left = <<>> THEN "write" ELSE "items"
                      /\ y.kept = Append(call[c].kept, x) /\ y.sent = call[c].sent
    <3> HIDE DEF item, tried, others
    <3> QED BY <1>1, <1>2, <2>1, <2>3, HandledIs
  <2>4. \/ Retry(item) = <<>> /\ item.attempts + 1 >= MaxAttempts
        \/ \E x \in Item : /\ Retry(item) = <<x>> /\ x.event = item.event
                           /\ x.attempts = item.attempts + 1
    BY <1>2, RetryIs
  <2> QED BY <1>1, <2>1, <2>2, <2>3, <2>4
<1> QED BY <1>3, <1>4, <1>5

LEMMA WriteBackIs ==
  ASSUME Shape, NEW c \in Calls, WriteBack(c)
  PROVE  /\ call[c].at = "write" /\ call[c].left = <<>> /\ UNCHANGED <<stats, serverVars, stored>>
         /\ \E y : /\ Takes(c, y) /\ Blank(y) /\ y.sent = call[c].sent
                   /\ \/ call[c].sent = 0 /\ Finished(c, y)
                      \/ y.at = "count"
         /\ \/ Writes(c, call[c].kept) /\ UNCHANGED disturbed
            \/ WriteFails(c) /\ disturbed' = TRUE
<1> DEFINE y == [At("count") EXCEPT !.sent = call[c].sent]
<1>1. call[c].sent \in Nat /\ <<>> \in Seq(Item) /\ "count" \in Step
  BY CallIs, EmptySeq DEF Step
<1>2. y \in Call /\ y.at = "count" /\ Blank(y) /\ y.sent = call[c].sent
  BY <1>1, SumIs DEF At
<1>3. call' = [call EXCEPT ![c] = IF call[c].sent = 0 THEN Done(c) ELSE y]
  BY DEF WriteBack, Becomes, AfterWrite
<1> HIDE DEF y
<1>4. \E z : /\ Takes(c, z) /\ Blank(z) /\ z.sent = call[c].sent
             /\ \/ call[c].sent = 0 /\ Finished(c, z)
                \/ z.at = "count"
  <2>1. CASE call[c].sent = 0
    BY <1>3, <2>1, DoneIs DEF Takes, Finished
  <2>2. CASE call[c].sent # 0
    BY <1>2, <1>3, <2>2 DEF Takes
  <2> QED BY <2>1, <2>2
<1> QED BY <1>4 DEF WriteBack, Shape

LEMMA CountIs ==
  ASSUME Shape, NEW c \in Calls, CountSent(c)
  PROVE  /\ call[c].at = "count" /\ UNCHANGED <<queue, stats, serverVars, history>>
         /\ \E read \in {stats, 0}, y \in Call : /\ Takes(c, y) /\ Blank(y) /\ y.at = "bump"
                                                 /\ y.sent = read + call[c].sent
<1>1. PICK read \in {stats, 0} : Becomes(c, [At("bump") EXCEPT !.sent = read + call[c].sent])
  BY DEF CountSent
<1>2. read + call[c].sent \in Nat /\ <<>> \in Seq(Item) /\ "bump" \in Step
  BY CallIs, EmptySeq DEF Step, Shape, TypeOK
<1> DEFINE y == [At("bump") EXCEPT !.sent = read + call[c].sent]
<1>3. y \in Call /\ y.at = "bump" /\ Blank(y) /\ y.sent = read + call[c].sent
  BY <1>2, SumIs DEF At
<1>4. Takes(c, y)
  BY <1>1, <1>3 DEF Becomes, Takes
<1> HIDE DEF y
<1> QED BY <1>3, <1>4 DEF CountSent

LEMMA BumpIs ==
  ASSUME Shape, NEW c \in Calls, BumpSent(c)
  PROVE  /\ call[c].at = "bump" /\ stats' \in {stats, call[c].sent}
         /\ UNCHANGED <<queue, serverVars, history>>
         /\ \E y : Takes(c, y) /\ Finished(c, y)
BY DoneIs DEF BumpSent, Becomes, Takes

-----------------------------------------------------------------------------
(* Types.                                                                  *)

\* A step of one call, with what it leaves of the rest.
LEMMA ShapeStep ==
  ASSUME Shape, NEW c, NEW y, Takes(c, y),
         y.at = "items" => y.left # <<>>, y.at = "write" => y.left = <<>>,
         call[c].at = "idle" => c \in Events \/ c \in open',
         c \in Tabs => y.at # "over",
         queue' \in Seq(Item), stats' \in Nat, open \subseteq open', open' \subseteq Tabs,
         UNCHANGED host, tries' \in [Events -> Nat], recorded' \subseteq Events, told' \in Nat,
         boots' \in 0 .. MaxBoots, stored' \subseteq Events, stale' \subseteq Calls,
         raced' \in BOOLEAN, disturbed' \in BOOLEAN
  PROVE  Shape'
<1>1. TypeOK'
  BY DEF Shape, TypeOK, Takes
<1>2. \A t \in Tabs : call'[t].at # "over" /\ (call'[t].at # "idle" => t \in open')
  BY QueueAssumption DEF Shape, TypeOK, Takes, Calls
<1>3. \A d \in Calls : /\ call'[d].at = "items" => call'[d].left # <<>>
                       /\ call'[d].at = "write" => call'[d].left = <<>>
  BY DEF Shape, TypeOK, Takes
<1> QED BY <1>1, <1>2, <1>3 DEF Shape

LEMMA ShapeInit == Init => Shape
<1> SUFFICES ASSUME Init PROVE Shape
  OBVIOUS
<1>1. "idle" \in Step /\ <<>> \in Seq(Item) /\ 0 \in Nat /\ 0 \in 0 .. MaxBoots
  BY QueueAssumption, EmptySeq DEF Step
<1>2. At("idle") \in Call /\ At("idle").at = "idle"
  BY <1>1, AtIs
<1>3. call \in [Calls -> Call] /\ \A c \in Calls : call[c].at = "idle"
  BY <1>2 DEF Init
<1> QED BY <1>1, <1>3 DEF Init, Shape, TypeOK, Calls

\* What an access to the storage leaves well formed.
LEMMA StorageIs ==
  ASSUME Shape, NEW c \in Calls
  PROVE  /\ \A q : Reads(c, q) => /\ UNCHANGED <<queue, raced>> /\ stale' \subseteq Calls
                                  /\ disturbed' \in BOOLEAN
         /\ \A new \in Seq(Item) : Writes(c, new) => /\ queue' \in Seq(Item) /\ stale' \subseteq Calls
                                                     /\ raced' \in BOOLEAN
         /\ WriteFails(c) => UNCHANGED <<queue, raced>> /\ stale' \subseteq Calls
BY DEF Shape, TypeOK, Reads, Writes, WriteFails

LEMMA ShapeNext == Shape /\ [Next]_vars => Shape'
<1> SUFFICES ASSUME Shape, [Next]_vars PROVE Shape'
  OBVIOUS
<1> USE DEF history, serverVars
<1>0. TypeOK
  BY DEF Shape
<1>1. ASSUME NEW t \in Tabs, Boot(t) PROVE Shape'
  <2>1. boots' \in 0 .. MaxBoots /\ open' = open \cup {t} /\ open' \subseteq Tabs
    BY <1>0, <1>1, QueueAssumption DEF Boot, TypeOK
  <2> QED BY <1>0, <1>1, <2>1, BootIs, ShapeStep DEF Boot, TypeOK
<1>2. ASSUME NEW t \in Tabs, Leave(t) PROVE Shape'
  <2> DEFINE gone == {c \in Calls : Running(c) /\ (c = t \/ (c \in Events /\ host[c] = t))}
  <2>1. /\ call' = [c \in Calls |-> IF c \in gone THEN Done(c) ELSE call[c]]
        /\ stale' \subseteq Calls /\ disturbed' \in BOOLEAN
    BY <1>0, <1>2 DEF Leave, TypeOK
  <2>2. \A c \in Calls : Done(c) \in Call /\ Finished(c, Done(c)) /\ call[c] \in Call
    BY DoneIs, CallIs
  <2>3. call' \in [Calls -> Call]
    BY <2>1, <2>2
  <2>4. \A c \in Calls : call'[c] = call[c] \/ call'[c].at \in {"idle", "over"}
    BY <2>1, <2>2 DEF Finished
  <2>5. \A s \in Tabs : call'[s].at # "over" /\ (call'[s].at # "idle" => s \in open')
    <3>1. ASSUME NEW s \in Tabs, s # t
          PROVE  call'[s].at # "over" /\ (call'[s].at # "idle" => s \in open')
      <4>1. s \in Calls /\ Done(s).at = "idle"
        BY AtIs DEF Calls, Done, Step
      <4> QED BY <1>2, <2>1, <3>1, <4>1 DEF Leave, Shape
    <3>2. call'[t].at = "idle"
      <4>1. t \in Calls /\ Done(t).at = "idle" /\ t \notin Events
        BY AtIs, QueueAssumption DEF Calls, Done, Step
      <4>2. t \notin gone => call[t].at \in {"idle", "over"}
        BY <4>1 DEF Running
      <4>3. call[t].at # "over"
        BY DEF Shape
      <4> QED BY <2>1, <4>1, <4>2, <4>3
    <3> QED BY <3>1, <3>2
  <2>6. TypeOK'
    BY <1>0, <1>2, <2>1, <2>3 DEF Leave, TypeOK
  <2> QED BY <2>4, <2>5, <2>6 DEF Shape
<1>3. ASSUME NEW e \in Events, Enqueue(e) PROVE Shape'
  <2>1. e \in Calls
    BY DEF Calls
  <2> QED BY <1>0, <1>3, <2>1, EnqueueIs, StorageIs, ShapeStep DEF Enqueue, TypeOK
<1>4. ASSUME NEW e \in Events, Push(e) PROVE Shape'
  <2>1. e \in Calls
    BY DEF Calls
  <2>2. Append(call[e].left, Fresh(e)) \in Seq(Item)
    BY <1>4, <2>1, CallIs, PushIs, ItemsAppend
  <2>3. /\ queue' \in Seq(Item) /\ raced' \in BOOLEAN /\ stale' \subseteq Calls
        /\ stored' \subseteq Events
    <3>1. \/ Writes(e, Append(call[e].left, Fresh(e))) /\ stored' = stored \cup {e}
          \/ WriteFails(e) /\ UNCHANGED stored
      BY <1>4, PushIs
    <3>2. CASE Writes(e, Append(call[e].left, Fresh(e))) /\ stored' = stored \cup {e}
      BY <1>0, <2>1, <2>2, <3>2, StorageIs DEF TypeOK
    <3>3. CASE WriteFails(e) /\ UNCHANGED stored
      BY <1>0, <2>1, <3>3, StorageIs DEF TypeOK
    <3> QED BY <3>1, <3>2, <3>3
  <2> QED BY <1>0, <1>4, <2>1, <2>3, PushIs, ShapeStep DEF Push, TypeOK
<1>5. ASSUME NEW c \in Calls, Flush(c) PROVE Shape'
  BY <1>0, <1>5, FlushIs, StorageIs, ShapeStep DEF Flush, Finished, TypeOK
<1>6. ASSUME NEW c \in Calls, NotDue(c) \/ Delivered(c) \/ NotDelivered(c) PROVE Shape'
  <2>1. /\ open' = open /\ host' = host /\ boots' = boots
    BY <1>6 DEF NotDue, Delivered, NotDelivered
  <2>2. call[c].at = "items" /\ Head(call[c].left).event \in Events
    BY <1>6, HandleIs, HeadIs
  <2>3. tries' \in [Events -> Nat] /\ recorded' \subseteq Events /\ told' \in Nat
    <3>1. /\ tries' = tries \/ tries' = [tries EXCEPT ![Head(call[c].left).event] = @ + 1]
          /\ recorded' \in {recorded, recorded \cup {Head(call[c].left).event}}
          /\ told' \in {told, told + 1}
      BY <1>6 DEF NotDue, Delivered, NotDelivered
    <3>2. told' \in Nat /\ recorded' \subseteq Events
      BY <1>0, <2>2, <3>1 DEF TypeOK
    <3>3. \A e \in Events : tries[e] \in Nat /\ tries[e] + 1 \in Nat
      BY <1>0 DEF TypeOK
    <3>4. tries' \in [Events -> Nat]
      BY <1>0, <2>2, <3>1, <3>3 DEF TypeOK
    <3> QED BY <3>2, <3>4
  <2>4. \E y : /\ Takes(c, y) /\ y.at = IF y.left = <<>> THEN "write" ELSE "items"
    BY <1>6, HandleIs
  <2>5. UNCHANGED <<queue, stats, history>>
    BY <1>6, HandleIs
  <2> QED BY <1>0, <2>1, <2>2, <2>3, <2>4, <2>5, ShapeStep DEF TypeOK
<1>7. ASSUME NEW c \in Calls, WriteBack(c) PROVE Shape'
  <2>1. call[c].kept \in Seq(Item)
    BY CallIs
  <2>2. /\ queue' \in Seq(Item) /\ raced' \in BOOLEAN /\ stale' \subseteq Calls
        /\ disturbed' \in BOOLEAN
    BY <1>0, <1>7, <2>1, WriteBackIs, StorageIs DEF TypeOK
  <2>3. \E y : Takes(c, y) /\ y.at \notin {"items", "write"}
    BY <1>7, WriteBackIs DEF Finished
  <2>4. ASSUME NEW y, Takes(c, y), y.at \notin {"items", "write"} PROVE y.at # "over" \/ c \notin Tabs
    BY <1>7, <2>4, WriteBackIs DEF Finished, Takes, Shape, TypeOK
  <2> QED BY <1>0, <1>7, <2>2, <2>3, <2>4, ShapeStep DEF WriteBack, TypeOK
<1>8. ASSUME NEW c \in Calls, CountSent(c) PROVE Shape'
  BY <1>0, <1>8, CountIs, ShapeStep DEF CountSent, TypeOK
<1>9. ASSUME NEW c \in Calls, BumpSent(c) PROVE Shape'
  <2>1. stats' \in Nat
    BY <1>0, <1>9, BumpIs, CallIs DEF TypeOK
  <2> QED BY <1>0, <1>9, <2>1, BumpIs, ShapeStep DEF BumpSent, Finished, TypeOK
<1>10. CASE UNCHANGED vars
  BY <1>10 DEF vars, Shape, TypeOK
<1> QED
  BY <1>1, <1>2, <1>3, <1>4, <1>5, <1>6, <1>7, <1>8, <1>9, <1>10 DEF Next, FlushStep

\* The storage holds well formed items, whatever calls overlap or are cut.
THEOREM QueueIsWellFormed == Spec => []TypeOK
<1>1. Shape => TypeOK
  BY DEF Shape
<1> QED BY <1>1, ShapeInit, ShapeNext, PTL DEF Spec

-----------------------------------------------------------------------------
(* No event twice.                                                         *)

\* An event whose enqueue has written it, or failed to.
Pushed(e) == e \in Events /\ call[e].at \notin {"idle", "push"}

\* The queue and every copy hold an event once, and only events that were pushed. The part of a
\* copy that is kept and the part that is left have no event in common.
DistinctInv ==
  /\ Distinct(queue) /\ \A x \in Items(queue) : Pushed(x.event)
  /\ \A c \in Calls :
       /\ Distinct(call[c].left) /\ Distinct(call[c].kept)
       /\ \A x \in Items(call[c].left) : ~ Holds(call[c].kept, x.event)
       /\ \A x \in Items(call[c].left) \cup Items(call[c].kept) : Pushed(x.event)

LEMMA BlankIs ==
  ASSUME NEW y, Blank(y)
  PROVE  /\ Items(y.left) = {} /\ Items(y.kept) = {} /\ Distinct(y.left) /\ Distinct(y.kept)
         /\ \A e : ~ Holds(y.left, e) /\ ~ Holds(y.kept, e)
BY DEF Blank, Items, Distinct, Holds

LEMMA NoneHeld ==
  ASSUME NEW s, s = <<>>
  PROVE  Items(s) = {} /\ Distinct(s) /\ \A e : ~ Holds(s, e)
BY DEF Items, Distinct, Holds

\* A step of one call that keeps copies distinct and pushes nothing back.
LEMMA DistinctStep ==
  ASSUME Shape, DistinctInv, NEW c, NEW y, Takes(c, y),
         Distinct(y.left), Distinct(y.kept), \A x \in Items(y.left) : ~ Holds(y.kept, x.event),
         c \in Events => y.at \notin {"idle", "push"} \/ ~ Pushed(c),
         Distinct(queue'),
         \A x \in Items(y.left) \cup Items(y.kept) \cup Items(queue') :
           Pushed(x.event) \/ (x.event = c /\ c \in Events /\ y.at \notin {"idle", "push"})
  PROVE  DistinctInv'
<1>1. \A e : Pushed(e) => Pushed(e)'
  BY DEF Pushed, Takes, Shape, TypeOK, Calls
<1>2. c \in Events /\ y.at \notin {"idle", "push"} => Pushed(c)'
  BY DEF Pushed, Takes, Shape, TypeOK, Calls
<1>3. call'[c] = y /\ \A d \in Calls \ {c} : call'[d] = call[d]
  BY DEF Takes, Shape, TypeOK
<1>4. \A x \in Items(queue') : Pushed(x.event)'
  BY <1>1, <1>2
<1>5. ASSUME NEW d \in Calls
      PROVE  /\ Distinct(call'[d].left) /\ Distinct(call'[d].kept)
             /\ \A x \in Items(call'[d].left) : ~ Holds(call'[d].kept, x.event)
             /\ \A x \in Items(call'[d].left) \cup Items(call'[d].kept) : Pushed(x.event)'
  <2>1. CASE d = c
    BY <1>1, <1>2, <1>3, <2>1
  <2>2. CASE d # c
    BY <1>1, <1>3, <2>2 DEF DistinctInv
  <2> QED BY <2>1, <2>2
<1> QED BY <1>4, <1>5 DEF DistinctInv

LEMMA DistinctInit == Init => DistinctInv
<1> SUFFICES ASSUME Init PROVE DistinctInv
  OBVIOUS
<1>1. \A c \in Calls : Blank(call[c])
  BY AtIs DEF Init, Step
<1>2. queue = <<>>
  BY DEF Init
<1> QED BY <1>1, <1>2, BlankIs, NoneHeld DEF DistinctInv

LEMMA DistinctNext == Shape /\ DistinctInv /\ [Next]_vars => DistinctInv'
<1> SUFFICES ASSUME Shape, DistinctInv, [Next]_vars PROVE DistinctInv'
  OBVIOUS
<1>0. /\ Distinct(queue) /\ \A x \in Items(queue) : Pushed(x.event)
      /\ \A c \in Calls :
           /\ Distinct(call[c].left) /\ Distinct(call[c].kept)
           /\ \A x \in Items(call[c].left) : ~ Holds(call[c].kept, x.event)
           /\ \A x \in Items(call[c].left) \cup Items(call[c].kept) : Pushed(x.event)
  BY DEF DistinctInv
<1>1. ASSUME NEW c \in Calls, NEW y, Takes(c, y), Blank(y), queue' = queue,
             c \in Events => y.at \notin {"idle", "push"}
      PROVE  DistinctInv'
  BY <1>0, <1>1, BlankIs, DistinctStep
<1>2. ASSUME NEW t \in Tabs, Boot(t) PROVE DistinctInv'
  BY <1>1, <1>2, BootIs DEF Calls
<1>3. ASSUME NEW t \in Tabs, Leave(t) PROVE DistinctInv'
  <2>1. PICK gone \in SUBSET Calls :
          /\ \A c \in gone : Running(c) /\ Finished(c, call'[c])
          /\ \A c \in Calls \ gone : call'[c] = call[c]
    BY <1>3, LeaveIs
  <2>2. queue' = queue
    BY <1>3, LeaveIs
  <2>3. \A e : Pushed(e) => Pushed(e)'
    BY <2>1 DEF Pushed, Finished, Calls
  <2>4. \A c \in gone : Items(call'[c].left) = {} /\ Items(call'[c].kept) = {}
                        /\ Distinct(call'[c].left) /\ Distinct(call'[c].kept)
    BY <2>1, BlankIs DEF Finished
  <2> QED BY <1>0, <2>1, <2>2, <2>3, <2>4 DEF DistinctInv
<1>4. ASSUME NEW e \in Events, Enqueue(e) PROVE DistinctInv'
  <2>1. PICK q \in Seq(Item), y \in Call : /\ q = queue \/ q = <<>>
                                           /\ Reads(e, q) /\ Takes(e, y)
                                           /\ y.at = "push" /\ y.left = q /\ y.kept = <<>>
    BY <1>4, EnqueueIs
  <2>2. queue' = queue /\ ~ Pushed(e)
    BY <1>4, <2>1, EnqueueIs DEF Reads, Pushed
  <2>3. Distinct(q) /\ \A x \in Items(q) : Pushed(x.event)
    BY <1>0, <2>1, NoneHeld
  <2>4. Items(y.kept) = {} /\ Distinct(y.kept) /\ \A f : ~ Holds(y.kept, f)
    BY <2>1, NoneHeld
  <2> QED BY <1>0, <2>1, <2>2, <2>3, <2>4, DistinctStep
<1>5. ASSUME NEW e \in Events, Push(e) PROVE DistinctInv'
  <2>1. PICK y : Takes(e, y) /\ y.at = "flush" /\ Blank(y)
    BY <1>5, PushIs
  <2> DEFINE new == Append(call[e].left, Fresh(e))
  <2>2. e \in Calls /\ call[e].left \in Seq(Item) /\ Fresh(e) \in Item /\ Fresh(e).event = e
        /\ ~ Pushed(e)
    BY <1>5, CallIs, PushIs DEF Calls, Pushed
  <2>3. ~ Holds(call[e].left, e)
    BY <1>0, <2>2 DEF Holds
  <2>4. Distinct(new) /\ Items(new) = Items(call[e].left) \cup {Fresh(e)}
    BY <1>0, <2>2, <2>3, ItemsAppend
  <2>5. queue' = new \/ queue' = queue
    BY <1>5, PushIs DEF Writes, WriteFails
  <2> HIDE DEF new
  <2> QED BY <1>0, <2>1, <2>2, <2>4, <2>5, BlankIs, DistinctStep
<1>6. ASSUME NEW c \in Calls, Flush(c) PROVE DistinctInv'
  <2>1. CASE \E y : Takes(c, y) /\ Finished(c, y) /\ queue' = queue
    BY <1>1, <2>1 DEF Finished
  <2>2. CASE \E q \in Seq(Item), y \in Call : /\ q = queue /\ Reads(c, q) /\ Takes(c, y)
                                              /\ y.at = "items" /\ y.left = q /\ y.kept = <<>>
    <3>1. PICK y : /\ Takes(c, y) /\ y.at = "items" /\ y.left = queue /\ y.kept = <<>>
                   /\ queue' = queue
      BY <2>2 DEF Reads
    <3>2. Items(y.kept) = {} /\ Distinct(y.kept) /\ \A f : ~ Holds(y.kept, f)
      BY <3>1, NoneHeld
    <3> QED BY <1>0, <3>1, <3>2, DistinctStep
  <2> QED BY <1>6, <2>1, <2>2, FlushIs
<1>7. ASSUME NEW c \in Calls, NotDue(c) \/ Delivered(c) \/ NotDelivered(c) PROVE DistinctInv'
  <2> DEFINE item == Head(call[c].left)
  <2>1. /\ call[c].at = "items" /\ queue' = queue
        /\ \E y : /\ Takes(c, y) /\ y.left = Tail(call[c].left) /\ y.at \in {"write", "items"}
                  /\ \/ y.kept = call[c].kept
                     \/ \E x \in Item : y.kept = Append(call[c].kept, x) /\ x.event = item.event
    BY <1>7, HandleIs, HeadIs
  <2>2. /\ item \in Item /\ Items(call[c].left) = {item} \cup Items(Tail(call[c].left))
        /\ Distinct(Tail(call[c].left)) /\ ~ Holds(Tail(call[c].left), item.event)
    BY <1>0, <2>1, HeadIs
  <2>3. PICK y : /\ Takes(c, y) /\ y.left = Tail(call[c].left) /\ y.at \in {"write", "items"}
                 /\ \/ y.kept = call[c].kept
                    \/ \E x \in Item : y.kept = Append(call[c].kept, x) /\ x.event = item.event
    BY <2>1
  <2>4. call[c].kept \in Seq(Item) /\ ~ Holds(call[c].kept, item.event) /\ Pushed(item.event)
    BY <1>0, <2>2, CallIs
  <2> HIDE DEF item
  <2>5. CASE y.kept = call[c].kept
    BY <1>0, <2>1, <2>2, <2>3, <2>5, DistinctStep
  <2>6. CASE \E x \in Item : y.kept = Append(call[c].kept, x) /\ x.event = item.event
    <3>1. PICK x \in Item : y.kept = Append(call[c].kept, x) /\ x.event = item.event
      BY <2>6
    <3>2. Distinct(y.kept) /\ Items(y.kept) = Items(call[c].kept) \cup {x}
      BY <1>0, <2>4, <3>1, ItemsAppend
    <3>3. \A z \in Items(y.left) : ~ Holds(y.kept, z.event)
      BY <1>0, <2>2, <2>3, <3>1, <3>2 DEF Holds
    <3> QED BY <1>0, <2>1, <2>2, <2>3, <2>4, <3>1, <3>2, <3>3, DistinctStep
  <2> QED BY <2>3, <2>5, <2>6
<1>8. ASSUME NEW c \in Calls, WriteBack(c) PROVE DistinctInv'
  <2>1. PICK y : Takes(c, y) /\ Blank(y) /\ (y.at = "count" \/ Finished(c, y))
    BY <1>8, WriteBackIs
  <2>2. queue' = queue \/ queue' = call[c].kept
    BY <1>8, WriteBackIs DEF Writes, WriteFails
  <2>3. c \in Events => y.at \notin {"idle", "push"}
    BY <2>1 DEF Finished
  <2> QED BY <1>0, <2>1, <2>2, <2>3, BlankIs, DistinctStep
<1>9. ASSUME NEW c \in Calls, CountSent(c) PROVE DistinctInv'
  BY <1>1, <1>9, CountIs
<1>10. ASSUME NEW c \in Calls, BumpSent(c) PROVE DistinctInv'
  BY <1>1, <1>10, BumpIs DEF Finished
<1>11. CASE UNCHANGED vars
  BY <1>11 DEF vars, DistinctInv, Pushed
<1> QED
  BY <1>2, <1>3, <1>4, <1>5, <1>6, <1>7, <1>8, <1>9, <1>10, <1>11 DEF Next, FlushStep

\* No event is ever twice in the stored queue, whatever calls overlap and whatever the storage
\* rejects (telemetryQueue.ts, every write).
THEOREM EntriesAreDistinct == Spec => []NoDuplicateEntry
<1>1. DistinctInv => NoDuplicateEntry
  BY DEF DistinctInv, Distinct, NoDuplicateEntry
<1> QED BY <1>1, ShapeInit, ShapeNext, DistinctInit, DistinctNext, PTL DEF Spec

-----------------------------------------------------------------------------
(* Never more attempts than allowed.                                       *)

\* The copies say of each event at least the attempts it had.
Counted(s) == \A x \in Items(s) : x.attempts >= tries[x.event]

Alone(c) == \A d \in Calls \ {c} : call[d].at \in {"idle", "over", "flush"}

\* Of the calls that do not overlap, the one that has read the queue is alone with its copy. It
\* counts its attempts there; the queue does once the flush has written it back.
TriedInv ==
  /\ \A e \in Events : call[e].at \in {"idle", "push"} => tries[e] = 0
  /\ ~ disturbed =>
       /\ \A e \in Events : tries[e] <= MaxAttempts
       /\ \A c \in Calls : HoldsCopy(c) => Alone(c) /\ Counted(call[c].left) /\ Counted(call[c].kept)
       /\ (\A c \in Calls : call[c].at \notin {"items", "write"}) => Counted(queue)

\* A step that attempts nothing.
LEMMA TriedStep ==
  ASSUME Shape, TriedInv, NEW c, NEW y, Takes(c, y), tries' = tries, disturbed => disturbed',
         c \in Events /\ y.at \in {"idle", "push"} => call[c].at \in {"idle", "push"},
         ~ disturbed' =>
           /\ y.at \notin {"idle", "over", "flush"} => \A d \in Calls \ {c} : ~ HoldsCopy(d)
           /\ y.at \in {"push", "items", "write"} =>
                Alone(c) /\ Counted(y.left) /\ Counted(y.kept)
           /\ (\A d \in Calls \ {c} : call[d].at \notin {"items", "write"})
                /\ y.at \notin {"items", "write"} => Counted(queue')
  PROVE  TriedInv'
<1>1. call'[c] = y /\ c \in Calls /\ \A d \in Calls \ {c} : call'[d] = call[d]
  BY DEF Takes, Shape, TypeOK
<1>2. \A e \in Events : call'[e].at \in {"idle", "push"} => tries'[e] = 0
  BY <1>1 DEF TriedInv, Calls
<1>3. ASSUME ~ disturbed'
      PROVE  /\ \A e \in Events : tries'[e] <= MaxAttempts
             /\ \A d \in Calls : HoldsCopy(d)' => Alone(d)' /\ Counted(call[d].left)' /\ Counted(call[d].kept)'
             /\ (\A d \in Calls : call'[d].at \notin {"items", "write"}) => Counted(queue)'
  <2>0. ~ disturbed
    BY <1>3
  <2>1. \A e \in Events : tries'[e] <= MaxAttempts
    BY <2>0 DEF TriedInv
  <2>2. ASSUME NEW d \in Calls, HoldsCopy(d)'
        PROVE  Alone(d)' /\ Counted(call[d].left)' /\ Counted(call[d].kept)'
    <3>1. CASE d = c
      BY <1>1, <1>3, <2>2, <3>1 DEF Counted, Alone, HoldsCopy
    <3>2. CASE d # c
      <4>1. HoldsCopy(d) /\ Alone(d) /\ Counted(call[d].left) /\ Counted(call[d].kept)
        BY <1>1, <2>0, <2>2, <3>2 DEF HoldsCopy, TriedInv
      <4>2. y.at \in {"idle", "over", "flush"}
        BY <1>3, <3>2, <4>1
      <4> QED BY <1>1, <3>2, <4>1, <4>2 DEF Alone, Counted
    <3> QED BY <3>1, <3>2
  <2>3. (\A d \in Calls : call'[d].at \notin {"items", "write"}) => Counted(queue)'
    BY <1>1, <1>3 DEF Counted
  <2> QED BY <2>1, <2>2, <2>3
<1> QED BY <1>2, <1>3 DEF TriedInv

LEMMA TriedInit == Init => TriedInv
<1> SUFFICES ASSUME Init PROVE TriedInv
  OBVIOUS
<1>1. \A c \in Calls : call[c].at = "idle"
  BY AtIs DEF Init, Step
<1>2. Items(queue) = {}
  BY NoneHeld DEF Init
<1>3. \A e \in Events : tries[e] = 0 /\ 0 <= MaxAttempts
  BY QueueAssumption DEF Init
<1> QED BY <1>1, <1>2, <1>3 DEF TriedInv, Counted, HoldsCopy

LEMMA TriedNext == Shape /\ DistinctInv /\ TriedInv /\ [Next]_vars => TriedInv'
<1> SUFFICES ASSUME Shape, DistinctInv, TriedInv, [Next]_vars PROVE TriedInv'
  OBVIOUS
<1>0. ASSUME ~ disturbed
      PROVE  /\ \A e \in Events : tries[e] <= MaxAttempts
             /\ \A c \in Calls : HoldsCopy(c) => Alone(c) /\ Counted(call[c].left) /\ Counted(call[c].kept)
             /\ (\A c \in Calls : call[c].at \notin {"items", "write"}) => Counted(queue)
  BY <1>0 DEF TriedInv
<1>1. ASSUME NEW t \in Tabs, Boot(t) PROVE TriedInv'
  <2>1. PICK y : Takes(t, y) /\ y.at = "flush"
    BY <1>1, BootIs
  <2>2. /\ tries' = tries /\ disturbed' = disturbed /\ queue' = queue
        /\ call[t].at \notin {"items", "write"}
    BY <1>1, BootIs DEF serverVars, history, Running
  <2> QED BY <1>0, <2>1, <2>2, TriedStep DEF Calls
<1>2. ASSUME NEW t \in Tabs, Leave(t) PROVE TriedInv'
  <2>1. PICK gone \in SUBSET Calls :
          /\ \A c \in gone : Running(c) /\ Finished(c, call'[c])
          /\ \A c \in Calls \ gone : call'[c] = call[c]
          /\ disturbed' = (disturbed \/ \E c \in gone : call[c].at \in {"items", "write"})
    BY <1>2, LeaveIs
  <2>2. tries' = tries /\ queue' = queue
    BY <1>2, LeaveIs DEF serverVars
  <2>3. \A e \in Events : call'[e].at \in {"idle", "push"} => tries'[e] = 0
    BY <2>1, <2>2 DEF TriedInv, Finished, Calls
  <2>4. \A c \in gone : call'[c].at \in {"idle", "over"}
    BY <2>1 DEF Finished
  <2>5. ASSUME ~ disturbed', NEW c \in Calls, HoldsCopy(c)'
        PROVE  Alone(c)' /\ Counted(call[c].left)' /\ Counted(call[c].kept)'
    <3>1. c \notin gone
      BY <2>4, <2>5 DEF HoldsCopy
    <3>2. HoldsCopy(c) /\ call'[c] = call[c]
      BY <2>1, <2>5, <3>1 DEF HoldsCopy
    <3>3. Alone(c) /\ Counted(call[c].left) /\ Counted(call[c].kept)
      BY <1>0, <2>1, <2>5, <3>2
    <3> QED BY <2>1, <2>2, <2>4, <3>2, <3>3 DEF Alone, Counted
  <2>6. ASSUME ~ disturbed', \A c \in Calls : call'[c].at \notin {"items", "write"}
        PROVE  Counted(queue)'
    <3>1. \A c \in Calls : call[c].at \notin {"items", "write"}
      BY <2>1, <2>6
    <3> QED BY <1>0, <2>1, <2>2, <2>6, <3>1 DEF Counted
  <2> QED BY <1>0, <2>1, <2>2, <2>3, <2>5, <2>6 DEF TriedInv
<1>3. ASSUME NEW e \in Events, Enqueue(e) PROVE TriedInv'
  <2>1. PICK q \in Seq(Item), y \in Call : /\ q = queue \/ q = <<>>
                                           /\ Reads(e, q) /\ Takes(e, y)
                                           /\ y.at = "push" /\ y.left = q /\ y.kept = <<>>
    BY <1>3, EnqueueIs
  <2>2. /\ queue' = queue /\ call[e].at = "idle" /\ tries' = tries
        /\ disturbed' = (disturbed \/ \E d \in Calls \ {e} : Running(d))
    BY <1>3, <2>1, EnqueueIs DEF Reads, serverVars
  <2>3. ASSUME ~ disturbed'
        PROVE  /\ \A d \in Calls \ {e} : ~ HoldsCopy(d)
               /\ Alone(e) /\ Counted(y.left) /\ Counted(y.kept) /\ Counted(queue')
    <3>1. \A d \in Calls \ {e} : call[d].at \in {"idle", "over"}
      BY <2>2, <2>3 DEF Running
    <3>2. Counted(queue)
      BY <1>0, <2>2, <2>3, <3>1
    <3>3. Counted(y.left) /\ Counted(y.kept)
      BY <2>1, <3>2, NoneHeld DEF Counted
    <3> QED BY <2>2, <3>1, <3>2, <3>3 DEF HoldsCopy, Alone
  <2> QED BY <2>1, <2>2, <2>3, TriedStep
<1>4. ASSUME NEW e \in Events, Push(e) PROVE TriedInv'
  <2>1. PICK y : Takes(e, y) /\ y.at = "flush" /\ Blank(y)
    BY <1>4, PushIs
  <2> DEFINE new == Append(call[e].left, Fresh(e))
  <2>2. /\ e \in Calls /\ HoldsCopy(e) /\ call[e].at = "push" /\ tries[e] = 0 /\ tries' = tries
        /\ disturbed' = disturbed
    BY <1>4, PushIs DEF Calls, HoldsCopy, TriedInv, serverVars
  <2>3. Items(new) = Items(call[e].left) \cup {Fresh(e)} /\ Fresh(e).attempts = 0 /\ Fresh(e).event = e
    BY <1>4, <2>2, CallIs, PushIs, ItemsAppend
  <2>4. queue' = new \/ queue' = queue
    BY <1>4, PushIs DEF Writes, WriteFails
  <2> HIDE DEF new
  <2>5. ASSUME ~ disturbed'
        PROVE  Counted(queue') \/ \E d \in Calls \ {e} : call[d].at \in {"items", "write"}
    <3>1. Counted(call[e].left)
      BY <1>0, <2>2, <2>5
    <3>2. Counted(new)
      BY <2>2, <2>3, <3>1 DEF Counted
    <3>3. (\A d \in Calls : call[d].at \notin {"items", "write"}) => Counted(queue)
      BY <1>0, <2>2, <2>5
    <3> QED BY <2>2, <2>4, <3>2, <3>3
  <2> QED BY <2>1, <2>2, <2>5, TriedStep
<1>5. ASSUME NEW c \in Calls, Flush(c) PROVE TriedInv'
  <2>0. call[c].at = "flush" /\ tries' = tries
    BY <1>5, FlushIs DEF serverVars
  <2>1. CASE (\E y : Takes(c, y) /\ Finished(c, y)) /\ UNCHANGED <<queue, history>>
    <3>1. PICK y : Takes(c, y) /\ Finished(c, y)
      BY <2>1
    <3>2. queue' = queue /\ disturbed' = disturbed
      BY <2>1 DEF history
    <3>3. y.at \in {"idle", "over"} /\ (c \in Events => y.at = "over")
      BY <3>1 DEF Finished
    <3> QED BY <1>0, <2>0, <3>1, <3>2, <3>3, TriedStep
  <2>2. CASE \E q \in Seq(Item), y \in Call : /\ q = queue /\ Reads(c, q) /\ Takes(c, y)
                                              /\ y.at = "items" /\ y.left = q /\ y.kept = <<>>
    <3>1. PICK y : /\ Reads(c, queue) /\ Takes(c, y)
                   /\ y.at = "items" /\ y.left = queue /\ y.kept = <<>>
      BY <2>2
    <3>2. queue' = queue /\ disturbed' = (disturbed \/ \E d \in Calls \ {c} : Running(d))
      BY <3>1 DEF Reads
    <3>3. ASSUME ~ disturbed'
          PROVE  /\ \A d \in Calls \ {c} : ~ HoldsCopy(d)
                 /\ Alone(c) /\ Counted(y.left) /\ Counted(y.kept)
      <4>1. \A d \in Calls \ {c} : call[d].at \in {"idle", "over"}
        BY <3>2, <3>3 DEF Running
      <4>2. Counted(queue)
        BY <1>0, <2>0, <3>2, <3>3, <4>1
      <4> QED BY <3>1, <4>1, <4>2, NoneHeld DEF Counted, HoldsCopy, Alone
    <3> QED BY <2>0, <3>1, <3>2, <3>3, TriedStep
  <2> QED BY <1>5, <2>1, <2>2, FlushIs
<1>6. ASSUME NEW c \in Calls, NotDue(c) \/ Delivered(c) \/ NotDelivered(c) PROVE TriedInv'
  <2> DEFINE item == Head(call[c].left)
  <2>1. /\ call[c].at = "items" /\ disturbed' = disturbed /\ queue' = queue
        /\ \E y : /\ Takes(c, y) /\ y.left = Tail(call[c].left) /\ y.at \in {"write", "items"}
                  /\ \/ y.kept = Append(call[c].kept, item) /\ tries' = tries
                     \/ y.kept = call[c].kept /\ tries' = [tries EXCEPT ![item.event] = @ + 1]
                     \/ \E x \in Item :
                          /\ y.kept = Append(call[c].kept, x)
                          /\ x.event = item.event /\ x.attempts = item.attempts + 1
                          /\ tries' = [tries EXCEPT ![item.event] = @ + 1]
    BY <1>6, HandleIs DEF history, serverVars
  <2>2. PICK y : /\ Takes(c, y) /\ y.left = Tail(call[c].left) /\ y.at \in {"write", "items"}
                 /\ \/ y.kept = Append(call[c].kept, item) /\ tries' = tries
                    \/ y.kept = call[c].kept /\ tries' = [tries EXCEPT ![item.event] = @ + 1]
                    \/ \E x \in Item :
                         /\ y.kept = Append(call[c].kept, x)
                         /\ x.event = item.event /\ x.attempts = item.attempts + 1
                         /\ tries' = [tries EXCEPT ![item.event] = @ + 1]
    BY <2>1
  <2>3. /\ item \in Item /\ item.event \in Events /\ item.attempts \in 0 .. MaxAttempts - 1
        /\ Items(call[c].left) = {item} \cup Items(Tail(call[c].left))
        /\ ~ Holds(Tail(call[c].left), item.event)
    BY <2>1, HeadIs DEF DistinctInv, Item
  <2>4. call[c].kept \in Seq(Item) /\ ~ Holds(call[c].kept, item.event) /\ Pushed(item.event)
    BY <2>3, CallIs DEF DistinctInv
  <2> HIDE DEF item
  <2>5. /\ call'[c] = y /\ \A d \in Calls \ {c} : call'[d] = call[d]
        /\ tries \in [Events -> Nat]
    BY <2>2 DEF Takes, Shape, TypeOK
  <2>6. \A e \in Events : e # item.event => tries'[e] = tries[e]
    BY <2>2, <2>5
  <2>7. \A x \in Item : x.event \in Events /\ x.attempts \in Nat
    BY QueueAssumption DEF Item
  <2>8. \A e \in Events : call'[e].at \in {"idle", "push"} => tries'[e] = 0
    <3>1. \A e \in Events : call'[e].at \in {"idle", "push"} => e # c /\ call[e] = call'[e]
      BY <2>2, <2>5 DEF Calls
    <3>2. \A e \in Events : call'[e].at \in {"idle", "push"} => e # item.event
      BY <2>4, <3>1 DEF Pushed
    <3> QED BY <2>6, <3>1, <3>2 DEF TriedInv
  <2>9. ASSUME ~ disturbed'
        PROVE  /\ \A e \in Events : tries'[e] <= MaxAttempts
               /\ \A d \in Calls : HoldsCopy(d)' => Alone(d)' /\ Counted(call[d].left)' /\ Counted(call[d].kept)'
               /\ ~ (\A d \in Calls : call'[d].at \notin {"items", "write"})
    <3>1. /\ \A e \in Events : tries[e] <= MaxAttempts
          /\ Alone(c) /\ Counted(call[c].left) /\ Counted(call[c].kept)
      BY <1>0, <2>1, <2>9 DEF HoldsCopy
    <3>2. tries[item.event] <= item.attempts /\ tries[item.event] \in Nat
      BY <2>3, <2>5, <3>1 DEF Counted
    <3>3. \A e \in Events : tries'[e] <= MaxAttempts
      BY <2>2, <2>3, <2>5, <3>1, <3>2, QueueAssumption
    <3>4. \A x \in Items(y.left) : x.event # item.event /\ x \in Items(call[c].left)
      BY <2>2, <2>3 DEF Holds
    <3>5. \A x \in Items(call[c].kept) : x.event # item.event
      BY <2>4 DEF Holds
    <3>6. \A x \in Items(call[c].left) \cup Items(call[c].kept) : x.event \in Events
      BY DEF DistinctInv, Pushed
    <3>7. Counted(y.left)'
      BY <2>6, <3>1, <3>4, <3>6 DEF Counted
    <3>8. \A x \in Items(call[c].kept) : x.attempts >= tries'[x.event]
      BY <2>6, <3>1, <3>5, <3>6 DEF Counted
    <3>9. Counted(y.kept)'
      <4>1. CASE y.kept = Append(call[c].kept, item) /\ tries' = tries
        <5>1. Items(y.kept) = Items(call[c].kept) \cup {item}
          BY <2>3, <2>4, <4>1, ItemsAppend
        <5> QED BY <2>3, <2>7, <3>2, <3>8, <4>1, <5>1 DEF Counted
      <4>2. CASE y.kept = call[c].kept
        BY <3>8, <4>2 DEF Counted
      <4>3. ASSUME NEW x \in Item, y.kept = Append(call[c].kept, x),
                   x.event = item.event, x.attempts = item.attempts + 1,
                   tries' = [tries EXCEPT ![item.event] = @ + 1]
            PROVE  Counted(y.kept)'
        <5>1. Items(y.kept) = Items(call[c].kept) \cup {x}
          BY <2>4, <4>3, ItemsAppend
        <5>2. tries'[x.event] = tries[item.event] + 1
          BY <2>3, <2>5, <4>3
        <5>3. x.attempts >= tries'[x.event]
          BY <2>3, <2>7, <3>2, <4>3, <5>2
        <5> QED BY <3>8, <5>1, <5>3 DEF Counted
      <4> QED BY <2>2, <4>1, <4>2, <4>3
    <3>10. \A d \in Calls : HoldsCopy(d)' => d = c
      BY <2>5, <3>1 DEF HoldsCopy, Alone
    <3>11. Alone(c)'
      BY <2>5, <3>1 DEF Alone
    <3> QED BY <2>2, <2>5, <3>3, <3>7, <3>9, <3>10, <3>11
  <2> QED BY <2>8, <2>9 DEF TriedInv
<1>7. ASSUME NEW c \in Calls, WriteBack(c) PROVE TriedInv'
  <2>1. PICK y : Takes(c, y) /\ Blank(y) /\ (y.at = "count" \/ Finished(c, y))
    BY <1>7, WriteBackIs
  <2>2. call[c].at = "write" /\ HoldsCopy(c) /\ tries' = tries
    BY <1>7, WriteBackIs DEF HoldsCopy, serverVars
  <2>3. /\ disturbed => disturbed'
        /\ ~ disturbed' => queue' = call[c].kept
    BY <1>7, WriteBackIs DEF Writes, WriteFails
  <2>4. y.at \in {"count", "idle", "over"} /\ (c \in Events => y.at \in {"count", "over"})
    BY <2>1 DEF Finished
  <2>5. ASSUME ~ disturbed'
        PROVE  Counted(queue') /\ \A d \in Calls \ {c} : ~ HoldsCopy(d)
    BY <1>0, <2>2, <2>3, <2>5 DEF Alone, HoldsCopy
  <2> QED BY <2>1, <2>2, <2>3, <2>4, <2>5, TriedStep
<1>8. ASSUME NEW c \in Calls, CountSent(c) \/ BumpSent(c) PROVE TriedInv'
  <2>1. PICK y : Takes(c, y) /\ (y.at = "bump" \/ Finished(c, y))
    BY <1>8, CountIs, BumpIs
  <2>2. call[c].at \in {"count", "bump"} /\ tries' = tries /\ disturbed' = disturbed /\ queue' = queue
    BY <1>8, CountIs, BumpIs DEF serverVars, history
  <2>3. y.at \in {"bump", "idle", "over"} /\ (c \in Events => y.at \in {"bump", "over"})
    BY <2>1 DEF Finished
  <2>4. ~ disturbed => \A d \in Calls \ {c} : ~ HoldsCopy(d)
    BY <1>0, <2>2 DEF Alone
  <2>5. (\A d \in Calls \ {c} : call[d].at \notin {"items", "write"}) /\ ~ disturbed => Counted(queue)
    BY <1>0, <2>2
  <2> QED BY <2>1, <2>2, <2>3, <2>4, <2>5, TriedStep
<1>9. CASE UNCHANGED vars
  BY <1>9 DEF vars, serverVars, history, TriedInv, Counted, HoldsCopy, Alone
<1> QED
  BY <1>1, <1>2, <1>3, <1>4, <1>5, <1>6, <1>7, <1>8, <1>9 DEF Next, FlushStep

\* "max 3 tentatives" (telemetryQueue.ts), over any number of pages: as long as no two calls
\* overlap and no flush is cut, an event is attempted at most MaxAttempts times.
THEOREM AttemptsAreBounded == Spec => []AtMostMaxAttempts
<1>1. TriedInv => AtMostMaxAttempts
  BY DEF TriedInv, AtMostMaxAttempts
<1> QED
  BY <1>1, ShapeInit, ShapeNext, DistinctInit, DistinctNext, TriedInit, TriedNext, PTL DEF Spec

-----------------------------------------------------------------------------
(* What is pushed is kept until it is settled.                             *)

\* No item claims more attempts than its event had.
Honest(s, attempted) == \A x \in Items(s) : x.attempts <= attempted[x.event]

Over(e) == e \in recorded \/ tries[e] >= MaxAttempts

\* A call that is not stale holds all of the queue that is not settled.
Covers(c) ==
  /\ call[c].at = "push" => call[c].left = queue
  /\ call[c].at \in {"items", "write"} =>
       \A x \in Items(queue) : \/ Holds(call[c].left, x.event) \/ Holds(call[c].kept, x.event)
                               \/ Over(x.event)

KeepInv ==
  /\ Honest(queue, tries) /\ \A c \in Calls : Honest(call[c].left, tries) /\ Honest(call[c].kept, tries)
  /\ \A c \in Calls \ stale : Covers(c)
  /\ ~ raced => \A e \in stored : Holds(queue, e) \/ Over(e)

\* What was over stays over, and attempts only grow.
Later == \A e \in Events : tries'[e] \in Nat /\ tries[e] <= tries'[e] /\ (Over(e) => Over(e)')

LEMMA ItemsAre ==
  ASSUME NEW s \in Seq(Item), NEW x \in Items(s)
  PROVE  x \in Item /\ x.event \in Events /\ x.attempts \in Nat
<1>1. x \in Item
  BY DEF Items
<1> QED BY <1>1, QueueAssumption DEF Item

LEMMA HonestLater ==
  ASSUME Shape, Later, NEW s \in Seq(Item), Honest(s, tries)
  PROVE  Honest(s, tries')
<1>1. \A x \in Items(s) : x.event \in Events /\ x.attempts \in Nat
  BY ItemsAre
<1>2. \A e \in Events : tries[e] \in Nat /\ tries'[e] \in Nat /\ tries[e] <= tries'[e]
  BY DEF Shape, TypeOK, Later
<1> QED BY <1>1, <1>2 DEF Honest

LEMMA KeepStep ==
  ASSUME Shape, KeepInv, NEW c, NEW y, Takes(c, y), Later,
         Honest(y.left, tries'), Honest(y.kept, tries'), Honest(queue', tries'),
         \/ queue' = queue /\ \A d \in Calls \ {c} : d \in stale => d \in stale'
         \/ \A d \in Calls \ {c} : HoldsCopy(d) => d \in stale',
         c \notin stale' => Covers(c)',
         ~ raced' => \A e \in stored' : Holds(queue', e) \/ Over(e)'
  PROVE  KeepInv'
<1>1. call'[c] = y /\ c \in Calls /\ \A d \in Calls \ {c} : call'[d] = call[d]
  BY DEF Takes, Shape, TypeOK
<1>2. queue \in Seq(Item) /\ \A d \in Calls : call[d].left \in Seq(Item) /\ call[d].kept \in Seq(Item)
  BY CallIs DEF Shape, TypeOK
<1>3. ASSUME NEW d \in Calls, d # c PROVE Honest(call'[d].left, tries') /\ Honest(call'[d].kept, tries')
  <2>1. Honest(call[d].left, tries) /\ Honest(call[d].kept, tries) /\ call'[d] = call[d]
    BY <1>1, <1>3 DEF KeepInv
  <2> QED BY <1>2, <2>1, HonestLater
<1>4. ASSUME NEW d \in Calls, d # c, d \notin stale' PROVE Covers(d)'
  <2>0. call'[d] = call[d]
    BY <1>1, <1>4
  <2>1. CASE ~ HoldsCopy(d)
    BY <2>0, <2>1 DEF HoldsCopy, Covers
  <2>2. CASE HoldsCopy(d)
    <3>1. queue' = queue /\ d \notin stale
      BY <1>1, <1>4, <2>2
    <3>2. Covers(d)
      BY <3>1 DEF KeepInv
    <3>3. \A x \in Items(queue) : x.event \in Events
      BY <1>2, ItemsAre
    <3> QED BY <2>0, <3>1, <3>2, <3>3 DEF Covers, Later
  <2> QED BY <2>1, <2>2
<1>5. \A d \in Calls : Honest(call'[d].left, tries') /\ Honest(call'[d].kept, tries')
  BY <1>1, <1>3
<1>6. \A d \in Calls : d \notin stale' => Covers(d)'
  BY <1>1, <1>4
<1> QED BY <1>5, <1>6 DEF KeepInv

LEMMA KeepInit == Init => KeepInv
<1> SUFFICES ASSUME Init PROVE KeepInv
  OBVIOUS
<1>1. \A c \in Calls : Blank(call[c]) /\ call[c].at = "idle"
  BY AtIs DEF Init, Step
<1>2. queue = <<>> /\ stored = {}
  BY DEF Init
<1> QED BY <1>1, <1>2, BlankIs, NoneHeld DEF KeepInv, Honest, Covers

LEMMA LaterIs ==
  ASSUME Shape,
         \/ UNCHANGED serverVars
         \/ /\ \E e \in Events : tries' = [tries EXCEPT ![e] = @ + 1]
            /\ recorded \subseteq recorded'
  PROVE  Later
<1>1. tries \in [Events -> Nat] /\ MaxAttempts \in Nat
  BY QueueAssumption DEF Shape, TypeOK
<1>2. CASE UNCHANGED serverVars
  BY <1>1, <1>2 DEF serverVars, Later, Over
<1>3. ASSUME NEW e \in Events, tries' = [tries EXCEPT ![e] = @ + 1], recorded \subseteq recorded'
      PROVE  Later
  <2>1. \A f \in Events : tries'[f] = IF f = e THEN tries[f] + 1 ELSE tries[f]
    BY <1>1, <1>3
  <2>2. \A f \in Events : tries'[f] \in Nat /\ tries[f] <= tries'[f]
    BY <1>1, <2>1
  <2>3. ASSUME NEW f \in Events, tries[f] >= MaxAttempts PROVE tries'[f] >= MaxAttempts
    BY <1>1, <2>2, <2>3
  <2> QED BY <1>3, <2>2, <2>3 DEF Later, Over
<1> QED BY <1>2, <1>3

LEMMA KeepNext == Shape /\ KeepInv /\ [Next]_vars => KeepInv'
<1> SUFFICES ASSUME Shape, KeepInv, [Next]_vars PROVE KeepInv'
  OBVIOUS
<1>0. /\ Honest(queue, tries) /\ \A c \in Calls : Honest(call[c].left, tries) /\ Honest(call[c].kept, tries)
      /\ \A c \in Calls \ stale : Covers(c)
      /\ ~ raced => \A e \in stored : Holds(queue, e) \/ Over(e)
      /\ queue \in Seq(Item)
  BY DEF KeepInv, Shape, TypeOK
<1>1. ASSUME NEW c \in Calls, NEW y, Takes(c, y), Blank(y), UNCHANGED <<queue, serverVars, history>>,
             y.at \notin {"push", "items", "write"}
      PROVE  KeepInv'
  <2>1. Later /\ Honest(queue', tries')
    BY <1>0, <1>1, LaterIs, HonestLater
  <2>2. Honest(y.left, tries') /\ Honest(y.kept, tries')
    BY <1>1, BlankIs DEF Honest
  <2>3. Covers(c)'
    BY <1>1 DEF Covers, Takes, Shape, TypeOK
  <2>4. \A e \in stored' : Over(e) => Over(e)'
    BY <1>1 DEF Over, serverVars
  <2> QED BY <1>0, <1>1, <2>1, <2>2, <2>3, <2>4, KeepStep DEF history
<1>2. ASSUME NEW t \in Tabs, Boot(t) PROVE KeepInv'
  BY <1>1, <1>2, BootIs DEF Calls
<1>3. ASSUME NEW t \in Tabs, Leave(t) PROVE KeepInv'
  <2>1. PICK gone \in SUBSET Calls :
          /\ \A c \in gone : Running(c) /\ Finished(c, call'[c])
          /\ \A c \in Calls \ gone : call'[c] = call[c]
          /\ stale' = stale \ gone
    BY <1>3, LeaveIs
  <2>2. UNCHANGED <<queue, serverVars, stored, raced>>
    BY <1>3, LeaveIs
  <2>3. \A c \in gone : /\ Items(call'[c].left) = {} /\ Items(call'[c].kept) = {}
                        /\ call'[c].at \in {"idle", "over"}
    BY <2>1, BlankIs DEF Finished
  <2>4. \A c \in Calls : Honest(call'[c].left, tries') /\ Honest(call'[c].kept, tries')
    BY <1>0, <2>1, <2>2, <2>3 DEF Honest, serverVars
  <2>5. \A c \in Calls \ stale' : Covers(c)'
    BY <1>0, <2>1, <2>2, <2>3 DEF Covers, Over, serverVars
  <2> QED BY <1>0, <2>2, <2>4, <2>5 DEF KeepInv, Honest, Over, serverVars
<1>4. ASSUME NEW e \in Events, Enqueue(e) PROVE KeepInv'
  <2>1. PICK q \in Seq(Item), y \in Call : /\ q = queue \/ q = <<>>
                                           /\ Reads(e, q) /\ Takes(e, y)
                                           /\ y.at = "push" /\ y.left = q /\ y.kept = <<>>
    BY <1>4, EnqueueIs
  <2>2. /\ UNCHANGED <<queue, serverVars, stored, raced>>
        /\ (q = queue /\ stale' = stale) \/ stale' = stale \cup {e}
    BY <1>4, <2>1, EnqueueIs DEF Reads
  <2>3. Later /\ Honest(queue', tries')
    BY <1>0, <2>2, LaterIs, HonestLater
  <2>4. Honest(y.left, tries') /\ Honest(y.kept, tries')
    BY <2>1, <2>2, <2>3, NoneHeld DEF Honest
  <2>5. e \notin stale' => Covers(e)'
    BY <2>1, <2>2 DEF Covers, Takes, Shape, TypeOK
  <2>6. \A f \in stored' : Over(f) => Over(f)'
    BY <2>2 DEF Over, serverVars
  <2> QED BY <1>0, <2>1, <2>2, <2>3, <2>4, <2>5, <2>6, KeepStep
<1>5. ASSUME NEW e \in Events, Push(e) PROVE KeepInv'
  <2>1. PICK y : Takes(e, y) /\ y.at = "flush" /\ Blank(y)
    BY <1>5, PushIs
  <2>0. PICK new : new = Append(call[e].left, Fresh(e))
    OBVIOUS
  <2>2. /\ e \in Calls /\ call[e].at = "push" /\ call[e].left \in Seq(Item) /\ Fresh(e) \in Item
        /\ Fresh(e).attempts = 0 /\ Fresh(e).event = e /\ UNCHANGED serverVars
    BY <1>5, CallIs, PushIs DEF Calls
  <2>3. Items(new) = Items(call[e].left) \cup {Fresh(e)}
    BY <2>0, <2>2, ItemsAppend
  <2>4. \/ Writes(e, new) /\ stored' = stored \cup {e}
        \/ WriteFails(e) /\ UNCHANGED stored
    BY <1>5, <2>0, PushIs
  <2>5. tries[e] \in Nat /\ UNCHANGED <<tries, recorded, told>>
    BY <2>2 DEF Shape, TypeOK, serverVars
  <2>6. Later /\ Honest(new, tries')
    <3>1. Later
      BY <2>2, LaterIs
    <3>2. \A x \in Items(call[e].left) : x.attempts <= tries'[x.event]
      BY <1>0, <2>2, <2>5 DEF Honest
    <3> QED BY <2>2, <2>3, <2>5, <3>1, <3>2 DEF Honest
  <2>7. Honest(y.left, tries') /\ Honest(y.kept, tries') /\ Covers(e)'
    BY <2>1, BlankIs DEF Honest, Covers, Takes, Shape, TypeOK
  <2>8. \A f : Over(f) => Over(f)'
    BY <2>5 DEF Over
  <2>9. CASE Writes(e, new) /\ stored' = stored \cup {e}
    <3>1. queue' = new /\ raced' = (raced \/ e \in stale) /\ \A d \in Calls \ {e} : HoldsCopy(d) => d \in stale'
      BY <2>9 DEF Writes
    <3>2. e \notin stale => call[e].left = queue
      BY <1>0, <2>2 DEF Covers
    <3>3. \A f : Holds(new, f) <=> Holds(call[e].left, f) \/ f = e
      BY <2>2, <2>3 DEF Holds
    <3>4. ASSUME ~ raced' PROVE \A f \in stored' : Holds(queue', f) \/ Over(f)'
      BY <1>0, <2>8, <2>9, <3>1, <3>2, <3>3, <3>4
    <3>5. Honest(queue', tries')
      BY <2>6, <3>1 DEF Honest
    <3> QED BY <2>1, <2>6, <2>7, <3>1, <3>4, <3>5, KeepStep
  <2>10. CASE WriteFails(e) /\ UNCHANGED stored
    <3>1. UNCHANGED <<queue, raced>> /\ stale' = stale \ {e}
      BY <2>10 DEF WriteFails
    <3>2. Honest(queue', tries')
      BY <1>0, <2>6, <3>1, HonestLater
    <3> QED BY <1>0, <2>1, <2>6, <2>7, <2>8, <2>10, <3>1, <3>2, KeepStep
  <2> QED BY <2>4, <2>9, <2>10
<1>6. ASSUME NEW c \in Calls, Flush(c) PROVE KeepInv'
  <2>0. UNCHANGED <<serverVars, stored>>
    BY <1>6, FlushIs
  <2>1. CASE (\E y : Takes(c, y) /\ Finished(c, y)) /\ UNCHANGED <<queue, history>>
    BY <1>1, <2>0, <2>1 DEF Finished
  <2>2. CASE \E q \in Seq(Item), y \in Call : /\ q = queue /\ Reads(c, q) /\ Takes(c, y)
                                              /\ y.at = "items" /\ y.left = q /\ y.kept = <<>>
    <3>1. PICK y : /\ Reads(c, queue) /\ Takes(c, y)
                   /\ y.at = "items" /\ y.left = queue /\ y.kept = <<>>
      BY <2>2
    <3>2. UNCHANGED <<queue, raced>> /\ \A d \in Calls : d \in stale => d \in stale'
      BY <3>1 DEF Reads
    <3>3. Later /\ Honest(queue', tries')
      BY <1>0, <2>0, <3>2, LaterIs, HonestLater
    <3>4. Honest(y.left, tries') /\ Honest(y.kept, tries')
      BY <3>1, <3>2, <3>3, NoneHeld DEF Honest
    <3>5. Covers(c)'
      BY <3>1, <3>2 DEF Covers, Takes, Shape, TypeOK, Holds
    <3>6. \A f \in stored' : Over(f) => Over(f)'
      BY <2>0 DEF Over, serverVars
    <3> QED BY <1>0, <2>0, <3>1, <3>2, <3>3, <3>4, <3>5, <3>6, KeepStep
  <2> QED BY <1>6, <2>1, <2>2, FlushIs
<1>7. ASSUME NEW c \in Calls, NotDue(c) \/ Delivered(c) \/ NotDelivered(c) PROVE KeepInv'
  <2>0. PICK item : item = Head(call[c].left)
    OBVIOUS
  <2> DEFINE tried == tries' = [tries EXCEPT ![item.event] = @ + 1]
  <2>1. /\ call[c].at = "items" /\ UNCHANGED <<queue, history>>
        /\ \E y : /\ Takes(c, y) /\ y.left = Tail(call[c].left) /\ y.at \in {"write", "items"}
                  /\ \/ y.kept = Append(call[c].kept, item) /\ UNCHANGED serverVars
                     \/ /\ y.kept = call[c].kept /\ tried
                        /\ recorded' = recorded \cup {item.event}
                     \/ /\ y.kept = call[c].kept /\ item.attempts + 1 >= MaxAttempts /\ tried
                        /\ recorded' \in {recorded, recorded \cup {item.event}}
                     \/ \E x \in Item :
                          /\ y.kept = Append(call[c].kept, x) /\ tried
                          /\ x.event = item.event /\ x.attempts = item.attempts + 1
                          /\ recorded' \in {recorded, recorded \cup {item.event}}
    BY <1>7, <2>0, HandleIs
  <2>2. PICK y : /\ Takes(c, y) /\ y.left = Tail(call[c].left) /\ y.at \in {"write", "items"}
                 /\ \/ y.kept = Append(call[c].kept, item) /\ UNCHANGED serverVars
                    \/ /\ y.kept = call[c].kept /\ tried
                       /\ recorded' = recorded \cup {item.event}
                    \/ /\ y.kept = call[c].kept /\ item.attempts + 1 >= MaxAttempts /\ tried
                       /\ recorded' \in {recorded, recorded \cup {item.event}}
                    \/ \E x \in Item :
                         /\ y.kept = Append(call[c].kept, x) /\ tried
                         /\ x.event = item.event /\ x.attempts = item.attempts + 1
                         /\ recorded' \in {recorded, recorded \cup {item.event}}
    BY <2>1
  <2>3. /\ item \in Item /\ item.event \in Events /\ item.attempts \in Nat
        /\ Items(call[c].left) = {item} \cup Items(Tail(call[c].left))
    BY <2>0, <2>1, HeadIs
  <2>4. /\ call[c].kept \in Seq(Item) /\ Honest(call[c].kept, tries) /\ Honest(call[c].left, tries)
        /\ c \notin stale => Covers(c)
    BY <1>0, CallIs
  <2>5. tries \in [Events -> Nat]
    BY DEF Shape, TypeOK
  <2>6. Later
    <3>1. UNCHANGED serverVars \/ (tried /\ recorded \subseteq recorded')
      BY <2>2
    <3> QED BY <2>3, <3>1, LaterIs
  <2>7. item.attempts <= tries[item.event] /\ tries[item.event] <= tries'[item.event]
    BY <2>3, <2>4, <2>6 DEF Honest, Later
  <2>8. Honest(call[c].kept, tries') /\ Honest(queue', tries')
    BY <1>0, <2>1, <2>4, <2>6, HonestLater
  <2>9. \A x \in Items(y.left) : x \in Items(call[c].left)
    BY <2>0, <2>2, <2>3
  <2>10. Honest(y.left, tries')
    <3>1. \A x \in Items(call[c].left) : x.event \in Events /\ x.attempts \in Nat /\ x.attempts <= tries[x.event]
      BY <2>4, CallIs, ItemsAre DEF Honest
    <3>2. \A e \in Events : tries[e] \in Nat /\ tries'[e] \in Nat /\ tries[e] <= tries'[e]
      BY <2>5, <2>6 DEF Later
    <3> QED BY <2>9, <3>1, <3>2 DEF Honest
  <2>11. /\ \A x \in Items(y.kept) : x \in Items(call[c].kept) \/ x.attempts <= tries'[x.event]
         /\ \A x \in Items(call[c].kept) : x \in Items(y.kept)
         /\ Holds(y.kept, item.event) \/ Over(item.event)'
    <3>1. CASE y.kept = Append(call[c].kept, item) /\ UNCHANGED serverVars
      <4>1. Items(y.kept) = Items(call[c].kept) \cup {item} /\ tries' = tries
        BY <2>3, <2>4, <3>1, ItemsAppend DEF serverVars
      <4> QED BY <2>7, <4>1 DEF Holds
    <3>2. CASE y.kept = call[c].kept /\ recorded' = recorded \cup {item.event}
      BY <3>2 DEF Over
    <3>3. CASE y.kept = call[c].kept /\ item.attempts + 1 >= MaxAttempts /\ tried
      <4>1. tries'[item.event] = tries[item.event] + 1 /\ tries[item.event] \in Nat
        BY <2>3, <2>5, <3>3
      <4>2. tries'[item.event] >= MaxAttempts
        BY <2>3, <2>7, <3>3, <4>1, QueueAssumption
      <4> QED BY <3>3, <4>2 DEF Over
    <3>4. ASSUME NEW x \in Item, y.kept = Append(call[c].kept, x), tried,
                 x.event = item.event, x.attempts = item.attempts + 1
          PROVE  /\ \A z \in Items(y.kept) : z \in Items(call[c].kept) \/ z.attempts <= tries'[z.event]
                 /\ \A z \in Items(call[c].kept) : z \in Items(y.kept)
                 /\ Holds(y.kept, item.event)
      <4>1. Items(y.kept) = Items(call[c].kept) \cup {x}
        BY <2>4, <3>4, ItemsAppend
      <4>2. tries'[item.event] = tries[item.event] + 1 /\ tries[item.event] \in Nat
        BY <2>3, <2>5, <3>4
      <4>3. x.attempts <= tries'[x.event]
        BY <2>3, <2>7, <3>4, <4>2
      <4> QED BY <3>4, <4>1, <4>3 DEF Holds
    <3> HIDE DEF tried
    <3> QED BY <2>2, <3>1, <3>2, <3>3, <3>4
  <2>12. Honest(y.kept, tries')
    BY <2>8, <2>11 DEF Honest
  <2>13. ASSUME c \notin stale' PROVE Covers(c)'
    <3>1. call'[c] = y /\ queue' = queue /\ c \notin stale
      BY <2>1, <2>2, <2>13 DEF Takes, Shape, TypeOK, history
    <3>2. ASSUME NEW x \in Items(queue)
          PROVE  Holds(y.left, x.event) \/ Holds(y.kept, x.event) \/ Over(x.event)'
      <4>1. x.event \in Events
        BY <1>0, ItemsAre
      <4>2. Holds(call[c].left, x.event) \/ Holds(call[c].kept, x.event) \/ Over(x.event)
        BY <2>1, <2>4, <3>1 DEF Covers
      <4>3. Holds(call[c].left, x.event) => x.event = item.event \/ Holds(y.left, x.event)
        BY <2>2, <2>3 DEF Holds
      <4>4. Holds(call[c].kept, x.event) => Holds(y.kept, x.event)
        BY <2>11 DEF Holds
      <4>5. Over(x.event) => Over(x.event)'
        BY <2>6, <4>1 DEF Later
      <4> QED BY <2>11, <4>2, <4>3, <4>4, <4>5
    <3> QED BY <2>2, <3>1, <3>2 DEF Covers
  <2>14. \A f \in stored : Over(f) => Over(f)'
    BY <2>6 DEF Later, Shape, TypeOK
  <2>15. UNCHANGED <<queue, stored, stale, raced>>
    BY <2>1 DEF history
  <2> QED BY <1>0, <2>2, <2>6, <2>8, <2>10, <2>12, <2>13, <2>14, <2>15, KeepStep
<1>8. ASSUME NEW c \in Calls, WriteBack(c) PROVE KeepInv'
  <2>1. PICK y : Takes(c, y) /\ Blank(y) /\ (y.at = "count" \/ Finished(c, y))
    BY <1>8, WriteBackIs
  <2>2. /\ call[c].at = "write" /\ call[c].left = <<>> /\ UNCHANGED <<serverVars, stored>>
        /\ call[c].kept \in Seq(Item)
        /\ Writes(c, call[c].kept) \/ WriteFails(c)
    BY <1>8, WriteBackIs, CallIs
  <2>3. y.at \in {"count", "idle", "over"}
    BY <2>1 DEF Finished
  <2>4. Later /\ Honest(call[c].kept, tries') /\ Honest(queue, tries)
    <3>1. Later
      BY <2>2, LaterIs
    <3> QED BY <1>0, <2>2, <3>1, HonestLater
  <2>5. \A f : Over(f) => Over(f)'
    BY <2>2 DEF Over, serverVars
  <2>6. Covers(c)' /\ Honest(y.left, tries') /\ Honest(y.kept, tries')
    BY <2>1, <2>3, BlankIs DEF Covers, Honest, Takes, Shape, TypeOK
  <2>7. CASE Writes(c, call[c].kept)
    <3>1. /\ queue' = call[c].kept /\ raced' = (raced \/ c \in stale)
          /\ \A d \in Calls \ {c} : HoldsCopy(d) => d \in stale'
      BY <2>7 DEF Writes
    <3>2. ASSUME c \notin stale, NEW f, Holds(queue, f) PROVE Holds(call[c].kept, f) \/ Over(f)
      <4>1. Covers(c) /\ ~ Holds(call[c].left, f)
        BY <1>0, <2>2, <3>2, NoneHeld
      <4> QED BY <2>2, <3>2, <4>1 DEF Covers, Holds
    <3>3. ASSUME ~ raced' PROVE \A f \in stored' : Holds(queue', f) \/ Over(f)'
      BY <1>0, <2>2, <2>5, <3>1, <3>2, <3>3
    <3>4. Honest(queue', tries')
      BY <2>4, <3>1
    <3> QED BY <2>1, <2>4, <2>6, <3>1, <3>3, <3>4, KeepStep
  <2>8. CASE WriteFails(c)
    <3>1. UNCHANGED <<queue, raced>> /\ stale' = stale \ {c}
      BY <2>8 DEF WriteFails
    <3>2. Honest(queue', tries')
      BY <1>0, <2>4, <3>1, HonestLater
    <3> QED BY <1>0, <2>1, <2>2, <2>4, <2>5, <2>6, <3>1, <3>2, KeepStep
  <2> QED BY <2>2, <2>7, <2>8
<1>9. ASSUME NEW c \in Calls, CountSent(c) PROVE KeepInv'
  BY <1>1, <1>9, CountIs
<1>10. ASSUME NEW c \in Calls, BumpSent(c) PROVE KeepInv'
  BY <1>1, <1>10, BumpIs DEF Finished
<1>11. CASE UNCHANGED vars
  BY <1>11 DEF vars, serverVars, history, KeepInv, Honest, Covers, Over
<1> QED
  BY <1>2, <1>3, <1>4, <1>5, <1>6, <1>7, <1>8, <1>9, <1>10, <1>11 DEF Next, FlushStep

\* "La file survit aux rechargements de page" (telemetryQueue.ts): pages may close at any await,
\* flushes overlap and the storage reject calls. An event that reached the queue is there still,
\* or recorded, or attempted as often as allowed, unless a call wrote over a queue it had not read.
THEOREM EventsAreKept == Spec => []KeptWithoutRace
<1>1. KeepInv => KeptWithoutRace
  BY DEF KeepInv, KeptWithoutRace, Settled, Holds, Items, Over
<1> QED BY <1>1, ShapeInit, ShapeNext, KeepInit, KeepNext, PTL DEF Spec

-----------------------------------------------------------------------------
(* The count of deliveries.                                                *)

\* Confirmed deliveries, by their number, are shared out: those a call has still to count, and
\* those the counter, or a sum about to be written, already counts. No two calls own the same.
Share(own, counted) ==
  /\ own \in [Calls -> SUBSET (1 .. told)] /\ counted \in SUBSET (1 .. told)
  /\ \A c \in Calls : own[c] \cap counted = {} /\ \A d \in Calls \ {c} : own[c] \cap own[d] = {}
  /\ \A c \in Calls : call[c].sent <= Cardinality(IF call[c].at = "bump" THEN counted ELSE own[c])
  /\ stats <= Cardinality(counted)

SentInv == \E own, counted : Share(own, counted)

LEMMA Confirmed ==
  ASSUME NEW n \in Nat, NEW s \in SUBSET (1 .. n)
  PROVE  IsFiniteSet(s) /\ Cardinality(s) \in Nat /\ Cardinality(s) <= n
<1>1. IsFiniteSet(1 .. n) /\ Cardinality(1 .. n) <= n
  BY FS_Interval
<1>2. Cardinality(1 .. n) \in Nat
  BY <1>1, FS_CardinalityType
<1>3. IsFiniteSet(s) /\ Cardinality(s) <= Cardinality(1 .. n)
  BY <1>1, FS_Subset
<1>4. Cardinality(s) \in Nat
  BY <1>3, FS_CardinalityType
<1> QED BY <1>1, <1>2, <1>3, <1>4

\* A delivery more.
LEMMA OneMore ==
  ASSUME NEW n \in Nat, NEW s \in SUBSET (1 .. n)
  PROVE  /\ s \cup {n + 1} \in SUBSET (1 .. n + 1)
         /\ Cardinality(s \cup {n + 1}) = Cardinality(s) + 1
<1>1. IsFiniteSet(s) /\ n + 1 \notin s
  BY Confirmed
<1> QED BY <1>1, FS_AddElement

\* Two shares made one.
LEMMA BothCount ==
  ASSUME NEW n \in Nat, NEW s \in SUBSET (1 .. n), NEW r \in SUBSET (1 .. n), s \cap r = {}
  PROVE  /\ s \cup r \in SUBSET (1 .. n) /\ Cardinality(s \cup r) = Cardinality(s) + Cardinality(r)
         /\ Cardinality(s) \in Nat /\ Cardinality(r) \in Nat /\ Cardinality(s) <= Cardinality(s \cup r)
<1>1. IsFiniteSet(s) /\ IsFiniteSet(r) /\ Cardinality(s) \in Nat /\ Cardinality(r) \in Nat
  BY Confirmed
<1>2. Cardinality(s \cup r) = Cardinality(s) + Cardinality(r) - Cardinality(s \cap r)
  BY <1>1, FS_Union
<1>3. Cardinality(s \cap r) = 0
  BY FS_EmptySet
<1> QED BY <1>1, <1>2, <1>3

LEMMA SentInit == Init => SentInv
<1> SUFFICES ASSUME Init PROVE SentInv
  OBVIOUS
<1>1. \A c \in Calls : call[c].sent = 0 /\ call[c].at = "idle"
  BY AtIs DEF Init, Step
<1>2. Cardinality({}) = 0 /\ stats = 0 /\ told = 0
  BY FS_EmptySet DEF Init
<1>3. Share([c \in Calls |-> {}], {})
  BY <1>1, <1>2 DEF Share
<1> QED BY <1>3 DEF SentInv

\* A step of a call that counts no more than it did.
LEMMA SentStep ==
  ASSUME Shape, SentInv, NEW c, NEW y, Takes(c, y), UNCHANGED <<stats, told>>,
         y.sent = 0 \/ (y.sent = call[c].sent /\ y.at # "bump" /\ call[c].at # "bump")
  PROVE  SentInv'
<1>1. PICK own, counted : Share(own, counted)
  BY DEF SentInv
<1>2. c \in Calls /\ call'[c] = y /\ \A d \in Calls \ {c} : call'[d] = call[d]
  BY DEF Takes, Shape, TypeOK
<1>0. told \in Nat
  BY DEF Shape, TypeOK
<1>3. ASSUME NEW s \in SUBSET (1 .. told) PROVE 0 <= Cardinality(s)
  <2>1. Cardinality(s) \in Nat
    BY <1>0, Confirmed
  <2> QED BY <2>1
<1>4. y.sent <= Cardinality(IF y.at = "bump" THEN counted ELSE own[c])
  BY <1>1, <1>2, <1>3 DEF Share
<1>5. Share(own, counted)'
  BY <1>1, <1>2, <1>4 DEF Share
<1> QED BY <1>5 DEF SentInv

LEMMA SentNext == Shape /\ SentInv /\ [Next]_vars => SentInv'
<1> SUFFICES ASSUME Shape, SentInv, [Next]_vars PROVE SentInv'
  OBVIOUS
<1>0. told \in Nat /\ stats \in Nat
  BY DEF Shape, TypeOK
<1>1. PICK own, counted : Share(own, counted)
  BY DEF SentInv
<1>2. ASSUME NEW t \in Tabs, Boot(t) PROVE SentInv'
  <2>1. PICK y : Takes(t, y) /\ y.sent = 0
    BY <1>2, BootIs
  <2>2. UNCHANGED <<stats, told>>
    BY <1>2, BootIs DEF serverVars
  <2> QED BY <2>1, <2>2, SentStep
<1>3. ASSUME NEW t \in Tabs, Leave(t) PROVE SentInv'
  <2>1. PICK gone \in SUBSET Calls :
          /\ \A c \in gone : Finished(c, call'[c])
          /\ \A c \in Calls \ gone : call'[c] = call[c]
    BY <1>3, LeaveIs
  <2>2. UNCHANGED <<stats, told>>
    BY <1>3, LeaveIs DEF serverVars
  <2>3. \A s \in SUBSET (1 .. told) : 0 <= Cardinality(s)
    BY <1>0, Confirmed
  <2>4. \A c \in Calls : call'[c].sent <= Cardinality(IF call'[c].at = "bump" THEN counted ELSE own[c])
    BY <1>1, <2>1, <2>3 DEF Share, Finished
  <2>5. Share(own, counted)'
    BY <1>1, <2>2, <2>4 DEF Share
  <2> QED BY <2>5 DEF SentInv
<1>4. ASSUME NEW e \in Events, Enqueue(e) PROVE SentInv'
  BY <1>4, EnqueueIs, SentStep DEF serverVars
<1>5. ASSUME NEW e \in Events, Push(e) PROVE SentInv'
  BY <1>5, PushIs, SentStep DEF serverVars
<1>6. ASSUME NEW c \in Calls, Flush(c) PROVE SentInv'
  BY <1>6, FlushIs, SentStep DEF serverVars, Finished
<1>7. ASSUME NEW c \in Calls, NotDue(c) \/ Delivered(c) \/ NotDelivered(c) PROVE SentInv'
  <2>1. /\ call[c].at = "items" /\ UNCHANGED stats
        /\ \E y : /\ Takes(c, y) /\ y.at \in {"write", "items"}
                  /\ \/ y.sent = call[c].sent /\ UNCHANGED told
                     \/ y.sent = call[c].sent + 1 /\ told' = told + 1
    BY <1>7, HandleIs DEF serverVars
  <2>2. PICK y : /\ Takes(c, y) /\ y.at \in {"write", "items"}
                 /\ \/ y.sent = call[c].sent /\ UNCHANGED told
                    \/ y.sent = call[c].sent + 1 /\ told' = told + 1
    BY <2>1
  <2>3. CASE y.sent = call[c].sent /\ UNCHANGED told
    BY <2>1, <2>2, <2>3, SentStep
  <2>4. CASE y.sent = call[c].sent + 1 /\ told' = told + 1
    <3>1. call'[c] = y /\ call[c].sent \in Nat /\ \A d \in Calls \ {c} : call'[d] = call[d]
      BY <2>2, CallIs DEF Takes, Shape, TypeOK
    <3>2. PICK mine : mine = [own EXCEPT ![c] = @ \cup {told + 1}]
      OBVIOUS
    <3>3. /\ own[c] \cup {told + 1} \in SUBSET (1 .. told + 1)
          /\ Cardinality(own[c] \cup {told + 1}) = Cardinality(own[c]) + 1
          /\ Cardinality(own[c]) \in Nat
      BY <1>0, <1>1, OneMore, Confirmed DEF Share
    <3>4. mine[c] = own[c] \cup {told + 1} /\ \A d \in Calls \ {c} : mine[d] = own[d]
      BY <1>1, <3>2 DEF Share
    <3>5. \A s \in SUBSET (1 .. told) : s \in SUBSET (1 .. told') /\ told + 1 \notin s
      BY <1>0, <2>4
    <3>6. mine \in [Calls -> SUBSET (1 .. told')] /\ counted \in SUBSET (1 .. told')
      BY <1>1, <2>4, <3>2, <3>3, <3>5 DEF Share
    <3>7. \A d \in Calls : mine[d] \cap counted = {} /\ \A b \in Calls \ {d} : mine[d] \cap mine[b] = {}
      <4>1. \A d \in Calls : own[d] \in SUBSET (1 .. told)
        BY <1>1 DEF Share
      <4>2. told + 1 \notin counted /\ \A d \in Calls : told + 1 \notin own[d]
        BY <1>1, <3>5, <4>1 DEF Share
      <4>3. \A d \in Calls : own[d] \cap counted = {} /\ \A b \in Calls \ {d} : own[d] \cap own[b] = {}
        BY <1>1 DEF Share
      <4> QED BY <3>4, <4>2, <4>3
    <3>8. \A d \in Calls : call'[d].sent <= Cardinality(IF call'[d].at = "bump" THEN counted ELSE mine[d])
      <4>1. call[c].sent <= Cardinality(own[c])
        BY <1>1, <2>1 DEF Share
      <4>2. y.sent <= Cardinality(mine[c])
        BY <2>4, <3>1, <3>3, <3>4, <4>1
      <4>3. ASSUME NEW d \in Calls \ {c}
            PROVE  call'[d].sent <= Cardinality(IF call'[d].at = "bump" THEN counted ELSE mine[d])
        BY <1>1, <3>1, <3>4 DEF Share
      <4> QED BY <2>2, <3>1, <4>2, <4>3
    <3>9. Share(mine, counted)'
      BY <1>1, <2>1, <3>6, <3>7, <3>8 DEF Share
    <3> QED BY <3>9 DEF SentInv
  <2> QED BY <2>2, <2>3, <2>4
<1>8. ASSUME NEW c \in Calls, WriteBack(c) PROVE SentInv'
  <2>1. PICK y : Takes(c, y) /\ (y.sent = 0 \/ (y.sent = call[c].sent /\ y.at # "bump"))
    BY <1>8, WriteBackIs DEF Finished
  <2>2. call[c].at = "write" /\ UNCHANGED <<stats, told>>
    BY <1>8, WriteBackIs DEF serverVars
  <2> QED BY <2>1, <2>2, SentStep
<1>9. ASSUME NEW c \in Calls, CountSent(c) PROVE SentInv'
  <2>1. PICK read \in {stats, 0}, y \in Call : Takes(c, y) /\ y.at = "bump" /\ y.sent = read + call[c].sent
    BY <1>9, CountIs
  <2>2. call[c].at = "count" /\ UNCHANGED <<stats, told>> /\ call[c].sent \in Nat
    BY <1>9, CountIs, CallIs DEF serverVars
  <2>3. call'[c] = y /\ \A d \in Calls \ {c} : call'[d] = call[d]
    BY <2>1 DEF Takes, Shape, TypeOK
  <2>4. PICK mine : mine = [own EXCEPT ![c] = {}]
    OBVIOUS
  <2>5. PICK both : both = counted \cup own[c]
    OBVIOUS
  <2>6. /\ own \in [Calls -> SUBSET (1 .. told)] /\ counted \in SUBSET (1 .. told)
        /\ \A d \in Calls : own[d] \cap counted = {} /\ \A b \in Calls \ {d} : own[d] \cap own[b] = {}
    BY <1>1 DEF Share
  <2>7. mine \in [Calls -> SUBSET (1 .. told)] /\ mine[c] = {} /\ \A d \in Calls \ {c} : mine[d] = own[d]
    BY <2>4, <2>6
  <2>8. /\ both \in SUBSET (1 .. told) /\ Cardinality(both) = Cardinality(counted) + Cardinality(own[c])
        /\ Cardinality(counted) \in Nat /\ Cardinality(own[c]) \in Nat
    BY <1>0, <2>5, <2>6, BothCount
  <2>9. \A d \in Calls : mine[d] \cap both = {} /\ \A b \in Calls \ {d} : mine[d] \cap mine[b] = {}
    BY <2>5, <2>6, <2>7
  <2>10. stats <= Cardinality(both) /\ y.sent <= Cardinality(both)
    <3>1. stats <= Cardinality(counted) /\ call[c].sent <= Cardinality(own[c])
      BY <1>1, <2>2 DEF Share
    <3> QED BY <1>0, <2>1, <2>2, <2>8, <3>1
  <2>11. \A d \in Calls : call'[d].sent <= Cardinality(IF call'[d].at = "bump" THEN both ELSE mine[d])
    <3>1. ASSUME NEW d \in Calls \ {c}
          PROVE  call[d].sent <= Cardinality(IF call[d].at = "bump" THEN both ELSE mine[d])
      <4>1. call[d].sent <= Cardinality(IF call[d].at = "bump" THEN counted ELSE own[d])
        BY <1>1 DEF Share
      <4>2. call[d].sent \in Nat
        BY CallIs
      <4> QED BY <2>7, <2>8, <4>1, <4>2
    <3> QED BY <2>1, <2>3, <2>10, <3>1
  <2>12. Share(mine, both)'
    BY <2>2, <2>7, <2>8, <2>9, <2>10, <2>11 DEF Share
  <2> QED BY <2>12 DEF SentInv
<1>10. ASSUME NEW c \in Calls, BumpSent(c) PROVE SentInv'
  <2>1. PICK y : Takes(c, y) /\ y.sent = 0 /\ y.at # "bump"
    BY <1>10, BumpIs DEF Finished
  <2>2. call[c].at = "bump" /\ stats' \in {stats, call[c].sent} /\ UNCHANGED told
    BY <1>10, BumpIs DEF serverVars
  <2>3. call'[c] = y /\ \A d \in Calls \ {c} : call'[d] = call[d]
    BY <2>1 DEF Takes, Shape, TypeOK
  <2>4. \A s \in SUBSET (1 .. told) : 0 <= Cardinality(s)
    BY <1>0, Confirmed
  <2>5. stats' <= Cardinality(counted)
    BY <1>1, <2>2 DEF Share
  <2>6. \A d \in Calls : call'[d].sent <= Cardinality(IF call'[d].at = "bump" THEN counted ELSE own[d])
    BY <1>1, <2>1, <2>3, <2>4 DEF Share
  <2>7. Share(own, counted)'
    BY <1>1, <2>2, <2>5, <2>6 DEF Share
  <2> QED BY <2>7 DEF SentInv
<1>11. CASE UNCHANGED vars
  BY <1>1, <1>11 DEF vars, serverVars, SentInv, Share
<1> QED
  BY <1>2, <1>3, <1>4, <1>5, <1>6, <1>7, <1>8, <1>9, <1>10, <1>11 DEF Next, FlushStep

\* The count the popup shows (bumpSent) is at most the deliveries the server confirmed, however the
\* increments of several tabs interleave: some are lost, none is counted twice.
THEOREM SentIsNotOverstated == Spec => []SentNeverOverstated
<1>1. Shape /\ SentInv => SentNeverOverstated
  <2> SUFFICES ASSUME Shape, SentInv PROVE stats <= told
    BY DEF SentNeverOverstated
  <2>1. PICK counted \in SUBSET (1 .. told) : stats <= Cardinality(counted)
    BY DEF SentInv, Share
  <2>2. Cardinality(counted) \in Nat /\ Cardinality(counted) <= told /\ stats \in Nat /\ told \in Nat
    BY Confirmed DEF Shape, TypeOK
  <2> QED BY <2>1, <2>2
<1> QED BY <1>1, ShapeInit, ShapeNext, SentInit, SentNext, PTL DEF Spec

=============================================================================
