----------------------------- MODULE ConversationProofs -----------------------------
(***************************************************************************)
(* Proofs about Observe and Stop, for every conversation, page size and    *)
(* limit of pages, whatever AO lists on a page and whether or not it       *)
(* ignores the cursor.                                                     *)
(***************************************************************************)
EXTENDS Conversation, WellFoundedInduction, TLAPS

Items == [turn: Turns, says: Says]

\* Turn t begins with item i.
First(i, t) ==
  /\ i \in 1..Len(items) /\ items[i].turn = t
  /\ \A j \in 1..(i - 1) : items[j].turn # t

\* Turn t begins on a page that has not been read.
Ahead(t) == call.before = 0 \/ \E i \in 1..(call.before - 1) : First(i, t)

\* Turn t has an item for which AO lists it on a page that has been read.
Behind(t) ==
  \E i \in 1..Len(items) :
    i >= call.before /\ items[i].turn = t /\ (ao.lists = "byStart" => First(i, t))

Listed(t) == \E n \in Nat : <<n, t>> \in call.live
Twice(t) == \E i, j \in Own(t) : i # j

TurnInv ==
  \A t \in Turns :
    /\ status[t] = "unborn" => \A i \in 1..Len(items) : items[i].turn # t
    /\ status[t] # "unborn" => \E i \in 1..Len(items) : First(i, t)

AuxInv ==
  /\ call.at = "idle" => steady = {} /\ met = {}
  /\ call.at # "idle" => steady \subseteq Live /\ Live \subseteq met
  /\ call.known => status[Target] # "unborn"

CursorInv ==
  /\ call.at \in {"session", "page"} => call.live = {}
  /\ call.at \in {"session", "page", "live"} =>
       call.before = 0 \/ call.before \in 2..(Len(items) - PageSize + 1)
  /\ call.at \in {"session", "page"} /\ call.known => Ahead(Target)

\* While the live turns are listed.
ListInv ==
  call.at = "live" =>
    /\ call.op = "stop"
    /\ call.before = 0 => call.live = {}
    /\ \A t \in steady : Listed(t) \/ Ahead(t)
    /\ \A n \in Nat, t \in Turns : <<n, t>> \in call.live =>
         /\ n < call.pages /\ t \in met /\ Behind(t)
         /\ \A k \in Nat : <<k, t>> \in call.live /\ k # n => ao.lists = "byItem" /\ Twice(t)

ConvInv == TypeOK /\ TurnInv /\ AuxInv /\ CursorInv /\ ListInv /\ StopSparesRunningTurns

----------------------------------------------------------------------------
(* Numbers and turns. *)

LEMMA Least ==
  ASSUME NEW T, T \subseteq Nat, T # {}
  PROVE  \E x \in T : \A y \in T : x <= y
<1> DEFINE R == OpToRel(<, Nat)
<1>1. IsWellFoundedOn(R, Nat)
  BY NatLessThanWellFounded
<1>2. \A x, y \in Nat : x < y => <<x, y>> \in R
  BY DEF OpToRel
<1> HIDE DEF R
<1>3. PICK x \in T : \A y \in T : <<y, x>> \notin R
  BY <1>1, WFMin
<1>4. ASSUME NEW y \in T PROVE x <= y
  <2>1. x \in Nat /\ y \in Nat /\ ~(y < x)
    BY <1>2, <1>3
  <2> QED
    BY <2>1
<1> QED
  BY <1>4

LEMMA Greatest ==
  ASSUME NEW n \in Nat, NEW T, T \subseteq 1..n, T # {}
  PROVE  \E x \in T : \A y \in T : y <= x
<1> DEFINE U == {n - x : x \in T}
<1>1. U \subseteq Nat
  <2> SUFFICES ASSUME NEW x \in T PROVE n - x \in Nat
    OBVIOUS
  <2>1. x \in 1..n
    OBVIOUS
  <2> QED
    BY <2>1
<1>2. PICK u \in U : \A v \in U : u <= v
  <2>1. U # {}
    OBVIOUS
  <2> HIDE DEF U
  <2> QED
    BY <1>1, <2>1, Least
<1>3. PICK x \in T : u = n - x
  BY <1>2
<1>4. ASSUME NEW y \in T PROVE y <= x
  <2>1. n - x <= n - y
    BY <1>2, <1>3
  <2>2. x \in 1..n /\ y \in 1..n
    OBVIOUS
  <2> QED
    BY <2>1, <2>2
<1> QED
  BY <1>4

LEMMA Bounds == PageSize \in Nat \ {0} /\ MaxPages \in Nat \ {0} /\ MaxItems \in Nat \ {0}
BY BoundsAssumption

LEMMA ItemTypes ==
  ASSUME TypeOK
  PROVE  /\ items \in Seq(Items) /\ Len(items) \in Nat
         /\ \A i \in 1..Len(items) : items[i] \in Items /\ items[i].turn \in Turns
<1>1. items \in Seq(Items)
  BY DEF TypeOK, Items
<1>2. \A i \in 1..Len(items) : items[i] \in Items
  BY <1>1
<1>3. \A e \in Items : e.turn \in Turns
  BY DEF Items
<1> QED
  BY <1>1, <1>2, <1>3

\* A turn begins once, where Start says.
LEMMA StartIs ==
  ASSUME TypeOK, NEW t \in Turns, NEW i, First(i, t)
  PROVE  Start(t) = i /\ \A j : First(j, t) => j = i
<1>1. ASSUME NEW j, First(j, t) PROVE j = i
  <2>1. i \in Nat /\ j \in Nat /\ ~(i < j) /\ ~(j < i)
    BY <1>1, ItemTypes DEF First
  <2> QED
    BY <2>1
<1>2. Start(t) = CHOOSE j \in 1..Len(items) : First(j, t)
  BY DEF Start, First
<1>3. First(i, t) /\ i \in 1..Len(items)
  BY DEF First
<1>4. \E j \in 1..Len(items) : First(j, t)
  BY <1>3
<1>5. First(Start(t), t)
  BY <1>2, <1>4
<1> QED
  BY <1>1, <1>5

----------------------------------------------------------------------------
(* Pages. *)

CursorOK(b) == b = 0 \/ b \in 2..(Len(items) - PageSize + 1)

\* Which items a page has.
LEMMA PageSpan ==
  ASSUME TypeOK, NEW b, CursorOK(b)
  PROVE  \E newest, oldest \in Nat :
           /\ Page(b).span = oldest..newest
           /\ Page(b).more <=> oldest > 1
           /\ newest > 0 => Page(b).oldest = oldest
           /\ newest = 0 => Page(b).oldest = 0 /\ oldest = 1
           /\ newest <= Len(items) /\ oldest >= 1
           /\ oldest > 1 => oldest + PageSize = newest + 1
           /\ b = 0 \/ ao.sticky => newest = Len(items)
           /\ b # 0 /\ ~ao.sticky => newest + 1 = b
           /\ b # 0 /\ ao.sticky => oldest >= b
<1> DEFINE newest == IF b = 0 \/ ao.sticky THEN Len(items) ELSE b - 1
           oldest == IF newest > PageSize THEN newest - PageSize + 1 ELSE 1
<1>1. Len(items) \in Nat /\ PageSize \in Nat \ {0}
  BY ItemTypes, Bounds
<1>2. newest \in Nat /\ oldest \in Nat /\ newest <= Len(items) /\ oldest >= 1
  BY <1>1 DEF CursorOK
<1>3. /\ Page(b).span = oldest..newest
      /\ Page(b).more <=> oldest > 1
      /\ Page(b).oldest = IF newest = 0 THEN 0 ELSE oldest
  BY DEF Page
<1>4. /\ b = 0 \/ ao.sticky => newest = Len(items)
      /\ b # 0 /\ ~ao.sticky => newest + 1 = b
  BY <1>1 DEF CursorOK
<1>5. oldest = IF newest > PageSize THEN newest - PageSize + 1 ELSE 1
  OBVIOUS
<1> HIDE DEF newest, oldest
<1>6. oldest > 1 => oldest + PageSize = newest + 1
  BY <1>1, <1>2, <1>5
<1>7. newest = 0 => oldest = 1
  BY <1>1, <1>5
<1>8. ASSUME b # 0, ao.sticky
      PROVE  oldest >= b
  <2>1. newest = Len(items) /\ b >= 2 /\ b <= Len(items) - PageSize + 1 /\ b \in Int
    BY <1>1, <1>4, <1>8 DEF CursorOK
  <2> QED
    BY <1>1, <1>5, <2>1
<1>9. /\ Page(b).span = oldest..newest
      /\ Page(b).more <=> oldest > 1
      /\ newest > 0 => Page(b).oldest = oldest
      /\ newest = 0 => Page(b).oldest = 0
  BY <1>2, <1>3
<1> QED
  <2> USE <1>2
  <2> WITNESS newest \in Nat, oldest \in Nat
  <2> QED
    BY <1>2, <1>4, <1>6, <1>7, <1>8, <1>9

\* Which turns a page has.
LEMMA PageTurns ==
  ASSUME TypeOK, TurnInv, NEW b, NEW t \in Turns
  PROVE  /\ status[t] # "unborn" =>
              \A i \in Page(b).span : First(i, t) => t \in Page(b).turns
         /\ t \in Page(b).turns =>
              /\ status[t] # "unborn"
              /\ \E i \in Page(b).span :
                   items[i].turn = t /\ (ao.lists = "byStart" => First(i, t))
<1>1. t \in Page(b).turns <=>
        /\ status[t] # "unborn"
        /\ IF ao.lists = "byStart" THEN Start(t) \in Page(b).span
           ELSE \E i \in Page(b).span : items[i].turn = t
  BY DEF Page
<1>2. ASSUME status[t] # "unborn", NEW i \in Page(b).span, First(i, t)
      PROVE  t \in Page(b).turns
  <2>1. Start(t) = i /\ items[i].turn = t
    BY <1>2, StartIs DEF First
  <2> QED
    BY <1>1, <1>2, <2>1
<1>3. ASSUME t \in Page(b).turns
      PROVE  \E i \in Page(b).span :
               items[i].turn = t /\ (ao.lists = "byStart" => First(i, t))
  <2>1. PICK i \in 1..Len(items) : First(i, t)
    BY <1>1, <1>3 DEF TurnInv
  <2>2. Start(t) = i /\ items[i].turn = t
    BY <2>1, StartIs DEF First
  <2> QED
    BY <1>1, <1>3, <2>1, <2>2
<1> QED
  BY <1>1, <1>2, <1>3

\* A turn that begins ahead and that the page does not have begins before the page.
LEMMA NotOnPage ==
  ASSUME TypeOK, TurnInv, NEW t \in Turns, CursorOK(call.before),
         status[t] # "unborn", Ahead(t), t \notin Page(call.before).turns,
         call.before # 0 => ~ao.sticky
  PROVE  /\ Page(call.before).more
         /\ \E i \in 1..(Page(call.before).oldest - 1) : First(i, t)
<1> DEFINE b == call.before
<1>1. PICK newest, oldest \in Nat :
           /\ Page(b).span = oldest..newest
           /\ Page(b).more <=> oldest > 1
           /\ newest > 0 => Page(b).oldest = oldest
           /\ newest <= Len(items) /\ oldest >= 1
           /\ b = 0 => newest = Len(items)
           /\ b # 0 => newest + 1 = b
  BY PageSpan
<1>2. PICK i \in 1..Len(items) : First(i, t)
  BY DEF TurnInv
<1>3. i <= newest
  <2>1. CASE b = 0
    BY <1>1, <1>2, <2>1, ItemTypes
  <2>2. CASE b # 0
    <3>1. PICK j \in 1..(b - 1) : First(j, t)
      BY <2>2 DEF Ahead
    <3>2. i = j
      BY <1>2, <3>1, StartIs
    <3> QED
      BY <1>1, <2>2, <3>1, <3>2 DEF CursorOK
  <2> QED
    BY <2>1, <2>2
<1>4. i \notin oldest..newest
  BY <1>1, <1>2, PageTurns
<1>5. i < oldest /\ i >= 1 /\ newest > 0
  BY <1>1, <1>2, <1>3, <1>4, ItemTypes
<1> QED
  BY <1>1, <1>2, <1>5, ItemTypes

----------------------------------------------------------------------------
(* Calls. *)

LEMMA CallIs ==
  ASSUME NEW op \in {"observe", "stop"}
  PROVE  /\ Call(op) \in Calls /\ Call(op).op = op /\ Call(op).at = "session"
         /\ Call(op).before = 0 /\ Call(op).pages = 0 /\ Call(op).live = {}
         /\ Call(op).known = (status[Target] # "unborn")
BY Bounds DEF Call, Calls, Places, Answers

\* A call that returns.
LEMMA Returned ==
  ASSUME TypeOK, NEW answer \in Answers, NEW receipt \in Receipts \cup {"none"},
         Return(answer, receipt)
  PROVE  /\ call' \in Calls /\ call'.at = "done" /\ call'.op = call.op /\ call'.live = {}
         /\ call'.known = (status[Target] # "unborn")
         /\ call'.answer = answer /\ call'.receipt = receipt
<1>1. call.op \in {"observe", "stop"}
  BY DEF TypeOK, Calls
<1>2. call' = [Call(call.op) EXCEPT !.at = "done", !.answer = answer, !.receipt = receipt]
  BY DEF Return
<1>3. "done" \in Places
  BY DEF Places
<1> QED
  BY <1>1, <1>2, <1>3, CallIs DEF Calls

\* What a call that returns leaves to prove: the types and the turns.
LEMMA ReturnInv ==
  ASSUME ConvInv, NEW answer \in Answers, NEW receipt \in Receipts \cup {"none"},
         Return(answer, receipt), UNCHANGED <<items, fixed>>,
         status' \in [Turns -> Statuses], TurnInv', steady' \subseteq met', met' \subseteq Turns,
         steady' \subseteq Live', Live' \subseteq met',
         status[Target] = "unborn" <=> status'[Target] = "unborn"
  PROVE  ConvInv'
<1>1. /\ call' \in Calls /\ call'.at = "done"
      /\ call'.known = (status[Target] # "unborn")
  BY Returned DEF ConvInv
<1>2. TypeOK'
  BY <1>1 DEF ConvInv, TypeOK, fixed
<1>3. AuxInv' /\ CursorInv' /\ ListInv' /\ StopSparesRunningTurns'
  BY <1>1 DEF AuxInv, CursorInv, ListInv, StopSparesRunningTurns
<1> QED
  BY <1>2, <1>3 DEF ConvInv

\* The same when nothing else changes.
LEMMA QuietReturnInv ==
  ASSUME ConvInv, NEW answer \in Answers, NEW receipt \in Receipts \cup {"none"},
         Return(answer, receipt), call.at # "idle", UNCHANGED <<aoVars, fixed>>
  PROVE  ConvInv'
<1>1. /\ UNCHANGED <<items, status, steady, met, fixed>>
      /\ TurnInv' /\ Live' = Live
  BY DEF ConvInv, TurnInv, Live, First, aoVars
<1> QED
  BY <1>1, ReturnInv DEF ConvInv, TypeOK, AuxInv

LEMMA BeginInv ==
  ASSUME ConvInv, Begin
  PROVE  ConvInv'
<1>1. PICK op \in {"observe", "stop"} : call' = Call(op)
  BY DEF Begin
<1>2. /\ call' \in Calls /\ call'.at = "session" /\ call'.before = 0 /\ call'.live = {}
      /\ call'.known = (status[Target] # "unborn")
  BY <1>1, CallIs
<1>3. /\ UNCHANGED <<items, status, fixed>> /\ Live' = Live
      /\ steady' = Live /\ met' = Live /\ Live \subseteq Turns
  BY DEF Begin, Live
<1>4. TypeOK' /\ TurnInv'
  BY <1>2, <1>3 DEF ConvInv, TypeOK, TurnInv, First, fixed
<1>5. AuxInv' /\ CursorInv' /\ ListInv' /\ StopSparesRunningTurns'
  BY <1>2, <1>3 DEF AuxInv, CursorInv, Ahead, ListInv, StopSparesRunningTurns
<1> QED
  BY <1>4, <1>5 DEF ConvInv

\* The call goes on, and nothing else changes.
LEMMA GoesOn ==
  ASSUME ConvInv, UNCHANGED <<aoVars, fixed>>, call' \in Calls, call'.known = call.known,
         call.at # "idle", call'.at # "idle",
         CursorInv', ListInv', StopSparesRunningTurns'
  PROVE  ConvInv'
<1>1. UNCHANGED <<items, status, steady, met, fixed>> /\ Live' = Live
  BY DEF Live, aoVars
<1>2. TypeOK' /\ TurnInv' /\ AuxInv'
  BY <1>1 DEF ConvInv, TypeOK, TurnInv, First, AuxInv, fixed
<1> QED
  BY <1>2 DEF ConvInv

\* Observe has its answer; Stop goes on if that is ACCEPTED.
LEMMA ObservedInv ==
  ASSUME ConvInv, NEW delivery \in Answers, NEW receipt \in Receipts \cup {"none"},
         Observed(delivery, receipt), call.at \in {"session", "page"}, UNCHANGED <<aoVars, fixed>>
  PROVE  ConvInv'
<1>1. CASE Return(delivery, receipt) \/ Return("REFUSED", "none")
  BY <1>1, QuietReturnInv DEF Answers
<1>2. CASE /\ call' = [call EXCEPT !.at = "live", !.before = 0, !.pages = 0]
           /\ call.op # "observe"
  <2>1. call \in Calls /\ call.op = "stop"
    BY <1>2 DEF ConvInv, TypeOK, Calls
  <2>2. /\ call' \in Calls /\ call'.at = "live" /\ call'.before = 0 /\ call'.op = "stop"
        /\ call'.live = call.live /\ call'.known = call.known
    <3>1. 0 \in 0..MaxItems /\ 0 \in 0..(MaxPages - 1) /\ "live" \in Places
      BY Bounds DEF Places
    <3> QED
      BY <1>2, <2>1, <3>1 DEF Calls
  <2>3. call.live = {}
    BY DEF ConvInv, CursorInv
  <2>4. CursorInv' /\ ListInv' /\ StopSparesRunningTurns'
    BY <2>2, <2>3 DEF CursorInv, ListInv, Ahead, StopSparesRunningTurns
  <2> QED
    BY <2>2, <2>4, GoesOn
<1> QED
  BY <1>1, <1>2 DEF Observed

LEMMA ReadSessionInv ==
  ASSUME ConvInv, ReadSession
  PROVE  ConvInv'
<1>1. CASE Observed("NO_SESSION", "none")
  BY <1>1, ObservedInv DEF ReadSession, Answers
<1>2. CASE call' = [call EXCEPT !.at = "page"]
  <2>1. call \in Calls /\ call.at = "session"
    BY DEF ConvInv, TypeOK, ReadSession
  <2>2. /\ call' \in Calls /\ call'.at = "page" /\ call'.before = call.before
        /\ call'.live = call.live /\ call'.known = call.known
    BY <1>2, <2>1 DEF Calls, Places
  <2>3. items' = items /\ (Ahead(Target) => Ahead(Target)')
    BY <2>2 DEF Ahead, First, ReadSession, aoVars
  <2>4. CursorInv'
    BY <2>1, <2>2, <2>3 DEF ConvInv, CursorInv
  <2>5. ListInv' /\ StopSparesRunningTurns'
    BY <2>2 DEF ListInv, StopSparesRunningTurns
  <2> QED
    BY <2>1, <2>2, <2>4, <2>5, GoesOn DEF ReadSession
<1> QED
  BY <1>1, <1>2 DEF ReadSession

\* On to the next page: the cursor advances, and AO does not ignore it.
LEMMA NextPageIs ==
  ASSUME TypeOK, CursorOK(call.before), Page(call.before).more,
         NEW live, NextPage([call EXCEPT !.live = live], Page(call.before)),
         live \in SUBSET ((0..(MaxPages - 1)) \X Turns)
  PROVE  \/ Return("ERROR", "none")
         \/ /\ call' \in Calls /\ call'.at = call.at /\ call'.op = call.op
            /\ call'.known = call.known /\ call'.live = live
            /\ call'.before = Page(call.before).oldest /\ call'.pages = call.pages + 1
            /\ call'.before \in 2..(Len(items) - PageSize + 1)
            /\ call.before # 0 => call'.before < call.before /\ ~ao.sticky
<1> DEFINE b == call.before
           next == Page(b).oldest
           c == [call EXCEPT !.live = live]
<1>1. call \in Calls /\ Len(items) \in Nat /\ Len(items) <= MaxItems
  BY ItemTypes DEF TypeOK
<1>2. PICK newest, oldest \in Nat :
        /\ Page(b).more <=> oldest > 1
        /\ newest > 0 => Page(b).oldest = oldest
        /\ newest = 0 => oldest = 1
        /\ newest <= Len(items)
        /\ oldest > 1 => oldest + PageSize = newest + 1
        /\ b # 0 /\ ao.sticky => oldest >= b
  BY PageSpan
<1>3. next = oldest /\ next > 1 /\ next + PageSize <= Len(items) + 1 /\ next \in Nat
  BY <1>1, <1>2
<1>4. next \in 2..(Len(items) - PageSize + 1) /\ next \in 0..MaxItems
  BY <1>1, <1>3, Bounds
<1>5. c.before = b /\ c.pages = call.pages /\ c \in Calls
  BY <1>1 DEF Calls
<1>6. ASSUME ~Return("ERROR", "none")
      PROVE  /\ ~(b > 0 /\ next >= b) /\ call.pages + 1 # MaxPages
             /\ call' = [c EXCEPT !.before = next, !.pages = @ + 1]
  BY <1>5, <1>6 DEF NextPage
<1>7. ASSUME ~Return("ERROR", "none")
      PROVE  b # 0 => next < b /\ ~ao.sticky
  <2>1. b \in Nat
    BY <1>1 DEF Calls
  <2> QED
    BY <1>2, <1>3, <1>6, <1>7, <2>1
<1>8. ASSUME ~Return("ERROR", "none")
      PROVE  /\ call' \in Calls /\ call'.at = call.at /\ call'.op = call.op
             /\ call'.known = call.known /\ call'.live = live
             /\ call'.before = next /\ call'.pages = call.pages + 1
  <2>1. call.pages + 1 \in 0..(MaxPages - 1)
    BY <1>1, <1>6, <1>8, Bounds DEF Calls
  <2> HIDE DEF next
  <2> QED
    BY <1>1, <1>4, <1>6, <1>8, <2>1 DEF Calls
<1> QED
  BY <1>4, <1>7, <1>8

\* The answer of a page of Observe.
LEMMA ReceiptIs ==
  ASSUME TypeOK, NEW b, CursorOK(b), NEW t,
         \/ ReceiptForTurn(Page(b).span, t) # "none"
         \/ \E i \in Page(b).span : items[i].turn = t /\ items[i].says \in Receipts
  PROVE  \E i \in Own(t) : /\ items[i].says = ReceiptForTurn(Page(b).span, t)
                           /\ i \in Page(b).span /\ items[i].says \in Receipts
                           /\ \A j \in Page(b).span :
                                j \in Own(t) /\ items[j].says \in Receipts => j <= i
<1> DEFINE span == Page(b).span
           found == {i \in span : items[i].turn = t /\ items[i].says \in Receipts}
<1>1. span \subseteq 1..Len(items)
  <2>1. PICK newest, oldest \in Nat :
          span = oldest..newest /\ newest <= Len(items) /\ oldest >= 1
    BY PageSpan
  <2> QED
    BY <2>1, ItemTypes
<1>2. found # {} /\ found \subseteq 1..Len(items)
  BY <1>1 DEF ReceiptForTurn
<1>3. \E i \in found : \A j \in found : j <= i
  <2> HIDE DEF found
  <2> QED
    BY <1>2, Greatest, ItemTypes
<1>4. PICK i \in found : /\ \A j \in found : j <= i
                         /\ items[i].says = ReceiptForTurn(span, t)
  <2> DEFINE last == CHOOSE i \in found : \A j \in found : j <= i
  <2>1. ReceiptForTurn(span, t) = items[last].says
    BY <1>2 DEF ReceiptForTurn
  <2>2. last \in found /\ \A j \in found : j <= last
    BY <1>3
  <2> HIDE DEF last, found
  <2> QED
    BY <2>1, <2>2
<1> QED
  BY <1>1, <1>4 DEF Own

LEMMA ReadPageInv ==
  ASSUME ConvInv, ReadPage
  PROVE  ConvInv'
<1> DEFINE page == Page(call.before)
           delivery == IF Target \in page.turns THEN Delivery(Target) ELSE "NOT_FOUND"
           receipt == IF delivery = "COMPLETED" THEN ReceiptForTurn(page.span, Target) ELSE "none"
<1>1. call.at = "page" /\ UNCHANGED <<aoVars, fixed>> /\ CursorOK(call.before) /\ TypeOK
  BY DEF ReadPage, ConvInv, CursorInv, CursorOK
<1>2. CASE Observed(delivery, receipt)
  <2>1. delivery \in Answers
    BY DEF Delivery, Answers
  <2>2. receipt \in Receipts \cup {"none"}
    BY <1>1, ReceiptIs
  <2> HIDE DEF delivery, receipt
  <2> QED
    BY <1>1, <1>2, <2>1, <2>2, ObservedInv
<1>3. CASE Target \notin page.turns /\ page.more /\ NextPage(call, page)
  <2>1. call = [call EXCEPT !.live = {}] /\ call.live = {}
    BY <1>1 DEF ConvInv, CursorInv, TypeOK, Calls
  <2>2. CASE Return("ERROR", "none")
    BY <1>1, <2>2, QuietReturnInv DEF Answers
  <2>3. CASE ~Return("ERROR", "none")
    <3>1. /\ call' \in Calls /\ call'.at = "page" /\ call'.known = call.known
          /\ call'.live = {} /\ call'.before = page.oldest
          /\ call'.before \in 2..(Len(items) - PageSize + 1)
          /\ call.before # 0 => ~ao.sticky
      BY <1>1, <1>3, <2>1, <2>3, NextPageIs
    <3>2. items' = items
      BY <1>1 DEF aoVars
    <3>3. ASSUME call.known PROVE Ahead(Target)'
      <4>1. status[Target] # "unborn" /\ Ahead(Target)
        BY <1>1, <3>3 DEF ConvInv, AuxInv, CursorInv
      <4>2. PICK i \in 1..(page.oldest - 1) : First(i, Target)
        BY <1>1, <1>3, <3>1, <4>1, NotOnPage, TargetAssumption DEF ConvInv
      <4> QED
        BY <3>1, <3>2, <4>2 DEF Ahead, First
    <3>4. CursorInv' /\ ListInv' /\ StopSparesRunningTurns'
      BY <3>1, <3>2, <3>3 DEF CursorInv, ListInv, StopSparesRunningTurns
    <3> QED
      BY <1>1, <3>1, <3>4, GoesOn
  <2> QED
    BY <2>2, <2>3
<1> QED
  BY <1>2, <1>3 DEF ReadPage

----------------------------------------------------------------------------
(* The list of live turns. *)

\* The list with the entries of the page that is being read.
WithPage == call.live \cup {<<call.pages, t>> : t \in Page(call.before).turns \cap Live}

\* What is on the list after a page is behind, once for each turn that AO lists once.
LEMMA ListGrows ==
  ASSUME ConvInv, call.at = "live", call.before # 0 => ~ao.sticky
  PROVE  /\ WithPage \in SUBSET ((0..(MaxPages - 1)) \X Turns)
         /\ \A n \in Nat, t \in Turns : <<n, t>> \in WithPage =>
              /\ n <= call.pages /\ t \in met
              /\ \E i \in 1..Len(items) :
                   /\ Page(call.before).more => i >= Page(call.before).oldest
                   /\ items[i].turn = t /\ (ao.lists = "byStart" => First(i, t))
              /\ \A k \in Nat : <<k, t>> \in WithPage /\ k # n =>
                   ao.lists = "byItem" /\ Twice(t)
<1> DEFINE b == call.before
           page == Page(b)
<1>1. /\ TypeOK /\ TurnInv /\ CursorOK(b) /\ call \in Calls /\ Live \subseteq met
      /\ met \subseteq Turns /\ call.pages \in 0..(MaxPages - 1) /\ b \in Nat
      /\ call.live \in SUBSET ((0..(MaxPages - 1)) \X Turns)
      /\ ao.lists \in {"byStart", "byItem"} /\ Len(items) \in Nat
  BY ItemTypes DEF ConvInv, CursorInv, CursorOK, TypeOK, Calls, AuxInv
<1>2. PICK newest, oldest \in Nat :
        /\ page.span = oldest..newest
        /\ page.more <=> oldest > 1
        /\ newest > 0 => page.oldest = oldest
        /\ newest = 0 => oldest = 1
        /\ newest <= Len(items) /\ oldest >= 1
        /\ oldest > 1 => oldest + PageSize = newest + 1
        /\ b # 0 => newest + 1 = b
  BY <1>1, PageSpan
<1>3. page.more => page.oldest = oldest
  BY <1>2
<1>4. \A n, t : <<n, t>> \in WithPage <=>
        <<n, t>> \in call.live \/ (n = call.pages /\ t \in page.turns /\ t \in Live)
  BY DEF WithPage
<1>5. WithPage \in SUBSET ((0..(MaxPages - 1)) \X Turns)
  BY <1>1 DEF WithPage
<1>6. ASSUME NEW t \in Turns, t \in page.turns
      PROVE  \E i \in 1..Len(items) :
               /\ i >= oldest /\ (b # 0 => i < b)
               /\ items[i].turn = t /\ (ao.lists = "byStart" => First(i, t))
  <2>1. PICK i \in page.span : items[i].turn = t /\ (ao.lists = "byStart" => First(i, t))
    BY <1>1, <1>6, PageTurns
  <2>2. i \in 1..Len(items) /\ i >= oldest /\ (b # 0 => i < b)
    BY <1>1, <1>2, <2>1
  <2> QED
    BY <2>1, <2>2
<1>7. ASSUME NEW n \in Nat, NEW t \in Turns, <<n, t>> \in call.live
      PROVE  /\ n < call.pages /\ t \in met /\ b # 0
             /\ \E i \in 1..Len(items) :
                  i >= b /\ items[i].turn = t /\ (ao.lists = "byStart" => First(i, t))
             /\ \A k \in Nat : <<k, t>> \in call.live /\ k # n => ao.lists = "byItem" /\ Twice(t)
  BY <1>7 DEF ConvInv, ListInv, Behind
<1>8. ASSUME NEW n \in Nat, NEW t \in Turns, <<n, t>> \in call.live, t \in page.turns
      PROVE  ao.lists = "byItem" /\ Twice(t)
  <2>1. PICK i \in 1..Len(items) : /\ i < b /\ items[i].turn = t
                                   /\ (ao.lists = "byStart" => First(i, t))
    BY <1>6, <1>7, <1>8
  <2>2. PICK j \in 1..Len(items) : /\ j >= b /\ items[j].turn = t
                                   /\ (ao.lists = "byStart" => First(j, t))
    BY <1>7, <1>8
  <2>3. i # j
    BY <1>1, <2>1, <2>2
  <2>4. ao.lists # "byStart"
    BY <1>1, <2>1, <2>2, <2>3, StartIs
  <2> QED
    BY <1>1, <2>1, <2>2, <2>3, <2>4 DEF Twice, Own
<1>9. ASSUME NEW n \in Nat, NEW t \in Turns, <<n, t>> \in WithPage
      PROVE  /\ n <= call.pages /\ t \in met
             /\ \E i \in 1..Len(items) :
                  /\ page.more => i >= page.oldest
                  /\ items[i].turn = t /\ (ao.lists = "byStart" => First(i, t))
  <2>1. CASE <<n, t>> \in call.live
    <3>1. n < call.pages /\ t \in met /\ b # 0
      BY <1>7, <2>1
    <3>2. PICK i \in 1..Len(items) :
            i >= b /\ items[i].turn = t /\ (ao.lists = "byStart" => First(i, t))
      BY <1>7, <2>1
    <3>3. page.more => i >= page.oldest
      BY <1>1, <1>2, <1>3, <3>1, <3>2, Bounds
    <3> QED
      BY <1>1, <3>1, <3>2, <3>3
  <2>2. CASE n = call.pages /\ t \in page.turns /\ t \in Live
    BY <1>1, <1>3, <1>6, <2>2
  <2> QED
    BY <1>4, <1>9, <2>1, <2>2
<1>10. ASSUME NEW n \in Nat, NEW t \in Turns, <<n, t>> \in WithPage,
              NEW k \in Nat, <<k, t>> \in WithPage, k # n
       PROVE  ao.lists = "byItem" /\ Twice(t)
  <2>1. CASE <<n, t>> \in call.live /\ <<k, t>> \in call.live
    BY <1>7, <1>10, <2>1
  <2>2. CASE t \in page.turns /\ (<<n, t>> \in call.live \/ <<k, t>> \in call.live)
    BY <1>8, <2>2
  <2> QED
    BY <1>4, <1>10, <2>1, <2>2
<1> QED
  BY <1>5, <1>9, <1>10

\* A turn that has been live all the time is on the list, or ahead of the page.
LEMMA SteadyIsListed ==
  ASSUME ConvInv, call.at = "live", call.before # 0 => ~ao.sticky, NEW t \in steady
  PROVE  \/ \E n \in Nat : <<n, t>> \in WithPage
         \/ /\ Page(call.before).more
            /\ \E i \in 1..(Page(call.before).oldest - 1) : First(i, t)
<1>1. /\ TypeOK /\ TurnInv /\ CursorOK(call.before) /\ t \in Live /\ t \in Turns
      /\ call.pages \in Nat
  BY Bounds DEF ConvInv, CursorInv, CursorOK, TypeOK, Calls, AuxInv, Live
<1>2. Listed(t) \/ Ahead(t)
  BY DEF ConvInv, ListInv
<1>3. CASE Listed(t) \/ t \in Page(call.before).turns
  BY <1>1, <1>3 DEF Listed, WithPage
<1>4. CASE Ahead(t) /\ t \notin Page(call.before).turns
  BY <1>1, <1>4, NotOnPage DEF Live
<1> QED
  BY <1>2, <1>3, <1>4

\* A cursor that AO ignores never gets to the last page.
LEMMA LastPageAdvances ==
  ASSUME TypeOK, CursorOK(call.before), ~Page(call.before).more
  PROVE  call.before # 0 => ~ao.sticky
<1>1. ASSUME call.before # 0, ao.sticky PROVE FALSE
  <2>1. PICK newest, oldest \in Nat : /\ Page(call.before).more <=> oldest > 1
                                      /\ oldest >= call.before
    BY <1>1, PageSpan
  <2> QED
    BY <1>1, <2>1 DEF CursorOK
<1> QED
  BY <1>1

LEMMA ReadLivePageInv ==
  ASSUME ConvInv, ReadLivePage
  PROVE  ConvInv'
<1> DEFINE page == Page(call.before)
           c == [call EXCEPT !.live = WithPage]
<1>1. /\ call.at = "live" /\ UNCHANGED <<aoVars, fixed>> /\ UNCHANGED <<items, steady, met, ao>>
      /\ TypeOK /\ CursorOK(call.before) /\ call \in Calls
  BY DEF ReadLivePage, ConvInv, CursorInv, CursorOK, TypeOK, aoVars, fixed
<1>2. c = [call EXCEPT !.live = @ \cup {<<call.pages, t>> : t \in page.turns \cap Live}]
  BY DEF WithPage
<1>3. \/ page.more /\ NextPage(c, page)
      \/ ~page.more /\ IsAlone(c.live) /\ call' = [c EXCEPT !.at = "interrupt"]
      \/ ~page.more /\ ~IsAlone(c.live) /\ Return("AMBIGUOUS", "none")
  BY <1>2, Zenon DEF ReadLivePage
<1>4. c.live = WithPage
  BY <1>1 DEF Calls
<1>5. CASE Return("ERROR", "none") \/ Return("AMBIGUOUS", "none")
  BY <1>1, <1>5, QuietReturnInv DEF Answers
<1>6. CASE page.more /\ NextPage(c, page) /\ ~Return("ERROR", "none")
  <2>1. WithPage \in SUBSET ((0..(MaxPages - 1)) \X Turns)
    BY <1>1, <1>4 DEF ConvInv, TypeOK, Calls, WithPage, Page
  <2>2. /\ call' \in Calls /\ call'.at = "live" /\ call'.op = call.op
        /\ call'.known = call.known /\ call'.live = WithPage
        /\ call'.before = page.oldest /\ call'.pages = call.pages + 1
        /\ call'.before \in 2..(Len(items) - PageSize + 1)
        /\ call.before # 0 => call'.before < call.before /\ ~ao.sticky
    BY <1>1, <1>6, <2>1, NextPageIs
  <2>3. CursorInv'
    BY <1>1, <2>2 DEF CursorInv
  <2>4. ASSUME NEW t \in steady
        PROVE  Listed(t)' \/ Ahead(t)'
    BY <1>1, <2>2, SteadyIsListed DEF Listed, Ahead, First
  <2>5. ASSUME NEW n \in Nat, NEW t \in Turns, <<n, t>> \in WithPage
        PROVE  /\ n < call'.pages /\ t \in met' /\ Behind(t)'
               /\ \A k \in Nat : <<k, t>> \in WithPage /\ k # n => ao'.lists = "byItem" /\ Twice(t)'
    <3>1. /\ n <= call.pages /\ t \in met
          /\ \E i \in 1..Len(items) :
               /\ i >= page.oldest
               /\ items[i].turn = t /\ (ao.lists = "byStart" => First(i, t))
          /\ \A k \in Nat : <<k, t>> \in WithPage /\ k # n => ao.lists = "byItem" /\ Twice(t)
      BY <1>1, <1>6, <2>2, <2>5, ListGrows
    <3>2. n < call.pages + 1
      BY <1>1, <3>1, Bounds DEF Calls
    <3> QED
      BY <1>1, <2>2, <3>1, <3>2 DEF Behind, First, Twice, Own
  <2>6. ListInv'
    BY <1>1, <2>2, <2>4, <2>5 DEF ConvInv, ListInv
  <2>7. StopSparesRunningTurns'
    BY <2>2 DEF StopSparesRunningTurns
  <2> QED
    BY <1>1, <2>2, <2>3, <2>6, <2>7, GoesOn
<1>7. CASE ~page.more /\ IsAlone(WithPage) /\ call' = [c EXCEPT !.at = "interrupt"]
  <2>1. call.before # 0 => ~ao.sticky
    BY <1>1, <1>7, LastPageAdvances
  <2>2. PICK n \in 0..(MaxPages - 1) : WithPage = {<<n, Target>>}
    BY <1>7 DEF IsAlone
  <2>3. n \in Nat /\ Target \in met
    BY <1>1, <2>1, <2>2, ListGrows, TargetAssumption, Bounds
  <2>4. steady \subseteq {Target}
    BY <1>1, <1>7, <2>1, <2>2, SteadyIsListed
  <2>5. call' \in Calls /\ call'.at = "interrupt" /\ call'.known = call.known
    <3>1. WithPage \in SUBSET ((0..(MaxPages - 1)) \X Turns) /\ "interrupt" \in Places
      BY <1>1, <2>1, ListGrows DEF Places
    <3> QED
      BY <1>1, <1>7, <3>1 DEF Calls
  <2>6. CursorInv' /\ ListInv' /\ StopSparesRunningTurns'
    BY <1>1, <2>3, <2>4, <2>5 DEF CursorInv, ListInv, StopSparesRunningTurns
  <2> QED
    BY <1>1, <2>5, <2>6, GoesOn
<1> QED
  BY <1>3, <1>4, <1>5, <1>6, <1>7

LEMMA InterruptInv ==
  ASSUME ConvInv, Interrupt
  PROVE  ConvInv'
<1>1. PICK answer \in {"INTERRUPTED", "ERROR"} : Return(answer, "none")
  BY DEF Interrupt
<1>2. /\ call.at = "interrupt" /\ items' = items /\ UNCHANGED fixed
      /\ status' = Interrupted /\ steady' = {t \in steady : Interrupted[t] = "live"}
      /\ met' = met \cup {t \in Turns : Interrupted[t] = "live"}
  BY DEF Interrupt, Becomes
<1>3. /\ status \in [Turns -> Statuses] /\ steady \subseteq met /\ met \subseteq Turns
      /\ \A t \in Turns : /\ Interrupted[t] # "live"
                          /\ Interrupted[t] = "unborn" <=> status[t] = "unborn"
  BY DEF ConvInv, TypeOK, Interrupted
<1>4. status' \in [Turns -> Statuses]
  BY <1>2, <1>3 DEF Interrupted, Statuses
<1>5. TurnInv'
  BY <1>2, <1>3 DEF ConvInv, TurnInv, First
<1>6. /\ steady' = {} /\ Live' = {} /\ met' = met
      /\ status[Target] = "unborn" <=> status'[Target] = "unborn"
  <2>1. steady' = {}
    BY <1>2, <1>3
  <2>2. met' = met
    BY <1>2, <1>3
  <2>3. Live' = {}
    BY <1>2, <1>3 DEF Live
  <2> QED
    BY <1>2, <1>3, <2>1, <2>2, <2>3, TargetAssumption
<1> QED
  BY <1>1, <1>2, <1>3, <1>4, <1>5, <1>6, ReturnInv DEF Answers

LEMMA RequestFailsInv ==
  ASSUME ConvInv, RequestFails
  PROVE  ConvInv'
BY QuietReturnInv DEF RequestFails, Answers

----------------------------------------------------------------------------
(* AO. *)

\* Items are only appended.
LEMMA Appended ==
  ASSUME TypeOK, NEW t \in Turns, NEW says \in Says, Append1(t, says)
  PROVE  /\ items' \in Seq(Items) /\ Len(items') = Len(items) + 1 /\ Len(items') <= MaxItems
         /\ \A i \in 1..Len(items) : items'[i] = items[i]
         /\ items'[Len(items) + 1].turn = t
         /\ \A u : \A i \in 1..Len(items) : First(i, u)' <=> First(i, u)
<1> DEFINE e == [turn |-> t, says |-> says]
<1>1. /\ items \in Seq(Items) /\ e \in Items /\ items' = Append(items, e)
      /\ Len(items) < MaxItems /\ Len(items) \in Nat
  BY ItemTypes DEF Append1, Items
<1>2. /\ items' \in Seq(Items) /\ Len(items') = Len(items) + 1
      /\ \A i \in 1..Len(items) : items'[i] = items[i]
      /\ items'[Len(items) + 1] = e
  BY <1>1
<1>3. ASSUME NEW i \in 1..Len(items), NEW u
      PROVE  First(i, u)' <=> First(i, u)
  <2>1. i \in 1..Len(items') /\ \A j \in 1..i : j \in 1..Len(items) /\ items'[j] = items[j]
    BY <1>1, <1>2
  <2> QED
    BY <1>1, <2>1 DEF First
<1> QED
  BY <1>1, <1>2, <1>3, Bounds

\* What AO does to the conversation takes nothing away from what a call has seen.
LEMMA AOKeeps ==
  ASSUME ConvInv, call.at # "done", UNCHANGED <<fixed, call>>, TypeOK', TurnInv',
         Len(items) <= Len(items'), \A i \in 1..Len(items) : items'[i] = items[i],
         \A t : \A i \in 1..Len(items) : First(i, t)' <=> First(i, t),
         \A t \in Turns : status[t] # "unborn" => status'[t] # "unborn",
         Becomes(status'), status' \in [Turns -> Statuses]
  PROVE  ConvInv'
<1>1. /\ steady' \subseteq steady /\ steady' \subseteq Live' /\ steady \subseteq Turns
      /\ call.at # "idle" => met \subseteq met' /\ Live' \subseteq met'
      /\ call.at = "idle" => met' = {} /\ steady' = {}
  BY DEF Becomes, Live, ConvInv, TypeOK, AuxInv
<1>2. Len(items) \in Nat /\ Len(items') \in Nat /\ call \in Calls /\ call' = call /\ ao' = ao
  BY ItemTypes DEF ConvInv, TypeOK, fixed
<1>3. AuxInv'
  BY <1>1, <1>2, TargetAssumption DEF ConvInv, AuxInv
<1>4. ASSUME call.at \in {"session", "page", "live"}, NEW t, Ahead(t)
      PROVE  Ahead(t)'
  <2>1. ASSUME NEW i \in 1..(call.before - 1), First(i, t)
        PROVE  First(i, t)'
    BY <2>1 DEF First
  <2> QED
    BY <1>2, <1>4, <2>1 DEF Ahead
<1>5. CursorInv'
  <2>1. call.before \in 2..(Len(items) - PageSize + 1) =>
          call.before \in 2..(Len(items') - PageSize + 1)
    BY <1>2, Bounds
  <2> QED
    BY <1>2, <1>4, <2>1 DEF ConvInv, CursorInv
<1>6. ASSUME NEW t
      PROVE  (Behind(t) => Behind(t)') /\ (Twice(t) => Twice(t)')
  BY <1>2 DEF Behind, Twice, Own
<1>7. ListInv'
  BY <1>1, <1>2, <1>4, <1>6 DEF ConvInv, ListInv, Listed
<1>8. StopSparesRunningTurns'
  BY <1>1, <1>2 DEF ConvInv, StopSparesRunningTurns
<1> QED
  BY <1>3, <1>5, <1>7, <1>8 DEF ConvInv

LEMMA AOStepInv ==
  ASSUME ConvInv, AOStep
  PROVE  ConvInv'
<1>1. PICK t \in Turns : TurnStarts(t) \/ TurnWrites(t) \/ TurnChanges(t)
  BY DEF AOStep
<1>2. /\ call.at # "done" /\ UNCHANGED <<fixed, call>> /\ TypeOK /\ TurnInv
      /\ status \in [Turns -> Statuses] /\ Len(items) \in Nat
  BY ItemTypes DEF AOStep, ConvInv, TypeOK
<1>3. /\ Becomes(status') /\ status' \in [Turns -> Statuses]
      /\ \A u \in Turns : /\ status[u] # "unborn" => status'[u] # "unborn"
                          /\ u # t => status'[u] = status[u]
      /\ status'[t] # "unborn"
  BY <1>1, <1>2 DEF TurnStarts, TurnWrites, TurnChanges, Becomes, Statuses
<1>4. steady' \subseteq met' /\ met' \subseteq Turns
  BY <1>3 DEF Becomes, ConvInv, TypeOK, AuxInv
<1>5. CASE TurnChanges(t)
  <2>1. items' = items /\ status[t] # "unborn"
    BY <1>5 DEF TurnChanges
  <2>2. TypeOK'
    BY <1>2, <1>3, <1>4, <2>1 DEF TypeOK, fixed
  <2>3. TurnInv'
    BY <1>2, <1>3, <2>1 DEF TurnInv, First
  <2>4. \A i, u : First(i, u)' <=> First(i, u)
    BY <2>1 DEF First
  <2> QED
    BY <1>2, <1>3, <2>1, <2>2, <2>3, <2>4, AOKeeps
<1>6. CASE TurnStarts(t) \/ TurnWrites(t)
  <2>1. PICK says \in Says : Append1(t, says)
    BY <1>6 DEF TurnStarts, TurnWrites, Says
  <2>2. /\ items' \in Seq(Items) /\ Len(items') = Len(items) + 1 /\ Len(items') <= MaxItems
        /\ \A i \in 1..Len(items) : items'[i] = items[i]
        /\ items'[Len(items) + 1].turn = t
        /\ \A u : \A i \in 1..Len(items) : First(i, u)' <=> First(i, u)
    BY <1>2, <2>1, Appended
  <2>3. TypeOK'
    BY <1>2, <1>3, <1>4, <2>2 DEF TypeOK, Items, fixed
  <2>4. ASSUME NEW u \in Turns
        PROVE  /\ status'[u] = "unborn" => \A i \in 1..Len(items') : items'[i].turn # u
               /\ status'[u] # "unborn" => \E i \in 1..Len(items') : First(i, u)'
    <3>1. CASE status[u] # "unborn"
      BY <1>2, <1>3, <2>2, <3>1 DEF TurnInv
    <3>2. CASE status[u] = "unborn" /\ u # t
      BY <1>2, <1>3, <2>2, <3>2 DEF TurnInv
    <3>3. CASE status[u] = "unborn" /\ u = t
      <4> DEFINE n == Len(items) + 1
      <4>1. /\ \A i \in 1..Len(items) : items[i].turn # u
            /\ n \in 1..Len(items') /\ \A j \in 1..(n - 1) : j \in 1..Len(items)
        BY <1>2, <2>2, <3>3 DEF TurnInv
      <4>2. Len(items)' = n /\ items'[n].turn = u
        BY <2>2, <3>3
      <4>3. \A j \in 1..(Len(items)' - 1) : items'[j].turn # u
        BY <1>2, <2>2, <4>1, <4>2
      <4>4. \E i \in 1..Len(items') : First(i, u)'
        BY <4>1, <4>2, <4>3 DEF First
      <4> QED
        BY <1>3, <3>3, <4>4
    <3> QED
      BY <3>1, <3>2, <3>3
  <2>5. TurnInv'
    BY <2>4 DEF TurnInv
  <2> QED
    BY <1>2, <1>3, <2>2, <2>3, <2>5, AOKeeps
<1> QED
  BY <1>1, <1>5, <1>6

----------------------------------------------------------------------------
(* The invariant. *)

LEMMA ConvInit == Init => ConvInv
<1> SUFFICES ASSUME Init PROVE ConvInv
  OBVIOUS
<1>1. /\ items = <<>> /\ Len(items) = 0 /\ steady = {} /\ met = {}
      /\ status = [t \in Turns |-> "unborn"]
      /\ call = [Call("observe") EXCEPT !.at = "idle"]
  BY DEF Init
<1>2. /\ call \in Calls /\ call.at = "idle" /\ call.known = FALSE /\ call.live = {}
  <2>1. Call("observe") \in Calls /\ Call("observe").live = {} /\ "idle" \in Places
    BY CallIs DEF Places
  <2>2. Call("observe").known = FALSE
    BY <1>1, TargetAssumption, CallIs
  <2> QED
    BY <1>1, <2>1, <2>2 DEF Calls
<1>3. TypeOK
  BY <1>1, <1>2, Bounds DEF Init, TypeOK, Statuses
<1>4. TurnInv /\ AuxInv /\ CursorInv /\ ListInv /\ StopSparesRunningTurns
  BY <1>1, <1>2 DEF TurnInv, AuxInv, CursorInv, ListInv, StopSparesRunningTurns
<1> QED
  BY <1>3, <1>4 DEF ConvInv

LEMMA ConvStep == ConvInv /\ [Next]_vars => ConvInv'
<1> SUFFICES ASSUME ConvInv, [Next]_vars PROVE ConvInv'
  OBVIOUS
<1>1. CASE CallStep
  BY <1>1, BeginInv, ReadSessionInv, ReadPageInv, ReadLivePageInv, InterruptInv, RequestFailsInv
  DEF CallStep
<1>2. CASE AOStep
  BY <1>2, AOStepInv
<1>3. CASE UNCHANGED vars
  <2>1. /\ items' = items /\ status' = status /\ steady' = steady /\ met' = met
        /\ ao' = ao /\ handle' = handle /\ call' = call
    BY <1>3 DEF vars, aoVars, fixed
  <2>2. TypeOK'
    BY <2>1 DEF ConvInv, TypeOK
  <2>3. TurnInv' /\ AuxInv'
    BY <2>1 DEF ConvInv, TurnInv, AuxInv, Live, First
  <2>4. CursorInv'
    BY <2>1 DEF ConvInv, CursorInv, Ahead, First
  <2>5. ListInv'
    BY <2>1 DEF ConvInv, ListInv, Listed, Ahead, Behind, First, Twice, Own
  <2>6. StopSparesRunningTurns'
    BY <2>1 DEF ConvInv, StopSparesRunningTurns
  <2> QED
    BY <2>2, <2>3, <2>4, <2>5, <2>6 DEF ConvInv
<1> QED
  BY <1>1, <1>2, <1>3 DEF Next

LEMMA ConvAlways == Spec => []ConvInv
BY ConvInit, ConvStep, PTL DEF Spec

\* TypeOK: every reachable state is well typed.
THEOREM TypeCorrect == Spec => []TypeOK
<1>1. ConvInv => TypeOK
  BY DEF ConvInv
<1> QED
  BY ConvAlways, <1>1, PTL

\* StopSparesRunningTurns: when Stop interrupts the session, every turn but its target
\* has not been live for as long as Stop has been running.
THEOREM StopIsSelective == Spec => []StopSparesRunningTurns
<1>1. ConvInv => StopSparesRunningTurns
  BY DEF ConvInv
<1> QED
  BY ConvAlways, <1>1, PTL

----------------------------------------------------------------------------
(* What the calls answer. *)

\* The steps that end a call.
LEMMA Ends ==
  ASSUME [Next]_vars, call.at # "done", call'.at = "done"
  PROVE  ReadSession \/ ReadPage \/ ReadLivePage \/ Interrupt \/ RequestFails
<1>1. ~Begin
  BY CallIs DEF Begin
<1>2. ~AOStep /\ ~UNCHANGED vars
  BY DEF AOStep, vars
<1> QED
  BY <1>1, <1>2 DEF Next, CallStep

LEMMA ObserveEnds ==
  ASSUME ConvInv, [Next]_vars, Answered("observe", {"NOT_FOUND", "COMPLETED"})
  PROVE  LET page == Page(call.before) IN
         /\ call.at = "page" /\ CursorOK(call.before)
         /\ \/ Target \in page.turns /\ Delivery(Target) = call'.answer
            \/ Target \notin page.turns /\ ~page.more /\ call'.answer = "NOT_FOUND"
         /\ call'.answer = "COMPLETED" => call'.receipt = ReceiptForTurn(page.span, Target)
<1>1. /\ TypeOK /\ call.op = "observe" /\ call.at # "done" /\ call'.at = "done"
      /\ call'.answer \in {"NOT_FOUND", "COMPLETED"}
  BY DEF Answered, ConvInv
<1>2. ASSUME NEW answer \in Answers, NEW receipt \in Receipts \cup {"none"}, Return(answer, receipt)
      PROVE  call'.answer = answer /\ call'.receipt = receipt
  BY <1>1, <1>2, Returned
<1>3. ~Return("ERROR", "none") /\ ~Return("NO_SESSION", "none") /\ ~Return("INTERRUPTED", "none")
  BY <1>1, <1>2 DEF Answers
<1>4. ~RequestFails /\ ~Interrupt
  BY <1>3 DEF RequestFails, Interrupt
<1>5. ~ReadSession
  <2>1. call' # [call EXCEPT !.at = "page"]
    BY <1>1 DEF TypeOK, Calls
  <2> QED
    BY <1>1, <1>3, <2>1 DEF ReadSession, Observed
<1>6. ~ReadLivePage
  BY <1>1 DEF ReadLivePage, ConvInv, ListInv
<1>7. ReadPage
  BY <1>1, <1>4, <1>5, <1>6, Ends
<1> DEFINE page == Page(call.before)
           delivery == IF Target \in page.turns THEN Delivery(Target) ELSE "NOT_FOUND"
           receipt == IF delivery = "COMPLETED" THEN ReceiptForTurn(page.span, Target) ELSE "none"
<1>8. call.at = "page" /\ CursorOK(call.before)
  BY <1>7 DEF ReadPage, ConvInv, CursorInv, CursorOK
<1>9. (Target \in page.turns \/ ~page.more) /\ Observed(delivery, receipt)
  <2>1. ASSUME NextPage(call, page) PROVE FALSE
    <3>1. call' = [call EXCEPT !.before = page.oldest, !.pages = @ + 1]
      BY <1>3, <2>1 DEF NextPage
    <3> QED
      BY <1>1, <3>1 DEF TypeOK, Calls
  <2> QED
    BY <1>7, <2>1 DEF ReadPage
<1>10. delivery \in Answers /\ receipt \in Receipts \cup {"none"}
  <2>1. receipt \in Receipts \cup {"none"}
    BY <1>1, <1>8, ReceiptIs
  <2> QED
    BY <2>1 DEF Delivery, Answers
<1>11. call'.answer = delivery /\ call'.receipt = receipt
  <2> HIDE DEF delivery, receipt
  <2> QED
    BY <1>1, <1>2, <1>9, <1>10 DEF Observed
<1> QED
  BY <1>8, <1>9, <1>11

\* NotFoundIsHistory: NOT_FOUND never means that the turn was on a page that was not read.
THEOREM NotFoundIsTrue == Spec => NotFoundIsHistory
<1> DEFINE A == Answered("observe", {"NOT_FOUND"}) => ~call.known \/ status[Target] = "odd"
<1>1. ASSUME ConvInv, [Next]_vars, Answered("observe", {"NOT_FOUND"}), call.known
      PROVE  status[Target] = "odd"
  <2> DEFINE page == Page(call.before)
  <2>1. /\ call.at = "page" /\ CursorOK(call.before)
        /\ \/ Target \in page.turns /\ Delivery(Target) = "NOT_FOUND"
           \/ Target \notin page.turns /\ ~page.more
    BY <1>1, ObserveEnds DEF Answered
  <2>2. TypeOK /\ TurnInv /\ status[Target] # "unborn" /\ Ahead(Target)
    BY <1>1, <2>1 DEF ConvInv, AuxInv, CursorInv
  <2>3. Target \in page.turns
    BY <2>1, <2>2, NotOnPage, LastPageAdvances, TargetAssumption
  <2> QED
    BY <2>1, <2>2, <2>3, TargetAssumption DEF Delivery, TypeOK, Statuses
<1>2. ConvInv /\ [Next]_vars => [A]_vars
  BY <1>1
<1> QED
  BY ConvAlways, <1>2, PTL DEF Spec, NotFoundIsHistory

\* ReceiptIsOwn: a receipt that is reported is one that the assistant wrote in this turn.
THEOREM ReceiptsAreOwn == Spec => ReceiptIsOwn
<1> DEFINE A == Answered("observe", {"COMPLETED"}) /\ call'.receipt # "none" =>
                  \E i \in Own(Target) : items[i].says = call'.receipt
<1>1. ASSUME ConvInv, [Next]_vars, Answered("observe", {"COMPLETED"}), call'.receipt # "none"
      PROVE  \E i \in Own(Target) : items[i].says = call'.receipt
  <2>1. /\ CursorOK(call.before) /\ TypeOK
        /\ call'.receipt = ReceiptForTurn(Page(call.before).span, Target)
    BY <1>1, ObserveEnds DEF Answered, ConvInv
  <2> QED
    BY <1>1, <2>1, ReceiptIs
<1>2. ConvInv /\ [Next]_vars => [A]_vars
  BY <1>1
<1> QED
  BY ConvAlways, <1>2, PTL DEF Spec, ReceiptIsOwn

\* RefusalIsJustified: Stop refuses for ambiguity only with a reason.
THEOREM RefusalsAreJustified == Spec => RefusalIsJustified
<1> DEFINE Reason == \/ Target \notin steady \/ met # {Target}
                     \/ handle = "provider"
                     \/ ao.lists = "byItem" /\ Twice(Target)
           A == Answered("stop", {"AMBIGUOUS"}) => Reason
<1>1. ASSUME ConvInv, [Next]_vars, Answered("stop", {"AMBIGUOUS"})
      PROVE  Reason
  <2>1. /\ TypeOK /\ call.at # "done" /\ call'.at = "done" /\ call'.answer = "AMBIGUOUS"
        /\ call \in Calls
    BY <1>1 DEF Answered, ConvInv, TypeOK
  <2>2. ASSUME NEW answer \in Answers, answer # "AMBIGUOUS"
        PROVE  ~Return(answer, "none")
    BY <2>1, <2>2, Returned
  <2>3. /\ ~Return("ERROR", "none") /\ ~Return("NO_SESSION", "none") /\ ~Return("REFUSED", "none")
        /\ ~Return("INTERRUPTED", "none")
    BY <2>2 DEF Answers
  <2>4. ~RequestFails /\ ~Interrupt
    BY <2>3 DEF RequestFails, Interrupt
  <2>5. call.op = "stop"
    BY <1>1 DEF Answered
  <2>6. call'.at # "page" /\ call'.at # "live"
    BY <2>1
  <2>7. ASSUME NEW delivery, NEW receipt, Observed(delivery, receipt) PROVE FALSE
    BY <2>1, <2>3, <2>5, <2>7 DEF Observed, Calls
  <2>8. ~ReadSession /\ ~ReadPage
    <3>1. call' # [call EXCEPT !.at = "page"]
      BY <2>1 DEF Calls
    <3>2. ASSUME ReadPage PROVE FALSE
      <4>1. NextPage(call, Page(call.before)) /\ call.at = "page"
        BY <2>7, <3>2 DEF ReadPage
      <4>2. call' = [call EXCEPT !.before = Page(call.before).oldest, !.pages = @ + 1]
        BY <2>3, <4>1 DEF NextPage
      <4> QED
        BY <2>1, <4>1, <4>2 DEF Calls
    <3> QED
      BY <2>7, <3>1, <3>2 DEF ReadSession
  <2>9. ReadLivePage
    BY <1>1, <2>1, <2>4, <2>8, Ends
  <2> DEFINE page == Page(call.before)
             c == [call EXCEPT !.live = WithPage]
  <2>10. c = [call EXCEPT !.live = @ \cup {<<call.pages, t>> : t \in page.turns \cap Live}]
    BY DEF WithPage
  <2>11. c.live = WithPage /\ call.at = "live"
    BY <2>1, <2>9 DEF Calls, ReadLivePage
  <2>12. ~page.more /\ ~IsAlone(WithPage)
    <3>1. \/ page.more /\ NextPage(c, page)
          \/ ~page.more /\ IsAlone(c.live) /\ call' = [c EXCEPT !.at = "interrupt"]
          \/ ~page.more /\ ~IsAlone(c.live) /\ Return("AMBIGUOUS", "none")
      BY <2>9, <2>10, Zenon DEF ReadLivePage
    <3>2. call' # [c EXCEPT !.at = "interrupt"]
      BY <2>1 DEF Calls
    <3>3. ~NextPage(c, page)
      <4>1. ASSUME NextPage(c, page) PROVE FALSE
        <5>1. call' = [c EXCEPT !.before = page.oldest, !.pages = @ + 1]
          BY <2>3, <4>1 DEF NextPage
        <5> QED
          BY <2>1, <2>11, <5>1 DEF Calls
      <4> QED
        BY <4>1
    <3> QED
      BY <2>11, <3>1, <3>2, <3>3
  <2>13. SUFFICES ASSUME Target \in steady, met = {Target}, handle = "id",
                         ~(ao.lists = "byItem" /\ Twice(Target))
                  PROVE  FALSE
    BY <2>1 DEF TypeOK
  <2>14. CursorOK(call.before) /\ (call.before # 0 => ~ao.sticky)
    BY <1>1, <2>1, <2>11, <2>12, LastPageAdvances DEF ConvInv, CursorInv, CursorOK
  <2>15. PICK n \in Nat : <<n, Target>> \in WithPage
    BY <1>1, <2>11, <2>12, <2>13, <2>14, SteadyIsListed
  <2>16. WithPage \in SUBSET ((0..(MaxPages - 1)) \X Turns)
    BY <1>1, <2>11, <2>14, ListGrows
  <2>17. ASSUME NEW k \in Nat, NEW t \in Turns, <<k, t>> \in WithPage
         PROVE  k = n /\ t = Target
    <3>1. t \in met
      BY <1>1, <2>11, <2>14, <2>17, ListGrows
    <3>2. t = Target
      BY <2>13, <3>1
    <3> QED
      BY <1>1, <2>11, <2>13, <2>14, <2>15, <2>17, <3>2, ListGrows
  <2>18. n \in 0..(MaxPages - 1) /\ WithPage = {<<n, Target>>}
    BY <2>15, <2>16, <2>17, Bounds
  <2> QED
    BY <2>12, <2>13, <2>18 DEF IsAlone
<1>2. ConvInv /\ [Next]_vars => [A]_vars
  BY <1>1
<1> HIDE DEF A
<1>3. [A]_vars => [Answered("stop", {"AMBIGUOUS"}) =>
                    \/ Target \notin steady \/ met # {Target}
                    \/ handle = "provider"
                    \/ ao.lists = "byItem" /\ \E i, j \in Own(Target) : i # j]_vars
  BY DEF A, Twice
<1> QED
  BY ConvAlways, <1>2, <1>3, PTL DEF Spec, RefusalIsJustified

----------------------------------------------------------------------------
(* What the pages that Observe has left behind have shown. *)

\* Where AO lists a turn on every page with an item of it, the pages that were read
\* without finding the target have an item of another turn.
PassedInv ==
  /\ call.at = "session" => call.before = 0
  /\ call.at = "page" /\ call.before # 0 /\ ao.lists = "byItem" =>
       \E n \in 1..Len(items) : n >= call.before /\ items[n].turn # Target

LEMMA PassedStep ==
  ASSUME ConvInv, PassedInv, [Next]_vars
  PROVE  PassedInv'
<1>1. call \in Calls /\ TypeOK
  BY DEF ConvInv, TypeOK
<1>2. ASSUME call'.at \notin {"session", "page"} PROVE PassedInv'
  BY <1>2 DEF PassedInv
<1>3. ASSUME NEW answer \in Answers, NEW receipt \in Receipts \cup {"none"}, Return(answer, receipt)
      PROVE  PassedInv'
  BY <1>1, <1>2, <1>3, Returned
<1>4. ASSUME NEW delivery \in Answers, NEW receipt \in Receipts \cup {"none"},
             Observed(delivery, receipt)
      PROVE  PassedInv'
  <2>1. CASE call' = [call EXCEPT !.at = "live", !.before = 0, !.pages = 0]
    BY <1>1, <1>2, <2>1 DEF Calls
  <2> QED
    BY <1>3, <1>4, <2>1 DEF Observed, Answers
<1>5. CASE Begin
  BY <1>5, CallIs DEF Begin, PassedInv
<1>6. CASE ReadSession
  <2>1. CASE call' = [call EXCEPT !.at = "page"]
    <3>1. call'.at = "page" /\ call'.before = 0
      BY <1>1, <1>6, <2>1 DEF ReadSession, PassedInv, Calls
    <3> QED
      BY <3>1 DEF PassedInv
  <2> QED
    BY <1>4, <1>6, <2>1 DEF ReadSession, Answers
<1>7. CASE ReadPage
  <2> DEFINE page == Page(call.before)
             delivery == IF Target \in page.turns THEN Delivery(Target) ELSE "NOT_FOUND"
             receipt == IF delivery = "COMPLETED" THEN ReceiptForTurn(page.span, Target)
                        ELSE "none"
  <2>1. call.at = "page" /\ UNCHANGED <<aoVars, fixed>> /\ CursorOK(call.before) /\ TurnInv
    BY <1>7 DEF ReadPage, ConvInv, CursorInv, CursorOK
  <2>2. CASE Observed(delivery, receipt)
    <3>1. delivery \in Answers
      BY DEF Delivery, Answers
    <3>2. receipt \in Receipts \cup {"none"}
      BY <1>1, <2>1, ReceiptIs
    <3> HIDE DEF delivery, receipt
    <3> QED
      BY <1>4, <2>2, <3>1, <3>2
  <2>3. CASE Target \notin page.turns /\ page.more /\ NextPage(call, page)
    <3>1. call = [call EXCEPT !.live = {}] /\ {} \in SUBSET ((0..(MaxPages - 1)) \X Turns)
      BY <1>1, <2>1 DEF ConvInv, CursorInv, Calls
    <3>2. CASE Return("ERROR", "none")
      BY <1>3, <3>2 DEF Answers
    <3>3. CASE /\ call'.before = page.oldest /\ call'.before \in 2..(Len(items) - PageSize + 1)
               /\ call'.at = "page"
      <4>1. PICK newest, oldest \in Nat :
              /\ page.span = oldest..newest /\ newest <= Len(items) /\ oldest >= 1
              /\ newest > 0 => page.oldest = oldest
              /\ newest = 0 => page.oldest = 0
              /\ page.more <=> oldest > 1
              /\ oldest > 1 => oldest + PageSize = newest + 1
        BY <1>1, <2>1, PageSpan
      <4>2. page.oldest = oldest /\ oldest \in page.span /\ oldest \in 1..Len(items)
        BY <2>3, <3>3, <4>1, ItemTypes, <1>1, Bounds
      <4>3. status[Target] = "unborn" => \A i \in 1..Len(items) : items[i].turn # Target
        BY <2>1, TargetAssumption DEF TurnInv
      <4>4. ao.lists = "byItem" => items[oldest].turn # Target
        BY <2>3, <4>2, <4>3, TargetAssumption DEF Page
      <4>5. items' = items /\ ao' = ao
        BY <2>1 DEF aoVars, fixed
      <4> QED
        BY <3>3, <4>2, <4>4, <4>5 DEF PassedInv
    <3> QED
      BY <1>1, <2>1, <2>3, <3>1, <3>2, <3>3, NextPageIs
  <2> QED
    BY <1>7, <2>2, <2>3 DEF ReadPage
<1>8. CASE ReadLivePage
  <2>1. call.at = "live"
    BY <1>8 DEF ReadLivePage
  <2>2. CASE Return("ERROR", "none") \/ Return("AMBIGUOUS", "none")
    BY <1>3, <2>2 DEF Answers
  <2>3. CASE ~Return("ERROR", "none") /\ ~Return("AMBIGUOUS", "none")
    <3> DEFINE page == Page(call.before)
               c == [call EXCEPT !.live = WithPage]
    <3>1. c = [call EXCEPT !.live = @ \cup {<<call.pages, t>> : t \in page.turns \cap Live}]
      BY DEF WithPage
    <3>2. NextPage(c, page) \/ call' = [c EXCEPT !.at = "interrupt"]
      BY <1>8, <2>3, <3>1, Zenon DEF ReadLivePage
    <3>3. \/ call' = [c EXCEPT !.at = "interrupt"]
          \/ call' = [c EXCEPT !.before = page.oldest, !.pages = @ + 1]
      BY <2>3, <3>2 DEF NextPage
    <3> HIDE DEF page
    <3>4. call'.at \in {"interrupt", "live"}
      BY <1>1, <2>1, <3>3 DEF Calls
    <3> QED
      BY <1>2, <3>4
  <2> QED
    BY <2>2, <2>3
<1>9. CASE Interrupt \/ RequestFails
  BY <1>3, <1>9 DEF Interrupt, RequestFails, Answers
<1>10. CASE AOStep
  <2>1. call' = call /\ ao' = ao /\ Len(items) <= Len(items') /\ Len(items') \in Nat
        /\ Len(items) \in Nat
        /\ \A i \in 1..Len(items) : items'[i] = items[i]
    <3>1. PICK t \in Turns : TurnStarts(t) \/ TurnWrites(t) \/ TurnChanges(t)
      BY <1>10 DEF AOStep
    <3>2. UNCHANGED <<fixed, call>> /\ Len(items) \in Nat
      BY <1>1, <1>10, ItemTypes DEF AOStep
    <3>3. CASE TurnChanges(t)
      BY <3>2, <3>3 DEF TurnChanges, fixed
    <3>4. CASE TurnStarts(t) \/ TurnWrites(t)
      <4>1. PICK says \in Says : Append1(t, says)
        BY <3>4 DEF TurnStarts, TurnWrites, Says
      <4> QED
        BY <1>1, <3>2, <4>1, Appended DEF fixed
    <3> QED
      BY <3>1, <3>3, <3>4
  <2> QED
    BY <2>1 DEF PassedInv
<1>11. CASE UNCHANGED vars
  BY <1>11 DEF vars, aoVars, fixed, PassedInv
<1> QED
  BY <1>5, <1>6, <1>7, <1>8, <1>9, <1>10, <1>11 DEF Next, CallStep

LEMMA PassedAlways == Spec => [](ConvInv /\ PassedInv)
<1>1. Init => PassedInv
  <2>1. ASSUME Init PROVE call.at = "idle"
    BY <2>1, CallIs DEF Init, Calls
  <2> QED
    BY <2>1 DEF PassedInv
<1> QED
  BY <1>1, PassedStep, ConvInit, ConvStep, PTL DEF Spec

\* The page on which a completed target is found is the newest one, if nobody else
\* has written since the target began.
LEMMA FoundOnNewest ==
  ASSUME ConvInv, PassedInv, call.at = "page", Target \in Page(call.before).turns,
         Start(Target)..Len(items) \subseteq Own(Target),
         ao.lists = "byStart" => Start(Target) \in Newest
  PROVE  Page(call.before).span = Newest
<1> DEFINE b == call.before
<1>1. CursorOK(b) /\ TypeOK /\ TurnInv /\ Len(items) \in Nat /\ PageSize \in Nat \ {0}
  BY ItemTypes, Bounds DEF ConvInv, CursorInv, CursorOK
<1>2. PICK newest, oldest \in Nat :
        /\ Page(b).span = oldest..newest /\ oldest >= 1
        /\ Page(b).more <=> oldest > 1
        /\ oldest > 1 => oldest + PageSize = newest + 1
        /\ b = 0 \/ ao.sticky => newest = Len(items)
        /\ b # 0 /\ ~ao.sticky => newest + 1 = b
  BY <1>1, PageSpan
<1>3. PICK i \in oldest..newest :
        items[i].turn = Target /\ (ao.lists = "byStart" => First(i, Target))
  BY <1>1, <1>2, PageTurns, TargetAssumption
<1>4. PICK j \in 1..Len(items) : First(j, Target)
  BY <1>1, <1>3, PageTurns, TargetAssumption DEF TurnInv
<1>5. Start(Target) = j
  BY <1>1, <1>4, StartIs, TargetAssumption
<1>6. ASSUME b # 0, ~ao.sticky PROVE FALSE
  <2>1. i < b /\ b \in Nat /\ b <= Len(items) - PageSize + 1 /\ i \in 1..Len(items)
    BY <1>1, <1>2, <1>6 DEF CursorOK
  <2>2. CASE ao.lists = "byStart"
    <3>1. i = j
      BY <1>1, <1>3, <1>4, <2>2, StartIs, TargetAssumption
    <3> QED
      BY <1>1, <1>5, <2>1, <2>2, <3>1 DEF Newest
  <2>3. CASE ao.lists = "byItem"
    <3>1. PICK n \in 1..Len(items) : n >= b /\ items[n].turn # Target
      BY <1>6, <2>3 DEF PassedInv
    <3>2. j <= i
      BY <1>3, <1>4, <2>1 DEF First
    <3>3. n \in j..Len(items)
      BY <1>1, <1>4, <2>1, <3>1, <3>2
    <3> QED
      BY <1>5, <3>1, <3>3 DEF Own
  <2> QED
    BY <1>1, <2>2, <2>3 DEF TypeOK
<1>7. Page(b).span = IF Len(items) > PageSize THEN (Len(items) - PageSize + 1)..Len(items)
                     ELSE 1..Len(items)
  BY <1>1, <1>6 DEF Page
<1> QED
  BY <1>1, <1>7 DEF Newest

\* ExclusiveReceiptIsSeen: in a session that nobody else writes to after the turn has
\* started, a completed turn is judged by its last receipt, if that is on the newest page.
THEOREM LastReceiptCounts == Spec => ExclusiveReceiptIsSeen
<1> DEFINE Exclusive == /\ Answered("observe", {"COMPLETED"})
                        /\ Start(Target)..Len(items) \subseteq Own(Target)
                        /\ ao.lists = "byStart" => Start(Target) \in Newest
           Seen == \A i \in Newest : IsLastReceipt(i, Target) => call'.receipt = items[i].says
           A == Exclusive => Seen
<1>1. ASSUME ConvInv, PassedInv, [Next]_vars, Exclusive, NEW i \in Newest, IsLastReceipt(i, Target)
      PROVE  call'.receipt = items[i].says
  <2> DEFINE span == Page(call.before).span
             receipt == ReceiptForTurn(span, Target)
  <2>1. /\ call.at = "page" /\ CursorOK(call.before) /\ TypeOK
        /\ Target \in Page(call.before).turns /\ call'.receipt = receipt
    BY <1>1, ObserveEnds DEF Answered, ConvInv
  <2>2. span = Newest
    BY <1>1, <2>1, FoundOnNewest
  <2>3. i \in span /\ items[i].turn = Target /\ items[i].says \in Receipts
    BY <1>1, <2>2 DEF IsLastReceipt, Own
  <2>4. PICK k \in Own(Target) :
          /\ items[k].says = receipt /\ k \in span /\ items[k].says \in Receipts
          /\ \A j \in span : j \in Own(Target) /\ items[j].says \in Receipts => j <= k
    BY <2>1, <2>3, ReceiptIs
  <2>5. i <= k /\ ~(k > i) /\ i \in Nat /\ k \in Nat
    BY <1>1, <2>1, <2>3, <2>4, ItemTypes DEF IsLastReceipt, Own
  <2> QED
    BY <2>1, <2>4, <2>5
<1>2. ConvInv /\ PassedInv /\ [Next]_vars => [A]_vars
  BY <1>1
<1> QED
  BY PassedAlways, <1>2, PTL DEF Spec, ExclusiveReceiptIsSeen
=============================================================================
