------------------------------ MODULE Conversation ------------------------------
(***************************************************************************)
(* How the AO adapter reads a conversation (Observe, Stop and liveTurnIDs  *)
(* in internal/recovery/ao_http.go): page by page, newest first, one       *)
(* request per page, while turns start, write and end.                     *)
(*                                                                         *)
(* AO itself is known only from how these functions use it.  Which page    *)
(* lists a turn is not, so that it is open here: the page with its first   *)
(* item, or every page with an item of it.  AO may also ignore the cursor. *)
(***************************************************************************)
EXTENDS Naturals, Sequences

CONSTANTS Turns,
          Target,     \* the turn that the calls are about
          PageSize,   \* limit=500
          MaxPages,   \* how many pages are read before a call gives up, 1000
          MaxItems    \* bound on the length of the conversation

ASSUME TargetAssumption == Target \in Turns
ASSUME BoundsAssumption == {PageSize, MaxPages, MaxItems} \subseteq Nat \ {0}

VARIABLES items,    \* the conversation; a sequence number is an index
          status,   \* the state of each turn
          ao,       \* the open questions about AO
          handle,   \* "id", or "provider": a handle with the prefix provider:
          call,     \* the call in progress, or the last one
          steady,   \* turns that have been live ever since it began (auxiliary)
          met       \* turns that have been live at some time since (auxiliary)

aoVars == <<items, status, steady, met>>
fixed == <<ao, handle>>
vars == <<aoVars, fixed, call>>

\* A prompt is a user's message; it may quote a receipt.  An assistant's message
\* holds a receipt that matches the task, one that does not, or none.  The
\* messages of other turns are all such that they could be mistaken.
Says == {"prompt", "text", "match", "other"}
Receipts == {"match", "other"}
\* queued, running and recovered are "live"; mapTurnState does not know "odd".
Statuses == {"unborn", "live", "odd", "completed", "failed", "stopped"}
Answers == {"", "ERROR", "REFUSED", "AMBIGUOUS", "INTERRUPTED", "NO_SESSION", "NOT_FOUND",
            "ACCEPTED", "COMPLETED", "REJECTED", "STOPPED"}
Places == {"idle", "session", "page", "live", "interrupt", "done"}

Calls ==
  [op: {"observe", "stop"}, at: Places, before: 0..MaxItems, pages: 0..(MaxPages - 1),
   live: SUBSET ((0..(MaxPages - 1)) \X Turns), known: BOOLEAN,
   answer: Answers, receipt: Receipts \cup {"none"}]

TypeOK ==
  /\ items \in Seq([turn: Turns, says: Says]) /\ Len(items) <= MaxItems
  /\ status \in [Turns -> Statuses]
  /\ ao \in [lists: {"byStart", "byItem"}, sticky: BOOLEAN]
  /\ handle \in {"id", "provider"}
  /\ call \in Calls
  /\ steady \subseteq met /\ met \subseteq Turns

Call(op) ==
  [op |-> op, at |-> "session", before |-> 0, pages |-> 0, live |-> {},
   known |-> status[Target] # "unborn", answer |-> "", receipt |-> "none"]

Init ==
  /\ items = <<>>
  /\ status = [t \in Turns |-> "unborn"]
  /\ ao \in [lists: {"byStart", "byItem"}, sticky: BOOLEAN]
  /\ handle \in {"id", "provider"}
  /\ call = [Call("observe") EXCEPT !.at = "idle"]
  /\ steady = {} /\ met = {}

----------------------------------------------------------------------------
(* AO. *)

Live == {t \in Turns : status[t] = "live"}
Start(t) == CHOOSE i \in 1..Len(items) :
              items[i].turn = t /\ \A j \in 1..(i - 1) : items[j].turn # t

\* The page before a sequence number; 0 asks for the newest page.
Page(before) ==
  LET newest == IF before = 0 \/ ao.sticky THEN Len(items) ELSE before - 1
      oldest == IF newest > PageSize THEN newest - PageSize + 1 ELSE 1
      span == oldest..newest
  IN [span |-> span, more |-> oldest > 1,
      oldest |-> IF newest = 0 THEN 0 ELSE oldest,
      turns |-> {t \in Turns : /\ status[t] # "unborn"
                               /\ IF ao.lists = "byStart" THEN Start(t) \in span
                                  ELSE \E i \in span : items[i].turn = t}]

Becomes(f) ==
  /\ status' = f
  /\ steady' = {t \in steady : f[t] = "live"}
  /\ met' = IF call.at = "idle" THEN {} ELSE met \cup {t \in Turns : f[t] = "live"}

Append1(t, says) ==
  /\ Len(items) < MaxItems
  /\ items' = Append(items, [turn |-> t, says |-> says])

TurnStarts(t) ==
  /\ status[t] = "unborn"
  /\ Append1(t, "prompt")
  /\ Becomes([status EXCEPT ![t] = "live"])

TurnWrites(t) ==
  /\ status[t] = "live"
  /\ \E says \in IF t = Target THEN {"text", "match", "other"} ELSE {"match"} :
       Append1(t, says)
  /\ Becomes(status)

TurnChanges(t) ==
  /\ \/ /\ status[t] = "live"
        /\ \E s \in {"odd", "completed", "failed", "stopped"} : Becomes([status EXCEPT ![t] = s])
     \/ status[t] = "odd" /\ Becomes([status EXCEPT ![t] = "live"])
  /\ UNCHANGED items

\* An interrupt is session-wide.
Interrupted == [t \in Turns |-> IF status[t] = "live" THEN "stopped" ELSE status[t]]

\* What happens between two calls may as well happen before the first request of
\* the second one.
AOStep ==
  /\ call.at # "done"
  /\ \E t \in Turns : TurnStarts(t) \/ TurnWrites(t) \/ TurnChanges(t)
  /\ UNCHANGED <<fixed, call>>

----------------------------------------------------------------------------
(* Observe, also as the first part of Stop. *)

Begin ==
  /\ call.at \in {"idle", "done"}
  /\ \E op \in {"observe", "stop"} : call' = Call(op)
  /\ steady' = Live /\ met' = Live
  /\ UNCHANGED <<items, status, fixed>>

Return(answer, receipt) ==
  call' = [Call(call.op) EXCEPT !.at = "done", !.answer = answer, !.receipt = receipt]

\* Stop goes on when its Observe says ACCEPTED, and starts over with the pages.
Observed(delivery, receipt) ==
  IF call.op = "observe" THEN Return(delivery, receipt)
  ELSE IF delivery = "ACCEPTED"
       THEN call' = [call EXCEPT !.at = "live", !.before = 0, !.pages = 0]
       ELSE Return("REFUSED", "none")

ReadSession ==
  /\ call.at = "session"
  /\ \/ call' = [call EXCEPT !.at = "page"]
     \/ Observed("NO_SESSION", "none")
  /\ UNCHANGED <<aoVars, fixed>>

Delivery(t) ==
  CASE status[t] = "live"      -> "ACCEPTED"
    [] status[t] = "completed" -> "COMPLETED"
    [] status[t] = "failed"    -> "REJECTED"
    [] status[t] = "stopped"   -> "STOPPED"
    [] OTHER                   -> "NOT_FOUND"

\* Mutant: whatever the last message of the turn on the page says.
ReceiptForTurn_LastMessage(span, t) ==
  LET own == {i \in span : items[i].turn = t}
  IN IF own = {} THEN "none"
     ELSE LET last == items[CHOOSE i \in own : \A j \in own : j <= i].says
          IN IF last \in Receipts THEN last ELSE "none"

\* The newest receipt that the assistant wrote in the turn, on this page.
ReceiptForTurn(span, t) ==
  LET found == {i \in span : items[i].turn = t /\ items[i].says \in Receipts}
  IN IF found = {} THEN "none" ELSE items[CHOOSE i \in found : \A j \in found : j <= i].says

\* Mutant: any number of pages is read.
NextPage_NoLimit(c, page) ==
  IF page.oldest = 0 \/ (c.before > 0 /\ page.oldest >= c.before)
  THEN Return("ERROR", "none")
  ELSE call' = [c EXCEPT !.before = page.oldest, !.pages = @ + 1]

\* On to the page before, unless AO does not advance or too many were read.
NextPage(c, page) ==
  IF \/ page.oldest = 0 \/ (c.before > 0 /\ page.oldest >= c.before)
     \/ c.pages + 1 = MaxPages
  THEN Return("ERROR", "none")
  ELSE call' = [c EXCEPT !.before = page.oldest, !.pages = @ + 1]

\* Mutant: only the newest page is looked at.
ReadPage_NewestOnly ==
  /\ call.at = "page"
  /\ LET page == Page(call.before)
         delivery == IF Target \in page.turns THEN Delivery(Target) ELSE "NOT_FOUND"
     IN Observed(delivery, IF delivery = "COMPLETED"
                           THEN ReceiptForTurn(page.span, Target) ELSE "none")
  /\ UNCHANGED <<aoVars, fixed>>

\* One page of Observe.  The turn is found by either kind of handle.
ReadPage ==
  /\ call.at = "page"
  /\ LET page == Page(call.before)
         delivery == IF Target \in page.turns THEN Delivery(Target) ELSE "NOT_FOUND"
     IN IF Target \notin page.turns /\ page.more
        THEN NextPage(call, page)
        ELSE Observed(delivery, IF delivery = "COMPLETED"
                                THEN ReceiptForTurn(page.span, Target) ELSE "none")
  /\ UNCHANGED <<aoVars, fixed>>

----------------------------------------------------------------------------
(* The rest of Stop. *)

\* The only entry, by its id: a turn that is listed on two pages is two entries, and
\* the provider's name of a turn never matches.
IsAlone(live) == handle = "id" /\ \E n \in 0..(MaxPages - 1) : live = {<<n, Target>>}

\* Mutant: live turns are collected from the newest page only.
ReadLivePage_NewestOnly ==
  /\ call.at = "live"
  /\ LET live == {<<0, t>> : t \in Page(0).turns \cap Live}
     IN IF IsAlone(live)
        THEN call' = [call EXCEPT !.at = "interrupt", !.live = live]
        ELSE Return("AMBIGUOUS", "none")
  /\ UNCHANGED <<aoVars, fixed>>

\* One page of liveTurnIDs; after the last one the target has to be the only entry
\* of the list.
ReadLivePage ==
  /\ call.at = "live"
  /\ LET page == Page(call.before)
         c == [call EXCEPT !.live = @ \cup {<<call.pages, t>> : t \in page.turns \cap Live}]
     IN \/ page.more /\ NextPage(c, page)
        \/ ~page.more /\ IsAlone(c.live) /\ call' = [c EXCEPT !.at = "interrupt"]
        \/ ~page.more /\ ~IsAlone(c.live) /\ Return("AMBIGUOUS", "none")
  /\ UNCHANGED <<aoVars, fixed>>

\* The interrupt names no turn.
Interrupt ==
  /\ call.at = "interrupt"
  /\ Becomes(Interrupted)
  /\ \E answer \in {"INTERRUPTED", "ERROR"} : Return(answer, "none")
  /\ UNCHANGED <<items, fixed>>

\* A request fails, or its answer is no 2xx or cannot be decoded.
RequestFails ==
  /\ call.at \notin {"idle", "done"}
  /\ Return("ERROR", "none")
  /\ UNCHANGED <<aoVars, fixed>>

CallStep == Begin \/ ReadSession \/ ReadPage \/ ReadLivePage \/ Interrupt \/ RequestFails

Next == CallStep \/ AOStep

Spec == Init /\ [][Next]_vars

----------------------------------------------------------------------------
(* Properties. *)

Answered(op, answers) == call.at # "done" /\ call'.at = "done" /\ call.op = op /\ call'.answer \in answers

\* When Stop interrupts, no turn but its target has been live for as long as Stop has
\* been running: only what starts, or comes back, while Stop reads can be hit
\* by the session-wide interrupt (Stop, liveTurnIDs).
StopSparesRunningTurns ==
  call.at = "interrupt" => steady \subseteq {Target} /\ Target \in met

\* NOT_FOUND means that the turn was not there when Observe began, or is in a state
\* that AO has and the adapter does not know: never that it was on a page that
\* was not read, nor that AO ignored the cursor (Observe, mapTurnState).
NotFoundIsHistory ==
  [][Answered("observe", {"NOT_FOUND"}) => ~call.known \/ status[Target] = "odd"]_vars

Own(t) == {i \in 1..Len(items) : items[i].turn = t}
Newest == {i \in 1..Len(items) : i + PageSize > Len(items)}

\* Item i is the last that the assistant wrote in turn t about the outcome.
IsLastReceipt(i, t) ==
  /\ i \in Own(t) /\ items[i].says \in Receipts
  /\ \A j \in Own(t) : j > i => items[j].says \notin Receipts

\* In a session that nobody else writes to after the turn has started, a turn is
\* judged by its last receipt, as long as that is on the newest page, together
\* with the start of the turn if AO lists it there.  Otherwise the receipt may
\* count as missing (Observe, receiptForTurn).
ExclusiveReceiptIsSeen ==
  [][/\ Answered("observe", {"COMPLETED"})
     /\ Start(Target)..Len(items) \subseteq Own(Target)
     /\ ao.lists = "byStart" => Start(Target) \in Newest
     => \A i \in Newest : IsLastReceipt(i, Target) => call'.receipt = items[i].says]_vars

\* A receipt that is reported was written by the assistant in this very turn,
\* however the pages were cut (receiptForTurn).
ReceiptIsOwn ==
  [][Answered("observe", {"COMPLETED"}) /\ call'.receipt # "none" =>
       \E i \in Own(Target) : items[i].says = call'.receipt]_vars

\* Stop refuses for ambiguity only if the target was not live all the time, another
\* turn was live meanwhile, the handle is the provider's, or AO lists a turn on
\* every page that it has items on (Stop, liveTurnIDs).
RefusalIsJustified ==
  [][Answered("stop", {"AMBIGUOUS"}) =>
       \/ Target \notin steady \/ met # {Target}
       \/ handle = "provider"
       \/ ao.lists = "byItem" /\ \E i, j \in Own(Target) : i # j]_vars
=============================================================================
