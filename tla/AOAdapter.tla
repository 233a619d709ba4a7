-------------------------------- MODULE AOAdapter --------------------------------
(***************************************************************************)
(* AO (the external agent daemon) as the recovery code sees it through the *)
(* loopback HTTP adapter, internal/recovery/ao_http.go.                    *)
(*                                                                         *)
(* Every POST of the task text is one element of Turns; posts[t] is its    *)
(* fate.  A POST whose client gave up may stay on the "wire" and be        *)
(* processed by AO later, or never.  AO is modelled WITHOUT the            *)
(* clientMessageId deduplication it may offer: that a task is delivered at *)
(* most once has to follow from the recovery code alone.                   *)
(***************************************************************************)
EXTENDS Naturals, DeliveryTypes

CONSTANTS FaultKinds,      \* what may go wrong, see Kinds
          ForeignClient,   \* may another AO client use the session?
          Contract         \* which implementations of the Go interface AO

Kinds == {"crash", "save", "load", "release", "context", "artifact",
          "preflight", "network", "refuse", "late", "odd", "session"}

ASSUME FaultKindsAssumption == FaultKinds \subseteq Kinds
\* The HTTP adapter only; also replies of the interface that the adapter never
\* gives, when they are true of AO; or whenever they are allowed by their type.
Contracts == {"adapter", "truthful", "any"}

ASSUME AOSwitchesAssumption == ForeignClient \in BOOLEAN /\ Contract \in Contracts

VARIABLES posts,    \* posts[t]: the fate of POST t
          session,  \* does AO still know the session?
          foreign   \* is a turn of another client live in the session?

aoVars == <<posts, session, foreign>>

\* queued, running and recovered turns are "live"; "odd" is a turn in a state
\* the adapter has no mapping for; the three completed fates differ in the
\* TASK_RECEIPT line of the transcript: matching, not matching, absent.
Ended == {"good", "bad", "bare", "failed", "stopped"}
TurnStates == {"live", "odd"} \cup Ended
PostStates == {"unsent", "void", "wire", "steered"} \cup TurnStates

\* AO has, or may still get, the text of POST t.
Possible(t) == posts[t] \notin {"unsent", "void"}
HasTurn(t) == posts[t] \in TurnStates
Busy == foreign \/ \E t \in Turns : posts[t] \in {"live", "odd"}

AOTypeOK ==
  /\ posts \in [Turns -> PostStates]
  /\ session \in BOOLEAN
  /\ foreign \in BOOLEAN

AOInit ==
  /\ posts = [t \in Turns |-> "unsent"]
  /\ session = TRUE
  /\ foreign = FALSE

\* steer-or-send: a busy session gets the text steered into its running turn.
AcceptedAs == IF Busy THEN "steered" ELSE "live"

----------------------------------------------------------------------------
(* The adapter.  Each call returns the set of replies AO's state allows. *)

ObsError == Obs("ERROR", "none")
NetworkError(err) == IF "network" \in FaultKinds THEN {err} ELSE {}

\* mapTurnState, with receiptForTurn for a completed turn.
ObsOfTurn(state) ==
  CASE state = "live"    -> Obs("ACCEPTED", "none")
    [] state = "good"    -> Obs("COMPLETED", "verified")
    [] state = "bad"     -> Obs("COMPLETED", "refuted")
    [] state = "bare"    -> Obs("COMPLETED", "missing")
    [] state = "failed"  -> Obs("REJECTED", "none")
    [] state = "stopped" -> Obs("STOPPED", "none")
    [] OTHER             -> Obs("NOT_FOUND", "none")

\* May the interface say that a human has stopped the work, that the delivery is
\* reserved but not accepted yet, or that its state is not known?
MaySay(delivery) ==
  \/ Contract = "any"
  \/ /\ Contract = "truthful"
     /\ CASE delivery = "HUMAN_STOPPED" ->
               \A t \in Turns : posts[t] \notin {"wire", "steered", "live", "odd"}
          [] delivery = "RESERVED"      -> \E t \in Turns : posts[t] = "wire"
          [] OTHER                      -> TRUE

\* Observations of the AO interface that the HTTP adapter never returns.
ContractObs ==
  {Obs(d, "none") : d \in {s \in {"HUMAN_STOPPED", "RESERVED", "UNKNOWN"} : MaySay(s)}}

ObserveReplies(turn) ==
  NetworkError(ObsError) \cup
  (IF ~session THEN {Obs("NO_SESSION", "none")}
   ELSE ContractObs \cup
        {IF turn = NoTurn THEN Obs("NOT_FOUND", "none") ELSE ObsOfTurn(posts[turn])})

\* steerOrSend reports an accepted delivery whose turn failed or is unknown to
\* mapTurnState as accepted.
RecoverState(state) ==
  LET d == ObsOfTurn(state).delivery
  IN IF d \in {"NOT_FOUND", "REJECTED"} THEN "ACCEPTED" ELSE d

RecoverError == Receipt("error", "none", NoTurn)

\* Mutant: an outcome "steered" is not told from "sent".
FoundByRecover_SteeredIsSent ==
  {Receipt("sent", RecoverState(posts[t]), t) :
     t \in {u \in Turns : HasTurn(u) \/ posts[u] = "steered"}}

FoundByRecover ==
  {Receipt("sent", RecoverState(posts[t]), t) : t \in {u \in Turns : HasTurn(u)}} \cup
  {Receipt("steered", "none", NoTurn) : t \in {u \in Turns : posts[u] = "steered"}}

\* RecoverOnly: the text is not sent; AO looks the delivery id up, and every
\* answer but 2xx is an error.
RecoverReplies ==
  NetworkError(RecoverError) \cup
  (IF ~session \/ FoundByRecover = {} THEN {RecoverError} ELSE FoundByRecover) \cup
  (CASE Contract = "any"      -> {Receipt("sent", d, NoTurn) : d \in {"ACCEPTED", "NOT_FOUND"}}
     [] Contract = "truthful" -> {Receipt("sent", "NOT_FOUND", NoTurn)}
     [] OTHER                 -> {})

\* Preflight: identity readback, not terminated, controller "ready".
PreflightReplies ==
  (IF session /\ ~Busy THEN {TRUE} ELSE {FALSE}) \cup
  (IF {"preflight", "network"} \cap FaultKinds # {} THEN {FALSE} ELSE {})

\* Send: what the client is told, and what becomes of the POST.
Outcome(reply, fate) == [reply |-> reply, fate |-> fate]

SendOutcomes ==
  (IF session THEN {Outcome(IF Busy THEN "steered" ELSE "sent", AcceptedAs)}
   ELSE {Outcome("notAccepted", "void")}) \cup
  (IF "refuse" \in FaultKinds THEN {Outcome("notAccepted", "void")} ELSE {}) \cup
  (IF "network" \in FaultKinds
   THEN {Outcome("error", "void")} \cup (IF session THEN {Outcome("error", AcceptedAs)} ELSE {})
   ELSE {}) \cup
  (IF "late" \in FaultKinds THEN {Outcome("error", "wire")} ELSE {})

\* Stop, before the interrupt: the turn is live and the only live one.
StopAllowed(turn) ==
  /\ session /\ ~foreign
  /\ {t \in Turns : posts[t] = "live"} = {turn}

\* conversation/interrupt is session-wide: it names no turn.
Interrupted == [t \in Turns |-> IF posts[t] = "live" THEN "stopped" ELSE posts[t]]

----------------------------------------------------------------------------
(* What AO and its other clients do on their own. *)

LateAccept(t) ==
  /\ posts[t] = "wire" /\ session
  /\ posts' = [posts EXCEPT ![t] = AcceptedAs]
  /\ UNCHANGED <<session, foreign>>

LateLoss(t) ==
  /\ posts[t] = "wire"
  /\ posts' = [posts EXCEPT ![t] = "void"]
  /\ UNCHANGED <<session, foreign>>

TurnEnds(t) ==
  /\ posts[t] \in {"live", "odd"}
  /\ \E s \in Ended : posts' = [posts EXCEPT ![t] = s]
  /\ UNCHANGED <<session, foreign>>

TurnTurnsOdd(t) ==
  /\ "odd" \in FaultKinds
  /\ posts[t] = "live"
  /\ posts' = [posts EXCEPT ![t] = "odd"]
  /\ UNCHANGED <<session, foreign>>

SessionLost ==
  /\ "session" \in FaultKinds
  /\ session
  /\ session' = FALSE
  /\ UNCHANGED <<posts, foreign>>

ForeignStarts ==
  /\ ForeignClient /\ ~Busy /\ session
  /\ foreign' = TRUE
  /\ UNCHANGED <<posts, session>>

ForeignEnds ==
  /\ foreign
  /\ foreign' = FALSE
  /\ UNCHANGED <<posts, session>>

AONext ==
  \/ \E t \in Turns : LateAccept(t) \/ LateLoss(t) \/ TurnEnds(t) \/ TurnTurnsOdd(t)
  \/ SessionLost \/ ForeignStarts \/ ForeignEnds
=============================================================================
