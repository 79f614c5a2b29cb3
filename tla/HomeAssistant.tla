---------------------------- MODULE HomeAssistant ----------------------------
(***************************************************************************)
(* The requests the proxy's read, check, reload and health endpoints make  *)
(* of Home Assistant (services/ha_client.py, services/reload_service.py,   *)
(* api/ha_read.py, api/reload.py, api/health.py). They share nothing in    *)
(* the proxy, so one at a time is enough; but Home Assistant goes on with  *)
(* a request its caller gave up. saved counts the versions of the          *)
(* configuration files, loaded is the one Home Assistant runs with.        *)
(***************************************************************************)
EXTENDS Naturals

CONSTANTS
  Services, \* values of settings.allowed_ha_services
  Bad,      \* versions of the configuration that its check rejects
  None,     \* no value
  MaxEdits  \* bound on the versions

Reloads == {"automations", "scripts", "quick_reload_all"}
Reads   == {"config", "states", "entity"}
Calls   == Reads \cup Reloads \cup {"check", "health"}

\* Bodies of a 200: a JSON object, in which a check says that the configuration
\* is valid or not; an object with a field of a type that HaConfigResponse does
\* not take; a list of objects or of other things; no JSON; nothing. Then 404,
\* other errors that are the client's, and the server's.
Objects == {"valid", "invalid"}
Bodies  == Objects \cup {"odd", "list", "mixed", "text", "empty"}
Replies == Bodies \cup {"missing", "rejected", "broken"}

\* The codes of the errors, and what stands for an exception that none of the
\* endpoint's handlers takes.
Codes == {"ha.token_not_configured", "ha.service_not_allowed", "ha.request_timeout",
          "ha.request_failed", "ha.invalid_response", "ha.entity_not_found",
          "ha.not_found", "unhandled"}

ASSUME DataAssumption ==
  /\ MaxEdits \in Nat /\ Bad \subseteq 0..MaxEdits
  /\ None \notin Codes \cup Replies

VARIABLES
  saved, loaded, \* versions of the configuration
  token,         \* settings.ha_token is there
  allowed,       \* settings.allowed_ha_services
  pc,            \* "idle" or "sent"
  call,          \* the latest call
  asked,         \* history: the version saved when it was made
  performed,     \* history: Home Assistant did what it asks
  reply,         \* the answer on its way, or None
  late,          \* reloads whose caller has gone but that may still happen
  result         \* what the call returns, or None

settings == <<token, allowed>>
vars == <<saved, loaded, settings, pc, call, asked, performed, reply, late, result>>

ResultType == [ok : BOOLEAN, code : Codes \cup {None}, retryable : BOOLEAN]

Ok == [ok |-> TRUE, code |-> None, retryable |-> FALSE]
NotOk == [ok |-> FALSE, code |-> None, retryable |-> FALSE]
Error(code, again) == [ok |-> FALSE, code |-> code, retryable |-> again]

\* ping turns every failure into a FALSE.
Failure(c, code, again) == IF c = "health" THEN NotOk ELSE Error(code, again)

Unhandled == Error("unhandled", FALSE)

Init ==
  /\ saved = 0 /\ loaded = 0
  /\ token \in BOOLEAN /\ allowed \in Services
  /\ pc = "idle" /\ call = "health"
  /\ asked = 0 /\ performed = FALSE
  /\ reply = None /\ late = {} /\ result = None

-----------------------------------------------------------------------------
(* What an answer becomes *)

\* _service_name_for_action
Service == [automations |-> "automation.reload", scripts |-> "script.reload",
            quick_reload_all |-> "homeassistant.reload_all"]

\* Variant: nothing said against it is enough.
NotInvalid(r) == r \in Objects \cup {"empty"} /\ r # "invalid"

\* check_config of the reload service; an empty body is taken for {}.
SaysValid(r) == r = "valid"

ObjectList(r) == IF r = "mixed" THEN Error("ha.invalid_response", FALSE) ELSE Ok

\* A body that is no JSON fails outside the try of _get_json and _post_json, an
\* empty one only after a get; one that makes no HaConfigResponse, outside that of
\* get_ha_config. get_config knows no 404.
Parsed(r) ==
  IF \/ r = "text"
     \/ r = "empty" /\ call \in Reads
     \/ r = "odd" /\ call = "config" THEN Unhandled
  ELSE IF call \in Reloads THEN Ok
  ELSE IF call = "states" /\ r \in {"list", "mixed"} THEN ObjectList(r)
  ELSE IF call = "states" \/ r \in {"list", "mixed"} THEN Error("ha.invalid_response", FALSE)
  ELSE IF call = "check" /\ ~SaysValid(r) THEN NotOk
  ELSE Ok

\* ping wants no more than a 200.
Reachable(r) == IF r \in Bodies THEN Ok ELSE NotOk

\* The rest calls raise_for_status.
Outcome(r) ==
  IF call = "health" THEN Reachable(r)
  ELSE IF r \in Bodies THEN Parsed(r)
  ELSE IF r = "missing" /\ call = "entity" THEN Error("ha.entity_not_found", FALSE)
  ELSE IF r = "missing" /\ call = "states" THEN Error("ha.not_found", FALSE)
  ELSE Error("ha.request_failed", r = "broken")

\* Variant: a timeout is not worth another try.
NoRetryAfterTimeout(code) == Failure(call, code, code = "ha.request_failed")

\* Variant: a timeout is taken for a slow success.
SlowIsOk(code) ==
  IF code = "ha.request_timeout" THEN Ok ELSE Failure(call, code, TRUE)

\* Variant: nothing says whether to try again.
Unsaid(code) == [Failure(call, code, TRUE) EXCEPT !.retryable = None]

\* What an httpx error becomes.
NoAnswer(code) == Failure(call, code, TRUE)

-----------------------------------------------------------------------------
(* The calls *)

End(r) ==
  /\ pc' = "idle"
  /\ reply' = None
  /\ result' = r

\* A post without a timeout of its own has none: client.post(timeout=None).
Limited(c) == c \in Reads \cup {"health", "quick_reload_all"}

Start(c) ==
  /\ pc = "idle"
  /\ call' = c
  /\ asked' = saved
  /\ performed' = FALSE
  /\ IF c \in Reloads /\ Service[c] \notin allowed
       THEN End(Error("ha.service_not_allowed", FALSE))
     ELSE IF ~token THEN End(Failure(c, "ha.token_not_configured", FALSE))
     ELSE \/ pc' = "sent" /\ reply' = None /\ result' = None
          \/ c = "entity" /\ End(Unhandled)  \* httpx: no URL with this entity_id
  /\ UNCHANGED <<saved, loaded, settings, late>>

Waiting ==
  /\ pc = "sent"
  /\ UNCHANGED <<saved, settings, call, asked>>

\* Home Assistant gets the request and answers it. An error of its own may come
\* before or after it did what was asked.
Perform(r) ==
  /\ Waiting /\ reply = None
  /\ reply' = r
  /\ call = "check" /\ r \in Objects => (r = "valid") = (saved \notin Bad)
  /\ performed' \in (IF r = "broken" THEN BOOLEAN ELSE {r \in Bodies})
  /\ loaded' = IF performed' /\ call = "quick_reload_all" THEN saved ELSE loaded
  /\ UNCHANGED <<pc, late, result>>

Receive ==
  /\ Waiting /\ reply # None
  /\ End(Outcome(reply))
  /\ UNCHANGED <<loaded, performed, late>>

\* The caller is gone; what Home Assistant has not done it may still do.
GiveUp(code) ==
  /\ End(NoAnswer(code))
  /\ late' \in IF call \in Reloads /\ reply = None THEN {late, late \cup {call}} ELSE {late}
  /\ UNCHANGED <<loaded, performed>>

TimesOut ==
  /\ Waiting
  /\ Limited(call)
  /\ GiveUp("ha.request_timeout")

ConnectionFails ==
  /\ Waiting
  /\ GiveUp("ha.request_failed")

-----------------------------------------------------------------------------
(* The world outside *)

PerformLate(c) ==
  /\ c \in late
  /\ late' = late \ {c}
  /\ loaded' = IF c = "quick_reload_all" THEN saved ELSE loaded
  /\ UNCHANGED <<saved, settings, pc, call, asked, performed, reply, result>>

Edit ==
  /\ saved < MaxEdits
  /\ saved' = saved + 1
  /\ UNCHANGED <<loaded, settings, pc, call, asked, performed, reply, late, result>>

Next ==
  \/ \E c \in Calls : Start(c)
  \/ \E r \in Replies : Perform(r)
  \/ Receive \/ TimesOut \/ ConnectionFails
  \/ \E c \in Reloads : PerformLate(c)
  \/ Edit

Spec == Init /\ [][Next]_vars

-----------------------------------------------------------------------------
(* Properties *)

TypeOK ==
  /\ saved \in 0..MaxEdits /\ loaded \in 0..MaxEdits /\ asked \in 0..MaxEdits
  /\ token \in BOOLEAN /\ allowed \in Services
  /\ pc \in {"idle", "sent"} /\ call \in Calls
  /\ performed \in BOOLEAN
  /\ reply \in Replies \cup {None}
  /\ late \subseteq Reloads
  /\ result \in ResultType \cup {None}

\* When a reload of everything is answered ok, Home Assistant runs with files at
\* least as new as those of the time of the call, whatever late reloads of other
\* calls did meanwhile.
OkMeansLoaded ==
  pc = "idle" /\ result # None /\ call = "quick_reload_all" /\ result.ok =>
    loaded >= asked

\* An error of a reload that is said not to be retryable is one that Home
\* Assistant has not performed, so that giving up loses nothing; the exception is
\* an answer that is no JSON.
FinalErrorMeansNotDone ==
  pc = "idle" /\ result # None /\ call \in Reloads /\ ~result.ok =>
    \/ result.retryable
    \/ result.code = "unhandled"
    \/ ~performed

\* The configuration check passes only if a version that was saved during the
\* call is accepted.
CheckedIsAccepted ==
  pc = "idle" /\ result # None /\ call = "check" /\ result.ok =>
    \E v \in asked..saved : v \notin Bad
=============================================================================
