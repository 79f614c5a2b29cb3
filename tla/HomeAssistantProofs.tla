------------------------- MODULE HomeAssistantProofs -------------------------
(***************************************************************************)
(* What the answers of the Home Assistant endpoints mean, for every bound  *)
(* on the edits, every set of rejected versions and every allowlist.       *)
(***************************************************************************)
EXTENDS HomeAssistant, TLAPS

\* What the answer on its way says is so, and stays so: later reloads only load
\* newer versions.
ReplyInv ==
  /\ asked <= saved /\ loaded <= saved
  /\ pc = "idle" => reply = None
  /\ pc = "sent" => result = None
  /\ pc = "sent" /\ reply = None => ~performed
  /\ reply \in {"missing", "rejected"} => ~performed
  /\ reply \in Bodies /\ call = "quick_reload_all" => loaded >= asked
  /\ reply = "valid" /\ call = "check" => \E v \in asked..saved : v \notin Bad

HaInv ==
  TypeOK /\ ReplyInv /\ OkMeansLoaded /\ FinalErrorMeansNotDone /\ CheckedIsAccepted

-----------------------------------------------------------------------------

LEMMA NoneIsNoReply ==
  /\ None \notin Replies /\ None \notin Bodies
  /\ None \notin {"missing", "rejected"} /\ None # "valid"
BY DataAssumption DEF Replies, Bodies, Objects

\* What the results are.
LEMMA ErrorFacts ==
  ASSUME NEW code \in Codes, NEW again \in BOOLEAN
  PROVE  /\ Error(code, again) \in ResultType
         /\ ~Error(code, again).ok
         /\ Error(code, again).code = code
         /\ Error(code, again).retryable = again
BY DEF Error, ResultType

LEMMA OkFacts ==
  /\ Ok \in ResultType /\ Ok.ok
  /\ NotOk \in ResultType /\ ~NotOk.ok /\ NotOk.code \notin Codes
BY DataAssumption DEF Ok, NotOk, ResultType, Codes

\* What a call that failed returns.
LEMMA FailureFacts ==
  ASSUME NEW c \in Calls, NEW code \in Codes, NEW again \in BOOLEAN
  PROVE  /\ Failure(c, code, again) \in ResultType
         /\ ~Failure(c, code, again).ok
         /\ c # "health" => Failure(c, code, again).code = code
         /\ c # "health" => Failure(c, code, again).retryable = again
<1>1. CASE c = "health"
  BY <1>1, OkFacts DEF Failure
<1>2. CASE c # "health"
  BY <1>2, ErrorFacts DEF Failure
<1> QED
  BY <1>1, <1>2

\* What a body becomes.
LEMMA ParsedFacts ==
  ASSUME NEW r \in Bodies, call \in Calls
  PROVE  /\ Parsed(r) \in {Unhandled, Ok, NotOk, Error("ha.invalid_response", FALSE)}
         /\ call \in Reloads => Parsed(r) \in {Unhandled, Ok}
         /\ call = "check" /\ Parsed(r) = Ok => r = "valid"
<1>1. /\ Unhandled # Ok /\ Unhandled # NotOk /\ Ok # NotOk
      /\ Unhandled # Error("ha.invalid_response", FALSE)
      /\ Ok # Error("ha.invalid_response", FALSE)
  BY OkFacts, ErrorFacts DEF Unhandled, Codes
<1> DEFINE Fails == \/ r = "text"
                    \/ r = "empty" /\ call \in Reads
                    \/ r = "odd" /\ call = "config"
<1>2. CASE Fails
  BY <1>1, <1>2 DEF Parsed, Reloads
<1>3. CASE ~Fails
  <2>1. CASE call \in Reloads
    BY <1>1, <1>3, <2>1 DEF Parsed, Reloads
  <2>2. CASE call \notin Reloads
    BY <1>1, <1>3, <2>2 DEF Parsed, ObjectList, SaysValid
  <2> QED
    BY <2>1, <2>2
<1> QED
  BY <1>2, <1>3

\* What the outcome of an answer is, by the answer.
LEMMA OutcomeFacts ==
  ASSUME NEW r \in Replies, call \in Calls
  PROVE  /\ Outcome(r) \in ResultType
         /\ call = "quick_reload_all" /\ Outcome(r).ok => r \in Bodies
         /\ call = "check" /\ Outcome(r).ok => r = "valid"
         /\ call \in Reloads /\ ~Outcome(r).ok =>
              \/ Outcome(r).retryable
              \/ Outcome(r).code = "unhandled"
              \/ r \in {"missing", "rejected"}
<1>1. CASE call = "health"
  <2>1. Outcome(r) \in {Ok, NotOk}
    BY <1>1 DEF Outcome, Reachable
  <2> QED
    BY <1>1, <2>1, OkFacts DEF Reloads
<1>2. CASE call # "health" /\ r \notin Bodies
  <2>1. r \in {"missing", "rejected", "broken"}
    BY <1>2 DEF Replies
  <2>2. CASE r = "missing" /\ call \in {"entity", "states"}
    <3>1. PICK code \in {"ha.entity_not_found", "ha.not_found"} :
            Outcome(r) = Error(code, FALSE)
      BY <1>2, <2>2 DEF Outcome
    <3>2. code \in Codes
      BY DEF Codes
    <3> QED
      BY <2>2, <3>1, <3>2, ErrorFacts
  <2>3. CASE ~ (r = "missing" /\ call \in {"entity", "states"})
    <3>1. Outcome(r) = Error("ha.request_failed", r = "broken")
      BY <1>2, <2>3 DEF Outcome
    <3>2. /\ Outcome(r) \in ResultType /\ ~Outcome(r).ok
          /\ Outcome(r).code = "ha.request_failed"
          /\ Outcome(r).retryable = (r = "broken")
      BY <3>1, ErrorFacts DEF Codes
    <3> QED
      BY <2>1, <3>2
  <2> QED
    BY <2>2, <2>3
<1>3. CASE call # "health" /\ r \in Bodies
  <2>1. Outcome(r) = Parsed(r)
    BY <1>3 DEF Outcome
  <2>2. /\ Unhandled \in ResultType /\ ~Unhandled.ok /\ Unhandled.code = "unhandled"
        /\ Error("ha.invalid_response", FALSE) \in ResultType
        /\ ~Error("ha.invalid_response", FALSE).ok
        /\ Error("ha.invalid_response", FALSE).code = "ha.invalid_response"
    BY ErrorFacts DEF Unhandled, Codes
  <2> QED
    BY <1>3, <2>1, <2>2, OkFacts, ParsedFacts
<1> QED
  BY <1>1, <1>2, <1>3

LEMMA InitHa == Init => HaInv
<1> SUFFICES ASSUME Init PROVE HaInv
  OBVIOUS
<1>1. TypeOK
  <2>1. 0 \in 0..MaxEdits
    BY DataAssumption
  <2>2. "health" \in Calls
    BY DEF Calls
  <2> QED
    BY <2>1, <2>2 DEF Init, TypeOK
<1>2. ReplyInv
  BY NoneIsNoReply DEF Init, ReplyInv
<1>3. result = None
  BY DEF Init
<1> QED
  BY <1>1, <1>2, <1>3
     DEF HaInv, OkMeansLoaded, FinalErrorMeansNotDone, CheckedIsAccepted

\* A call is made; it ends at once if it is not allowed or there is no token.
LEMMA StartStep ==
  ASSUME HaInv, NEW c \in Calls, Start(c)
  PROVE  HaInv'
<1> USE DEF HaInv
<1>1. /\ saved' = saved /\ loaded' = loaded /\ late' = late
      /\ token' = token /\ allowed' = allowed
      /\ call' = c /\ asked' = saved /\ performed' = FALSE /\ reply' = None
  BY DEF Start, End, settings
<1>2. \/ pc' = "sent" /\ result' = None
      \/ /\ pc' = "idle"
         /\ \/ result' = Error("ha.service_not_allowed", FALSE)
            \/ result' = Failure(c, "ha.token_not_configured", FALSE)
            \/ result' = Unhandled
  BY DEF Start, End
<1>3. result' # None => result' \in ResultType /\ ~result'.ok
  <2>1. CASE result' = None
    BY <2>1
  <2>2. CASE result' = Error("ha.service_not_allowed", FALSE)
    <3>1. "ha.service_not_allowed" \in Codes /\ FALSE \in BOOLEAN
      BY DEF Codes
    <3> QED
      BY <2>2, <3>1, ErrorFacts
  <2>3. CASE result' = Failure(c, "ha.token_not_configured", FALSE)
    <3>1. "ha.token_not_configured" \in Codes /\ FALSE \in BOOLEAN
      BY DEF Codes
    <3> QED
      BY <2>3, <3>1, FailureFacts
  <2>4. CASE result' = Unhandled
    BY <2>4, ErrorFacts DEF Unhandled, Codes
  <2> QED
    BY <1>2, <2>1, <2>2, <2>3, <2>4
<1>4. TypeOK'
  BY <1>1, <1>2, <1>3 DEF TypeOK
<1>5. ReplyInv'
  <2>1. asked' <= saved' /\ loaded' <= saved'
    BY <1>1, DataAssumption DEF ReplyInv, TypeOK
  <2>2. pc' = "sent" => result' = None
    BY <1>2
  <2> QED
    BY <1>1, <2>1, <2>2, NoneIsNoReply DEF ReplyInv
<1> QED
  BY <1>1, <1>3, <1>4, <1>5 DEF OkMeansLoaded, FinalErrorMeansNotDone, CheckedIsAccepted

\* Home Assistant answers.
LEMMA PerformStep ==
  ASSUME HaInv, NEW r \in Replies, Perform(r)
  PROVE  HaInv'
<1> USE DEF HaInv
<1>1. /\ pc = "sent" /\ pc' = "sent" /\ saved' = saved /\ call' = call /\ asked' = asked
      /\ token' = token /\ allowed' = allowed /\ late' = late /\ result' = result
      /\ reply = None /\ reply' = r
  BY DEF Perform, Waiting, settings
<1>2. /\ performed' \in BOOLEAN
      /\ r \in Bodies => performed'
      /\ r \in {"missing", "rejected"} => ~performed'
  BY DEF Perform, Bodies, Objects
<1>3. /\ loaded' \in {loaded, saved}
      /\ performed' /\ call = "quick_reload_all" => loaded' = saved
  BY DEF Perform
<1>4. r = "valid" /\ call = "check" => saved \notin Bad
  BY DEF Perform, Objects
<1>5. TypeOK'
  BY <1>1, <1>2, <1>3 DEF TypeOK
<1>6. ReplyInv'
  <2>1. asked' <= saved' /\ loaded' <= saved'
    BY <1>1, <1>3 DEF ReplyInv, TypeOK
  <2>2. r \in Bodies /\ call = "quick_reload_all" => loaded' >= asked
    BY <1>2, <1>3 DEF ReplyInv, TypeOK
  <2>3. r = "valid" /\ call = "check" => \E v \in asked..saved : v \notin Bad
    <3>1. saved \in asked..saved
      BY DEF ReplyInv, TypeOK
    <3> QED
      BY <1>4, <3>1
  <2>4. r # None
    BY DataAssumption DEF Replies, Bodies, Objects
  <2> QED
    BY <1>1, <1>2, <2>1, <2>2, <2>3, <2>4 DEF ReplyInv
<1> QED
  BY <1>1, <1>5, <1>6 DEF OkMeansLoaded, FinalErrorMeansNotDone, CheckedIsAccepted

\* The answer arrives: the result means what the answer does.
LEMMA ReceiveStep ==
  ASSUME HaInv, Receive
  PROVE  HaInv'
<1> USE DEF HaInv
<1>1. /\ pc = "sent" /\ pc' = "idle" /\ saved' = saved /\ call' = call /\ asked' = asked
      /\ token' = token /\ allowed' = allowed /\ late' = late /\ loaded' = loaded
      /\ performed' = performed /\ reply \in Replies /\ reply' = None
      /\ result' = Outcome(reply)
  BY DEF Receive, Waiting, End, settings, TypeOK
<1>2. call \in Calls
  BY DEF TypeOK
<1>3. TypeOK'
  BY <1>1, <1>2, OutcomeFacts DEF TypeOK
<1>4. ReplyInv'
  BY <1>1, NoneIsNoReply DEF ReplyInv, TypeOK
<1>5. OkMeansLoaded' /\ CheckedIsAccepted'
  BY <1>1, <1>2, OutcomeFacts DEF OkMeansLoaded, CheckedIsAccepted, ReplyInv
<1>6. FinalErrorMeansNotDone'
  BY <1>1, <1>2, OutcomeFacts DEF FinalErrorMeansNotDone, ReplyInv
<1> QED
  BY <1>3, <1>4, <1>5, <1>6

\* The caller gives up; its error is retryable.
LEMMA GiveUpStep ==
  ASSUME HaInv, Waiting, NEW code \in {"ha.request_timeout", "ha.request_failed"},
         GiveUp(code)
  PROVE  HaInv'
<1> USE DEF HaInv
<1>1. /\ pc = "sent" /\ pc' = "idle" /\ saved' = saved /\ call' = call /\ asked' = asked
      /\ token' = token /\ allowed' = allowed /\ loaded' = loaded
      /\ performed' = performed /\ reply' = None
      /\ result' = Failure(call, code, TRUE)
  BY DEF GiveUp, NoAnswer, Waiting, End, settings
<1>2. late' \subseteq Reloads
  BY DEF GiveUp, TypeOK
<1>3. call \in Calls /\ code \in Codes
  BY DEF TypeOK, Codes
<1>4. /\ result' \in ResultType /\ ~result'.ok
      /\ call # "health" => result'.retryable = TRUE
  BY <1>1, <1>3, FailureFacts
<1>5. TypeOK'
  BY <1>1, <1>2, <1>4 DEF TypeOK
<1>6. ReplyInv'
  BY <1>1, NoneIsNoReply DEF ReplyInv, TypeOK
<1> QED
  BY <1>1, <1>4, <1>5, <1>6
     DEF OkMeansLoaded, FinalErrorMeansNotDone, CheckedIsAccepted, Reloads

\* A reload whose caller gave up happens: it loads the newest version.
LEMMA PerformLateStep ==
  ASSUME HaInv, NEW c \in Reloads, PerformLate(c)
  PROVE  HaInv'
<1> USE DEF HaInv
<1>1. /\ pc' = pc /\ saved' = saved /\ call' = call /\ asked' = asked
      /\ token' = token /\ allowed' = allowed /\ late' \subseteq late
      /\ performed' = performed /\ reply' = reply /\ result' = result
  BY DEF PerformLate, settings
<1>2. loaded' \in {loaded, saved} /\ loaded <= saved
  BY DEF PerformLate, ReplyInv
<1>3. loaded' >= loaded /\ loaded' <= saved /\ loaded' \in 0..MaxEdits
  BY <1>2, DataAssumption DEF TypeOK
<1>4. TypeOK'
  BY <1>1, <1>3 DEF TypeOK
<1>5. ReplyInv'
  BY <1>1, <1>3, DataAssumption DEF ReplyInv, TypeOK
<1>6. OkMeansLoaded'
  BY <1>1, <1>3, DataAssumption DEF OkMeansLoaded, TypeOK
<1> QED
  BY <1>1, <1>4, <1>5, <1>6 DEF FinalErrorMeansNotDone, CheckedIsAccepted

\* The files change.
LEMMA EditStep ==
  ASSUME HaInv, Edit
  PROVE  HaInv'
<1> USE DEF HaInv
<1>1. /\ pc' = pc /\ saved' = saved + 1 /\ call' = call /\ asked' = asked
      /\ token' = token /\ allowed' = allowed /\ late' = late /\ loaded' = loaded
      /\ performed' = performed /\ reply' = reply /\ result' = result
  BY DEF Edit, settings
<1>2. saved' \in 0..MaxEdits
  BY <1>1, DataAssumption DEF Edit, TypeOK
<1>3. asked..saved \subseteq asked..saved'
  BY <1>1 DEF TypeOK
<1>4. TypeOK'
  BY <1>1, <1>2 DEF TypeOK
<1>5. ReplyInv'
  <2>1. asked' <= saved' /\ loaded' <= saved'
    BY <1>1, DataAssumption DEF ReplyInv, TypeOK
  <2> QED
    BY <1>1, <1>3, <2>1 DEF ReplyInv
<1>6. CheckedIsAccepted'
  BY <1>1, <1>3 DEF CheckedIsAccepted
<1> QED
  BY <1>1, <1>4, <1>5, <1>6 DEF OkMeansLoaded, FinalErrorMeansNotDone

\* The invariant of the calls is inductive.
LEMMA HaInductive == HaInv /\ [Next]_vars => HaInv'
<1> SUFFICES ASSUME HaInv, [Next]_vars PROVE HaInv'
  OBVIOUS
<1>1. CASE \E c \in Calls : Start(c)
  BY <1>1, StartStep
<1>2. CASE \E r \in Replies : Perform(r)
  BY <1>2, PerformStep
<1>3. CASE Receive
  BY <1>3, ReceiveStep
<1>4. CASE TimesOut \/ ConnectionFails
  BY <1>4, GiveUpStep DEF TimesOut, ConnectionFails
<1>5. CASE \E c \in Reloads : PerformLate(c)
  BY <1>5, PerformLateStep
<1>6. CASE Edit
  BY <1>6, EditStep
<1>7. CASE UNCHANGED vars
  BY <1>7 DEF vars, settings, HaInv, TypeOK, ReplyInv, OkMeansLoaded,
       FinalErrorMeansNotDone, CheckedIsAccepted
<1> QED
  BY <1>1, <1>2, <1>3, <1>4, <1>5, <1>6, <1>7 DEF Next

LEMMA HaAlways == Spec => []HaInv
  BY InitHa, HaInductive, PTL DEF Spec

-----------------------------------------------------------------------------

\* The calls keep to their types.
THEOREM HaTypeCorrect == Spec => []TypeOK
<1>1. HaInv => TypeOK
  BY DEF HaInv
<1> QED
  BY <1>1, HaAlways, PTL

\* An ok of quick_reload_all means that Home Assistant has loaded what was there
\* when it was asked for, even if reloads nobody waits for happen afterwards.
THEOREM ReloadOkMeansLoaded == Spec => []OkMeansLoaded
<1>1. HaInv => OkMeansLoaded
  BY DEF HaInv
<1> QED
  BY <1>1, HaAlways, PTL

\* A reload whose error is final and has a code of its own was not performed.
THEOREM FinalErrorsLoseNothing == Spec => []FinalErrorMeansNotDone
<1>1. HaInv => FinalErrorMeansNotDone
  BY DEF HaInv
<1> QED
  BY <1>1, HaAlways, PTL

\* A check that passes has seen an accepted version saved during the call.
THEOREM PassedCheckSawAccepted == Spec => []CheckedIsAccepted
<1>1. HaInv => CheckedIsAccepted
  BY DEF HaInv
<1> QED
  BY <1>1, HaAlways, PTL
=============================================================================
