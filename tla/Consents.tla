------------------------------ MODULE Consents ------------------------------
(***************************************************************************)
(* The legal documents of employees: ConsentService and ConsentGuard of    *)
(* the server, the state of consent in the session of the frontend,        *)
(* SessionGate and ConsentsForm.                                           *)
(*                                                                         *)
(* Deployments publish versions and require other documents while the      *)
(* pages of one user hold what an earlier answer said.  An answer that     *)
(* changes nothing by coming late comes at once.                           *)
(***************************************************************************)
EXTENDS Integers, FiniteSetsExt

CONSTANTS
  Types,         \* of the documents that employees may accept
  UserDocuments, \* those whose audience is "user"; the others are informational
  RequiredLists, \* the values of LEGAL_REQUIRED_CONSENTS: sequences of types
                 \* without a repetition, for the guard counts the types
  MaxVersion, MaxReleases, MaxRefusals, MaxSetbacks, MaxRecords  \* bounds

Versions == 1 .. MaxVersion

VARIABLES
  published, \* the current version of each document
  required,  \* what the server requires
  records,   \* how many rows of ConsentRecord there are of each type and version
  releases,
  session,   \* consent, and requiredTypes of the last answer, {} if it named none
  route,     \* the page: "dashboard" or "consents"
  checking,  \* checkConsents: the answer on its way, or NoAnswer
  refusals,  \* answers CONSENT_REQUIRED to the pages, on their way
  form,      \* of ConsentsForm: loadState, the versions it lists, the ticks, and
             \* what onSubmit does and has still to send
  ticked,    \* history: the versions that were listed when their box was ticked
  setbacks   \* what has failed, and ticks that were taken back

serverVars == <<published, required, records, releases>>
vars ==
  <<serverVars, session, route, checking, refusals, form, ticked, setbacks>>

NoAnswer == [granted |-> FALSE, types |-> {"none"}]

-----------------------------------------------------------------------------
(* The server                                                              *)

Accepted(type) == records[type][published[type]] > 0

RequiredSet == {required[i] : i \in DOMAIN required}

\* GET /consents/status.
Status ==
  [granted |-> \A i \in DOMAIN required : Accepted(required[i]), types |-> RequiredSet]

\* Mutant: the rows are not told apart by type.
HasAllRequiredRows ==
  MapThenSumSet(LAMBDA type : records[type][published[type]], RequiredSet)
    = Cardinality(DOMAIN required)

\* The current versions of as many types as are required.
HasAllRequired ==
  Cardinality({type \in RequiredSet : Accepted(type)}) = Cardinality(DOMAIN required)

\* The server is started anew with another version, or other requirements.
Release ==
  /\ releases < MaxReleases
  /\ \/ \E type \in Types :
          /\ published[type] < MaxVersion
          /\ published' = [published EXCEPT ![type] = @ + 1]
          /\ required' = required
     \/ required' \in RequiredLists \ {required} /\ published' = published
  /\ releases' = releases + 1
  /\ UNCHANGED <<records, session, route, checking, refusals, form, ticked, setbacks>>

-----------------------------------------------------------------------------
(* The session                                                             *)

\* checkConsents of SessionGate, after the login and after a failure.
GateChecks ==
  /\ route = "dashboard" /\ session.consent = "unknown" /\ checking = NoAnswer
  /\ checking' = Status
  /\ UNCHANGED <<serverVars, session, route, refusals, form, ticked, setbacks>>

\* checkConsents of ConsentsForm, after everything was sent.
FormChecks ==
  /\ form.doing = "check" /\ checking = NoAnswer
  /\ checking' = Status
  /\ UNCHANGED <<serverVars, session, route, refusals, form, ticked, setbacks>>

Idle(f) == [f EXCEPT !.doing = "nothing"]

\* Mutant: what is required is read at the login only.
AnsweredOnce(answer) ==
  [consent |-> IF answer.granted THEN "granted" ELSE "required",
   types |-> IF session.types = {} THEN answer.types ELSE session.types]

Answered(answer) ==
  [consent |-> IF answer.granted THEN "granted" ELSE "required", types |-> answer.types]

CheckArrives ==
  /\ checking # NoAnswer
  /\ session' = Answered(checking)
  /\ checking' = NoAnswer
  /\ form' = IF form.doing = "check" THEN Idle(form) ELSE form
  /\ UNCHANGED <<serverVars, route, refusals, ticked, setbacks>>

CheckFails ==
  /\ checking # NoAnswer /\ setbacks < MaxSetbacks
  /\ session' = [session EXCEPT !.consent = "unknown"]
  /\ checking' = NoAnswer
  /\ form' = IF form.doing = "check" THEN Idle(form) ELSE form
  /\ setbacks' = setbacks + 1
  /\ UNCHANGED <<serverVars, route, refusals, ticked>>

\* A page reads its data; what is served changes nothing here.
CallIsRefused ==
  /\ route = "dashboard" /\ session.consent = "granted"
  /\ ~HasAllRequired /\ refusals < MaxRefusals
  /\ refusals' = refusals + 1
  /\ UNCHANGED <<serverVars, session, route, checking, form, ticked, setbacks>>

\* handleConsentError, whatever has happened since.
RefusalArrives ==
  /\ refusals > 0
  /\ refusals' = refusals - 1
  /\ session' = [session EXCEPT !.consent = "required"]
  /\ UNCHANGED <<serverVars, route, checking, form, ticked, setbacks>>

Mounted ==
  [load |-> "loading", list |-> published, accepted |-> {}, doing |-> "nothing", sending |-> {}]

\* router.replace of SessionGate and of ConsentsForm.
Redirect ==
  /\ \/ route = "dashboard" /\ session.consent = "required" /\ route' = "consents"
     \/ route = "consents" /\ session.consent = "granted" /\ route' = "dashboard"
  /\ form' = Mounted
  /\ UNCHANGED <<serverVars, session, checking, refusals, ticked, setbacks>>

-----------------------------------------------------------------------------
(* ConsentsForm                                                            *)

Ready == route = "consents" /\ form.load = "ready"

RequiredTypes == IF session.types = {} THEN UserDocuments ELSE session.types

\* Mutant: what was ticked before stays ticked.
ReloadedTicked(f) == [f EXCEPT !.load = "ready", !.list = published]

Reloaded(f) == [f EXCEPT !.load = "ready", !.list = published, !.accepted = {}]

LoadDocuments ==
  /\ route = "consents" /\ form.load \in {"loading", "error"}
  /\ \/ form' = Reloaded(form) /\ setbacks' = setbacks
     \/ /\ form.load = "loading" /\ setbacks < MaxSetbacks
        /\ form' = [form EXCEPT !.load = "error"] /\ setbacks' = setbacks + 1
  /\ UNCHANGED <<serverVars, session, route, checking, refusals, ticked>>

Tick(type) ==
  /\ Ready /\ type \in RequiredTypes \ form.accepted
  /\ form' = [form EXCEPT !.accepted = @ \cup {type}]
  /\ ticked' = ticked \cup {<<type, form.list[type]>>}
  /\ UNCHANGED <<serverVars, session, route, checking, refusals, setbacks>>

\* The boxes stay enabled while the form is sent.
Untick(type) ==
  /\ Ready /\ type \in RequiredTypes \cap form.accepted /\ setbacks < MaxSetbacks
  /\ form' = [form EXCEPT !.accepted = @ \ {type}]
  /\ setbacks' = setbacks + 1
  /\ UNCHANGED <<serverVars, session, route, checking, refusals, ticked>>

OnSubmit ==
  /\ Ready /\ form.doing = "nothing"
  /\ RequiredTypes # {} /\ RequiredTypes \subseteq form.accepted
  /\ form' = [form EXCEPT !.doing = "send", !.sending = RequiredTypes]
  /\ UNCHANGED <<serverVars, session, route, checking, refusals, ticked, setbacks>>

Recorded(type, version) ==
  [records EXCEPT ![type][version] = IF @ < MaxRecords THEN @ + 1 ELSE @]

\* POST /consents of the version the form lists.
SubmitConsent(type) ==
  /\ form.doing = "send" /\ type \in form.sending
  /\ form.list[type] = published[type]
  /\ records' = Recorded(type, form.list[type])
  /\ form' = [form EXCEPT !.sending = @ \ {type},
                          !.doing = IF form.sending = {type} THEN "check" ELSE "send"]
  /\ UNCHANGED <<published, required, releases, session, route, checking, refusals,
                 ticked, setbacks>>

\* 409: the form lists the documents again.
SubmitRefused(type) ==
  /\ form.doing = "send" /\ type \in form.sending
  /\ form.list[type] # published[type]
  /\ form' = [Idle(form) EXCEPT !.load = "loading"]
  /\ UNCHANGED <<serverVars, session, route, checking, refusals, ticked, setbacks>>

\* The request or its answer is lost; what was sent before stays recorded.
SubmitFails(type) ==
  /\ form.doing = "send" /\ type \in form.sending /\ setbacks < MaxSetbacks
  /\ \/ records' = records
     \/ form.list[type] = published[type] /\ records' = Recorded(type, form.list[type])
  /\ form' = Idle(form)
  /\ setbacks' = setbacks + 1
  /\ UNCHANGED <<published, required, releases, session, route, checking, refusals, ticked>>

-----------------------------------------------------------------------------

Init ==
  /\ published = [type \in Types |-> 1]
  /\ required \in RequiredLists
  /\ records = [type \in Types |-> [version \in Versions |-> 0]]
  /\ releases = 0
  /\ session = [consent |-> "unknown", types |-> {}]
  /\ route = "dashboard"
  /\ checking = NoAnswer
  /\ refusals = 0
  /\ form = Mounted
  /\ ticked = {}
  /\ setbacks = 0

Check == GateChecks \/ FormChecks \/ CheckArrives
Refuse == CallIsRefused \/ RefusalArrives
Fill ==
  \/ LoadDocuments \/ OnSubmit
  \/ \E type \in Types : Tick(type) \/ SubmitConsent(type) \/ SubmitRefused(type)

Next ==
  \/ Release \/ CheckFails
  \/ Check \/ Refuse \/ Redirect \/ Fill
  \/ \E type \in Types : Untick(type) \/ SubmitFails(type)

\* What the pages do by themselves, and a user who wants to go on.
Fairness == WF_vars(Check) /\ WF_vars(Refuse) /\ WF_vars(Redirect) /\ WF_vars(Fill)

Spec == Init /\ [][Next]_vars /\ Fairness

-----------------------------------------------------------------------------

TypeOK ==
  /\ published \in [Types -> Versions] /\ required \in RequiredLists
  /\ session.consent \in {"unknown", "granted", "required"}
  /\ form.load \in {"loading", "ready", "error"} /\ form.accepted \subseteq Types

\* What the status tells the frontend is what the guard decides, however often
\* a document was accepted and in which versions; else the frontend would send
\* its user from the one page to the other for ever (status, hasAllRequired).
GuardAgreesWithStatus == HasAllRequired <=> Status.granted

\* A consent that is recorded was given: its box was ticked when the version
\* of the record stood beside it (ConsentsForm, record).
ConsentIsOfShownVersion ==
  \A type \in Types : \A version \in Versions :
    records[type][version] > 0 => <<type, version>> \in ticked

\* Whatever is published or required meanwhile, whichever answers are late and
\* whatever fails, in the end the user is where the work is, and is served
\* (SessionGate, handleConsentError, checkConsents, ConsentsForm).
EverybodyGetsIn ==
  <>[](session.consent = "granted" /\ route = "dashboard" /\ HasAllRequired)
=============================================================================
