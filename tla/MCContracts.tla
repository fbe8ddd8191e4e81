---------------------------- MODULE MCContracts ----------------------------
(***************************************************************************)
(* Instances for TLC of Contracts, with a head of sales, one manager of    *)
(* his team and one accountant, and of Consents.  They share no variable,  *)
(* so of a behaviour one of them moves, and the other stays as it began.   *)
(***************************************************************************)
EXTENDS Contracts, Sequences, FiniteSets, TLC

CONSTANTS
  h1, m1, t1, t2,
  Types, UserDocuments, RequiredLists,                           \* Consents
  MaxVersion, MaxReleases, MaxRefusals, MaxSetbacks, MaxRecords

ASSUME ConsentsAssumption ==
  /\ UserDocuments \subseteq Types
  /\ \A list \in RequiredLists :
       /\ list \in Seq(Types)
       /\ \A i, j \in DOMAIN list : list[i] = list[j] => i = j
  /\ MaxVersion \in Nat \ {0} /\ MaxRecords \in Nat

MCHeads == {h1}
MCSellers == {m1}
MCRequiredLists == {<<>>, <<t1>>, <<t2>>, <<t1, t2>>}
MCTeam == [h \in MCHeads |-> MCSellers]

\* Where Consents moves, the identifiers of Contracts stay as they began and
\* nothing of Consents is permuted: its behaviours are all kept, and with them
\* what happens in the end.
Symmetry ==
  Permutations(Contracts) \cup Permutations(Files) \cup Permutations(Requests)

VARIABLES
  part,                                                       \* who moves
  published, required, records, releases, session, route,     \* Consents
  checking, refusals, form, ticked, setbacks

L == INSTANCE Consents

consentVars ==
  <<published, required, records, releases, session, route, checking, refusals,
    form, ticked, setbacks>>
documentVars == <<part, vars, consentVars>>

DocumentsInit ==
  /\ part \in {"contracts", "consents"}
  /\ Init /\ L!Init
  /\ part # "consents" => required = <<>>

InConsents(A) == part = "consents" /\ A /\ UNCHANGED <<part, vars>>

\* Two contracts and two uploads meet while nobody edits terms; terms are edited
\* with one contract and one upload.
Small ==
  \/ /\ \A r \in Requests : req[r].op # "update"
     /\ \A c \in Contracts : Exists(c) => contract[c].terms = CHOOSE t \in Terms : TRUE
  \/ /\ Cardinality({c \in Contracts : contract[c] # Unborn}) < 2
     /\ Cardinality({f \in Files : file[f] # "unused"}) < 2

DocumentsNext ==
  \/ part = "contracts" /\ Next /\ Small' /\ UNCHANGED <<part, consentVars>>
  \/ InConsents(L!Next)

\* Fairness of Consents, where it moves.
DocumentsSpec ==
  /\ DocumentsInit /\ [][DocumentsNext]_documentVars
  /\ WF_documentVars(InConsents(L!Check)) /\ WF_documentVars(InConsents(L!Refuse))
  /\ WF_documentVars(InConsents(L!Redirect)) /\ WF_documentVars(InConsents(L!Fill))

-----------------------------------------------------------------------------

\* GuardAgreesWithStatus and ConsentIsOfShownVersion of Consents: the guard and
\* the status decide alike, and what is recorded as accepted was shown in that
\* version and ticked (ConsentService, ConsentsForm).
ConsentsAreSound ==
  L!TypeOK /\ L!GuardAgreesWithStatus /\ L!ConsentIsOfShownVersion

\* EverybodyGetsIn of Consents: whatever is published, required, lost or late,
\* in the end the user is where the work is and is served (SessionGate,
\* handleConsentError, checkConsents).
EverybodyGetsIn == part = "consents" => L!EverybodyGetsIn
=============================================================================
