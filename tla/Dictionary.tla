----------------------------- MODULE Dictionary -----------------------------
(***************************************************************************)
(* Editing an entry of the specification dictionary:                       *)
(* src/specifications/views.py, forms.py and services.py.  The form posts  *)
(* every editable field, here one text, and the version it was rendered    *)
(* from; the code of the entry is not among them.                          *)
(***************************************************************************)
EXTENDS Naturals

CONSTANTS
    Editor,      \* browsers of people who hold CHANGE_SPECIFICATION
    Text,        \* what the editable fields may hold
    Seeded,      \* what the migration put there
    None,
    MaxChanges   \* bound on what the application commits

ASSUME DictionaryAssumption == Seeded \in Text /\ None \notin Text

VARIABLES
    definition,   \* the SpecificationDefinition row
    form,         \* of each editor: the form on the screen, or None
    audit_event,  \* how many audit events there are
    changes       \* how many changes the application committed

dictionaryVars == <<definition, form, audit_event, changes>>

SpecificationDefinition == [record_version : Nat, text : Text]

DictionaryInit ==
    /\ definition = [record_version |-> 1, text |-> Seeded]
    /\ form = [e \in Editor |-> None]
    /\ audit_event = 1 /\ changes = 0

\* A change of the application, with its audit event.
Changes ==
    /\ changes < MaxChanges /\ changes' = changes + 1 /\ audit_event' = audit_event + 1

Rendered == [expected_version |-> definition.record_version, shown |-> definition.text]

OpenForm(e) ==
    /\ form[e] # Rendered /\ form' = [form EXCEPT ![e] = Rendered]
    /\ UNCHANGED <<definition, audit_event, changes>>

\* Mutant of Expected: the version loaded with the post is compared.
ExpectedLoaded(e) == TRUE

\* The condition of the UPDATE.
Expected(e) == form[e].expected_version = definition.record_version

UpdateSpecification(e, text) ==
    /\ form[e] # None /\ Expected(e) /\ Changes
    /\ definition' = [record_version |-> definition.record_version + 1, text |-> text]
    /\ form' = [form EXCEPT ![e] = None]

\* StaleRecordError: the screen shows the current values instead.
RejectStale(e) ==
    /\ form[e] # None /\ ~Expected(e) /\ form' = [form EXCEPT ![e] = Rendered]
    /\ UNCHANGED <<definition, audit_event, changes>>

DictionaryNext ==
    \E e \in Editor :
        OpenForm(e) \/ RejectStale(e) \/ \E text \in Text : UpdateSpecification(e, text)
-----------------------------------------------------------------------------
\* An edit replaces the texts its form showed: nobody's edit in between is
\* overwritten, also not by a form that was open all along.
NothingReplacedUnseen ==
    [][\A e \in Editor :
           definition' # definition /\ form'[e] # form[e] => form[e].shown = definition.text
       ]_dictionaryVars
=============================================================================
