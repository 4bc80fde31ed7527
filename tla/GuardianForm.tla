---------------------------- MODULE GuardianForm -----------------------------
(***************************************************************************)
(* The guardian settings form of the dashboard: GuardianConfigForm.tsx on  *)
(* the hook useZodForm.ts and the schema of lib/validation.ts.  Of a value *)
(* only its name and its validity are kept.                                *)
(***************************************************************************)
EXTENDS Naturals

CONSTANTS
    Field,
    Value,      \* what may stand in a field
    Valid,      \* what the schema accepts
    Defaults    \* GUARDIAN_SETTINGS_DEFAULTS, with the parent's initialValues

ASSUME FormAssumption ==
    /\ Valid \in [Field -> SUBSET Value]
    /\ Defaults \in [Field -> Value]

VARIABLES
    onSave,         \* whether there is a save handler; App.tsx passes none
    values,
    touched,
    submitAttempted,
    saving,         \* isSaving, and the settings onSave is working on
    submitState,
    submitted,      \* history: what this instance has submitted last, if anything
    saved           \* history: what onSave has saved last for it, if anything

histVars == <<submitted, saved>>
formVars == <<onSave, values, touched, submitAttempted, saving, submitState, histVars>>

Settings == [Field -> Value]
NotSaving == [on |-> FALSE, value |-> Defaults]
Idle == [status |-> "idle", value |-> Defaults]

FormInit ==
    /\ onSave \in BOOLEAN
    /\ values = Defaults
    /\ touched = {}
    /\ submitAttempted = FALSE
    /\ saving = NotSaving
    /\ submitState = Idle
    /\ submitted = {}
    /\ saved = {}

errors == {f \in Field : values[f] \notin Valid[f]}
visibleErrors == IF submitAttempted THEN errors ELSE errors \cap touched
isValid == errors = {}

-----------------------------------------------------------------------------

setValue(f, v) ==
    /\ values' = [values EXCEPT ![f] = v]
    /\ UNCHANGED <<onSave, touched, submitAttempted, saving, submitState, histVars>>

handleBlur(f) ==
    /\ touched' = touched \cup {f}
    /\ UNCHANGED <<onSave, values, submitAttempted, saving, submitState, histVars>>

\* handleSubmit and the callback up to the await of onSave or, without one, to
\* its end: then nothing is saved, and the banner is shown all the same.
Submit ==
    /\ ~saving.on
    /\ submitAttempted' = TRUE
    /\ touched' = Field
    /\ \/ /\ isValid /\ onSave
          /\ saving' = [on |-> TRUE, value |-> values]
          /\ submitState' = Idle
          /\ submitted' = {values}
       \/ /\ isValid /\ ~onSave
          /\ submitState' = [status |-> "success", value |-> values]
          /\ submitted' = {values}
          /\ UNCHANGED saving
       \/ ~isValid /\ UNCHANGED <<saving, submitState, submitted>>
    /\ UNCHANGED <<onSave, values, saved>>

\* Wrong on purpose: the banner shows what the form holds by now.
SaveSettles_ShowsForm(ok) ==
    /\ saving.on
    /\ saving' = NotSaving
    /\ saved' = IF ok THEN {saving.value} ELSE saved
    /\ submitState' = IF ok THEN [status |-> "success", value |-> values]
                            ELSE [Idle EXCEPT !.status = "error"]
    /\ UNCHANGED <<onSave, values, touched, submitAttempted, submitted>>

\* onSave is over: the form may have been edited or reset meanwhile.
SaveSettles(ok) ==
    /\ saving.on
    /\ saving' = NotSaving
    /\ saved' = IF ok THEN {saving.value} ELSE saved
    /\ submitState' = IF ok THEN [status |-> "success", value |-> saving.value]
                            ELSE [Idle EXCEPT !.status = "error"]
    /\ UNCHANGED <<onSave, values, touched, submitAttempted, submitted>>

\* The Reset button: a save that is under way goes on.
Reset ==
    /\ values' = Defaults
    /\ touched' = {}
    /\ submitAttempted' = FALSE
    /\ submitState' = Idle
    /\ UNCHANGED <<onSave, saving, histVars>>

\* A new instance; the save of an earlier one ends without it.
FormMounts ==
    /\ values' = Defaults
    /\ touched' = {}
    /\ submitAttempted' = FALSE
    /\ saving' = NotSaving
    /\ submitState' = Idle
    /\ submitted' = {}
    /\ saved' = {}
    /\ UNCHANGED onSave

FormMoves ==
    \/ \E f \in Field, v \in Value : setValue(f, v)
    \/ \E f \in Field : handleBlur(f)
    \/ \E ok \in BOOLEAN : SaveSettles(ok)
    \/ Submit
    \/ Reset

-----------------------------------------------------------------------------
(* Properties *)

\* The success banner names settings that the schema accepts and that were
\* submitted last, whatever is typed or reset since; where there is a save
\* handler they are what it saved.  Without one, as in App.tsx, the banner
\* says "Settings saved" of settings that nobody saved.
BannerIsWhatWasSubmitted ==
    submitState.status = "success" =>
        /\ \A f \in Field : submitState.value[f] \in Valid[f]
        /\ submitted = {submitState.value}
        /\ saved = IF onSave THEN {submitState.value} ELSE {}

=============================================================================
