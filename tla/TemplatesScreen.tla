--------------------------- MODULE TemplatesScreen ----------------------------
(***************************************************************************)
(* The screen of a workspace's SQL templates: their list, the deletion of  *)
(* one, and the editor, one dialog that creates a template or edits one,   *)
(* whose text it loads when it opens.  Others change templates too:        *)
(* another window, or a change sent before the screen was left and opened  *)
(* again.                                                                  *)
(***************************************************************************)
EXTENDS AsyncLoad, Naturals, FiniteSets

CONSTANTS
  TemplateNames,     \* names of templates
  SqlTexts,          \* their texts
  MaxChanges         \* bound: changes under way at once

ASSUME TemplatesAssumption == MaxChanges \in Nat \ {0}

VARIABLES
  templates,         \* the state of the screen's components
  texts              \* the server: [TemplateNames -> SqlTexts or Nothing]

templatesVars == <<templates, texts>>

\* The form's fields, and which template's text they hold: it is loaded, typed or blank
\* ("of" is kept for the properties).
Blanked == [name |-> Nothing, text |-> Nothing, of |-> Nothing]

\* The editor is mounted with the screen, and keeps its fields while it is closed.
\* loading is the template whose text is awaited, failed that it did not come.
FreshTemplates ==
  [list |-> Mounted("templates"), read |-> {}, asked |-> Nothing,
   open |-> FALSE, edited |-> Nothing, fields |-> Blanked, loading |-> Nothing,
   late |-> Nothing, failed |-> FALSE, changes |-> {}, unsure |-> FALSE]

ListedTemplates(w) ==
  IF HasData(w.list) THEN {n \in TemplateNames : w.list.data.texts[n] # Nothing} ELSE {}
EditorBusy(w) == \E c \in w.changes : c.op # "delete"
FreeScreen(w) == ~w.open /\ w.asked = Nothing

\* Variant for the checks: the load before is not aborted.
SharesTheLoad(w) ==
  [w EXCEPT !.list = Mounted("templates"), !.asked = Nothing, !.unsure = @ /\ w.changes # {}]

\* A load shows a skeleton: the rows unmount, with a confirmation one of them has open.
LoadTemplates(w) ==
  [w EXCEPT !.list = Mounted("templates"), !.read = {}, !.asked = Nothing,
            !.unsure = @ /\ w.changes # {}]
-----------------------------------------------------------------------------
ReadTemplates ==
  /\ Pending(templates.list) /\ templates.read = {}
  /\ templates' = [templates EXCEPT !.read = {[of |-> "templates", texts |-> texts]}]
  /\ UNCHANGED texts

TemplatesAnswered ==
  /\ Pending(templates.list)
  /\ \E data \in templates.read :
       templates' = [templates EXCEPT !.list = Succeeded(@, data), !.read = {}]
  /\ UNCHANGED texts

TemplatesFail ==
  /\ Pending(templates.list)
  /\ templates' = [templates EXCEPT !.list = Failed(@), !.read = {}]
  /\ UNCHANGED texts
-----------------------------------------------------------------------------
\* The editor.

\* A new template begins with a blank form; to edit one awaits its text, in a form that
\* still has what it had.
NewTemplate ==
  /\ FreeScreen(templates)
  /\ templates' = [templates EXCEPT !.open = TRUE, !.edited = Nothing, !.fields = Blanked]
  /\ UNCHANGED texts

EditTemplate(n) ==
  /\ FreeScreen(templates) /\ n \in ListedTemplates(templates)
  /\ templates' = [templates EXCEPT !.open = TRUE, !.edited = n, !.loading = n, !.failed = FALSE]
  /\ UNCHANGED texts

\* The answer fills the form, over what was typed meanwhile.
TextLoaded ==
  /\ templates.loading # Nothing /\ texts[templates.loading] # Nothing
  /\ templates' = [templates EXCEPT !.loading = Nothing,
       !.fields = [name |-> templates.loading, text |-> texts[templates.loading],
                   of |-> templates.loading]]
  /\ UNCHANGED texts

TextFails ==
  /\ templates.loading # Nothing
  /\ templates' = [templates EXCEPT !.loading = Nothing, !.failed = TRUE]
  /\ UNCHANGED texts

\* The load of an editor that was closed is aborted.
TextLate ==
  /\ templates.late # Nothing
  /\ templates' = [templates EXCEPT !.late = Nothing]
  /\ UNCHANGED texts

\* The name of a template that is edited is fixed.
TypeTemplateName(n) ==
  /\ templates.open /\ templates.edited = Nothing
  /\ templates' = [templates EXCEPT !.fields.name = n]
  /\ UNCHANGED texts

TypeText(text) ==
  /\ templates.open
  /\ templates' = [templates EXCEPT !.fields.text = text, !.fields.of = "typed"]
  /\ UNCHANGED texts

\* The editor is closed, which it is not while it saves.
Shut(w) ==
  [w EXCEPT !.open = FALSE, !.loading = Nothing,
            !.late = IF w.loading # Nothing THEN w.loading ELSE @]
CloseEditor ==
  /\ templates.open /\ ~EditorBusy(templates)
  /\ templates' = Shut(templates)
  /\ UNCHANGED texts

\* A change under way; loaded says that the editor had the text it awaited.
Sending(w, op, name, fields) ==
  [w EXCEPT !.changes = @ \cup
     {[op |-> op, name |-> name, text |-> fields.text, of |-> fields.of,
       loaded |-> op = "update" /\ w.loading = Nothing /\ ~w.failed, done |-> FALSE]}]

SaveTemplate ==
  /\ templates.open /\ ~EditorBusy(templates) /\ Cardinality(templates.changes) < MaxChanges
  /\ templates.fields.name # Nothing /\ templates.fields.text # Nothing
  /\ templates' = IF templates.edited = Nothing
                  THEN Sending(templates, "create", templates.fields.name, templates.fields)
                  ELSE Sending(templates, "update", templates.edited, templates.fields)
  /\ UNCHANGED texts
-----------------------------------------------------------------------------
\* Deletion, after a confirmation.

AskTemplate(n) ==
  /\ FreeScreen(templates) /\ n \in ListedTemplates(templates)
  /\ templates' = [templates EXCEPT !.asked = n]
  /\ UNCHANGED texts

CancelTemplate ==
  /\ templates.asked # Nothing
  /\ templates' = [templates EXCEPT !.asked = Nothing]
  /\ UNCHANGED texts

DeleteTemplate ==
  /\ templates.asked # Nothing /\ Cardinality(templates.changes) < MaxChanges
  /\ templates' = Sending([templates EXCEPT !.asked = Nothing], "delete", templates.asked, Blanked)
  /\ UNCHANGED texts

\* The server creates a template whose name is free, and changes one that it has.
ChangeDone(c) ==
  /\ ~c.done
  /\ texts[c.name] = Nothing <=> c.op = "create"
  /\ texts' = [texts EXCEPT ![c.name] = c.text]
  /\ templates' = [templates EXCEPT !.changes = (@ \ {c}) \cup {[c EXCEPT !.done = TRUE]}]

\* Success closes the editor that saved, and loads the list.
ChangeAnswered(c) ==
  /\ c.done
  /\ LET w == [templates EXCEPT !.changes = @ \ {c}] IN
     templates' = LoadTemplates(IF c.op = "delete" THEN w ELSE Shut(w))
  /\ UNCHANGED texts

ChangeRefused(c) ==
  /\ templates' = [templates EXCEPT !.changes = @ \ {c}, !.unsure = @ \/ c.done]
  /\ UNCHANGED texts

\* Someone else creates, changes or deletes one: the list the screen has or awaits is
\* from before it.
OthersChange(n, text) ==
  /\ texts' = [texts EXCEPT ![n] = text]
  /\ templates' = [templates EXCEPT !.unsure =
                      @ \/ HasData(templates.list) \/ templates.read # {}]

TemplatesInit ==
  /\ templates = FreshTemplates
  /\ texts \in [TemplateNames -> SqlTexts \cup {Nothing}]

TemplatesActs ==
  \/ ReadTemplates \/ TemplatesAnswered \/ TemplatesFail
  \/ NewTemplate \/ TextLoaded \/ TextFails \/ TextLate \/ CloseEditor \/ SaveTemplate
  \/ \E n \in TemplateNames : EditTemplate(n) \/ TypeTemplateName(n) \/ AskTemplate(n)
  \/ \E text \in SqlTexts : TypeText(text)
  \/ \E n \in TemplateNames : \E text \in SqlTexts \cup {Nothing} : OthersChange(n, text)
  \/ CancelTemplate \/ DeleteTemplate
  \/ \E c \in templates.changes : ChangeDone(c) \/ ChangeAnswered(c) \/ ChangeRefused(c)

TemplatesSpec == TemplatesInit /\ [][TemplatesActs]_templatesVars
-----------------------------------------------------------------------------
\* Once its changes are answered, the screen lists what the server has: no load from
\* before a change of its own stays on the screen after its success.  (Those of others,
\* and those it sent before it was last left, show at the next load.)
TemplatesShow ==
  HasData(templates.list) /\ templates.changes = {} /\ ~templates.unsure
    => templates.list.data.texts = texts

\* A template is replaced by its own text or by one that was typed, once the editor has
\* loaded it, though the loads of other templates were aborted and still come in.
\* (Saved before that, the form may still have another template's text.)
UpdatesItsOwnText ==
  \A c \in templates.changes : c.op = "update" /\ c.loaded => c.of \in {c.name, "typed"}
=============================================================================
