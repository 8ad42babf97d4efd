---------------------------- MODULE MailTemplate ----------------------------
(***************************************************************************)
(* From the template an operator configures to the message a sender is     *)
(* given: parseMail of internal/config/types.go decides whether it is      *)
(* accepted, Render of internal/notify/template.go checks it once more and *)
(* fills it in, validateMessage of internal/notify/message.go has the last *)
(* word.  A message that fails on the way is tried again by every check    *)
(* and never sent.                                                         *)
(*                                                                         *)
(* A text is a sequence of words, spaces, line breaks and placeholders.    *)
(* Only what placeholders do differently is kept apart: one always has a   *)
(* value ("kind"; the thresholds, the time and "partial" are like it), and *)
(* the others have one for some kinds of events.                           *)
(***************************************************************************)
EXTENDS Sequences, FiniteSetsExt

CONSTANTS
  Subjects, \* the subjects an operator may configure
  Bodies,   \* the bodies
  Kinds     \* the kinds of events

Placeholders == {"{{kind}}", "{{total}}", "{{error_code}}", "{{unknown_plans}}"}

Unlisted == "{{secret}}"

Spaces == {" ", "LF", "CR"}

Texts == Seq({"word", Unlisted} \cup Spaces \cup Placeholders)

ASSUME MailAssumption ==
  /\ Subjects \subseteq Texts /\ Bodies \subseteq Texts
  /\ Kinds \subseteq {"low", "low_reminder", "recovery", "data_error", "plan_changed",
                      "test_notification"}

(* The names of unknown plans, as they are listed: trimmed, perhaps none   *)
(* is left, and perhaps with a line break inside.                          *)
PlanLists == {<<>>, <<"word">>, <<"word", "LF", "word">>, <<"word", "CR", "LF", "word">>,
              <<"word", "CR", "word">>}

VARIABLES
  stage,     \* how far the message has come
  kind,      \* the kind of its event
  plans,     \* the unknown plans of its event
  templates, \* the configured templates: for one kind, or none
  message    \* the message

mailVars == <<stage, kind, plans, templates, message>>
-----------------------------------------------------------------------------
HasToken(text, tokens) == \E i \in DOMAIN text : text[i] \in tokens

(* strings.TrimSpace leaves nothing.                                       *)
IsBlank(text) == ~HasToken(text, {"word", Unlisted} \cup Placeholders)

\* Variant of ConfigAccepts: a subject may have several lines.
ConfigAcceptsLines(text, subject) ==
  ~IsBlank(text) /\ ~HasToken(text, {"CR", Unlisted})

(* validateMailTemplateText in types.go                                    *)
ConfigAccepts(text, subject) ==
  /\ ~IsBlank(text)
  /\ ~HasToken(text, {"CR"})
  /\ subject => ~HasToken(text, {"LF"})
  /\ ~HasToken(text, {Unlisted})

(* validateTemplateText in template.go                                     *)
RenderAccepts(text, subject) ==
  /\ ~IsBlank(text)
  /\ ~HasToken(text, {"CR"})
  /\ subject => ~HasToken(text, {"LF"})
  /\ ~HasToken(text, {Unlisted})

DefaultSubject(k) ==
  CASE k \in {"low", "low_reminder", "recovery"} -> <<"word", " ", "{{total}}", " ", "word">>
    [] OTHER -> <<"word">>

DefaultBody(k) ==
  <<"word", "LF">> \o
  CASE k \in {"low", "low_reminder", "recovery"} -> <<"{{total}}", "LF">>
    [] k = "data_error" -> <<"{{error_code}}", "LF">>
    [] k = "plan_changed" -> <<"{{unknown_plans}}", "LF">>
    [] k = "test_notification" -> <<"LF">>

(* resolveTemplates                                                        *)
SubjectOf(k) ==
  IF k \in DOMAIN templates /\ ~IsBlank(templates[k].subject)
    THEN templates[k].subject ELSE DefaultSubject(k)

BodyOf(k) ==
  IF k \in DOMAIN templates /\ ~IsBlank(templates[k].body)
    THEN templates[k].body ELSE DefaultBody(k)

(* templateVars: what the summary of an event tells depends on its kind.   *)
ValueOf(placeholder, k) ==
  CASE placeholder = "{{kind}}" -> <<"word">>
    [] placeholder = "{{total}}" /\ k \in {"low", "low_reminder", "recovery"} -> <<"word">>
    [] placeholder = "{{error_code}}" /\ k = "data_error" -> <<"word">>
    [] placeholder = "{{unknown_plans}}" /\ k = "plan_changed" -> plans
    [] OTHER -> <<>>

(* ReplaceAllStringFunc                                                    *)
Filled(text, k) ==
  LET fill[i \in 0 .. Len(text)] ==
        IF i = 0 THEN <<>>
        ELSE fill[i - 1] \o IF text[i] \in Placeholders THEN ValueOf(text[i], k)
                                                        ELSE <<text[i]>>
  IN fill[Len(text)]

(* A CR that is left when each CR LF has become a LF.                      *)
HasCR(text) ==
  \E i \in DOMAIN text : text[i] = "CR" /\ (i < Len(text) => text[i + 1] # "LF")

(* The last check of applyTemplate.                                        *)
FilledIsValid(text, subject) == ~HasCR(text) /\ (subject => ~HasToken(text, {"LF"}))

Applies(text, subject, k) ==
  RenderAccepts(text, subject) /\ FilledIsValid(Filled(text, k), subject)
-----------------------------------------------------------------------------
MailInit ==
  /\ stage = "configured"
  /\ kind \in Kinds
  /\ plans \in IF kind = "plan_changed" THEN PlanLists ELSE {<<>>}
  /\ \/ templates = <<>>
     \/ \E k \in Kinds, s \in Subjects, b \in Bodies :
          templates = [x \in {k} |-> [subject |-> s, body |-> b]]
  /\ message = [subject |-> <<>>, body |-> <<>>]

(* readString: what is configured is the text without white space around.  *)
Trimmed(text) ==
  LET solid == {i \in DOMAIN text : text[i] \notin Spaces}
  IN IF solid = {} THEN <<>> ELSE SubSeq(text, Min(solid), Max(solid))

(* parseMail                                                               *)
Parse ==
  /\ stage = "configured"
  /\ templates' = [k \in DOMAIN templates |-> [subject |-> Trimmed(templates[k].subject),
                                               body |-> Trimmed(templates[k].body)]]
  /\ stage' = IF \A k \in DOMAIN templates :
                   /\ ConfigAccepts(templates'[k].subject, TRUE)
                   /\ ConfigAccepts(templates'[k].body, FALSE)
                THEN "accepted" ELSE "rejected"
  /\ UNCHANGED <<kind, plans, message>>

Render ==
  /\ stage = "accepted"
  /\ IF Applies(SubjectOf(kind), TRUE, kind) /\ Applies(BodyOf(kind), FALSE, kind)
       THEN /\ stage' = "rendered"
            /\ message' = [subject |-> Filled(SubjectOf(kind), kind),
                           body |-> Filled(BodyOf(kind), kind)]
       ELSE stage' = "failed" /\ UNCHANGED message
  /\ UNCHANGED <<kind, plans, templates>>

(* validateMessage, the first thing every sender does                      *)
Validate ==
  /\ stage = "rendered"
  /\ stage' = IF IsBlank(message.subject) THEN "refused" ELSE "sent"
  /\ UNCHANGED <<kind, plans, templates, message>>

MailNext == Parse \/ Render \/ Validate

MailSpec == MailInit /\ [][MailNext]_mailVars
-----------------------------------------------------------------------------
MailTypeOK ==
  /\ stage \in {"configured", "accepted", "rejected", "rendered", "failed", "refused", "sent"}
  /\ kind \in Kinds
  /\ plans \in PlanLists
  /\ message.subject \in Texts /\ message.body \in Texts
  /\ ~HasToken(message.subject \o message.body, Placeholders \cup {Unlisted})

(* An accepted template never keeps an alert from being rendered; only the *)
(* name of an unknown plan with a line break in it does, and a break of LF *)
(* or CR LF only in a subject that lists these names.                      *)
AcceptedIsRendered ==
  stage = "failed" =>
    \/ HasCR(plans)
    \/ HasToken(plans, {"LF"}) /\ HasToken(SubjectOf(kind), {"{{unknown_plans}}"})

(* What events of a kind are meant to tell.                                *)
Told(k) ==
  {"{{kind}}"} \cup
  CASE k \in {"low", "low_reminder", "recovery"} -> {"{{total}}"}
    [] k = "data_error" -> {"{{error_code}}"}
    [] k = "plan_changed" /\ plans # <<>> -> {"{{unknown_plans}}"}
    [] OTHER -> {}

(* A subject that says something of its own, or what events of its kind    *)
(* are meant to tell, is never refused by the senders.                     *)
SayingSubjectIsSent ==
  stage = "refused" => ~HasToken(SubjectOf(kind), {"word"} \cup Told(kind))

(* The subject that is sent has one line and says something, whatever was  *)
(* filled in.                                                              *)
SentSubjectIsOneLine ==
  stage = "sent" =>
    ~IsBlank(message.subject) /\ ~HasToken(message.subject, {"LF", "CR"})

(* An accepted template makes a message that is sent and that says what it *)
(* was written for, with the exceptions named above.                       *)
AcceptedIsSent ==
  MailTypeOK /\ AcceptedIsRendered /\ SayingSubjectIsSent /\ SentSubjectIsOneLine
=============================================================================
