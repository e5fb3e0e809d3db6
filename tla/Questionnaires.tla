---------------------------- MODULE Questionnaires ----------------------------
(***************************************************************************)
(* Questionnaires, both ways.  One that a vendor answers through a portal     *)
(* while staff run the campaign (vendor_campaign_service.py,                  *)
(* routers/vendor_campaigns.py): a request is admitted by the status it read, *)
(* then saves, then submits.  And one that was sent to the organization, whose *)
(* questions are mapped to entries of the answer library or answered by hand  *)
(* (questionnaire_service.py, answer_pages.py): a form posts what its page     *)
(* showed, the text of the entry is read, then the row is written.             *)
(***************************************************************************)
EXTENDS Naturals, FiniteSets

CONSTANTS
    Questions,  \* of the campaign
    Posts,      \* requests of the vendor
    Staff,      \* requests of staff
    Responses,  \* questions of the inbound questionnaire
    Entries,    \* of the answer library
    Texts,      \* what answers read, "" is none
    Editors,    \* requests that fill a response
    MaxSteps,   \* bound of what staff and editors begin
    None

VARIABLES
    status,   \* of the campaign
    answer,   \* question |-> its answer; its status is answered when that is a text
    post,     \* request of the vendor |-> [phase, answers, action]
    send,     \* request of staff |-> the status it read, or None
    library,  \* entry |-> its text, None when it is deleted
    response, \* response |-> [entry, text, status]
    editor,   \* request |-> [phase, page, posted, read, fill]
    steps,
    own       \* history: the responses whose text is their writer's own

campaignVars == <<status, answer, post, send>>
libraryVars == <<library, response, editor, own>>
vars == <<campaignVars, libraryVars, steps>>

Statuses == {"draft", "sent", "in_progress", "submitted", "reviewed"}
Editable == {"sent", "in_progress"}

Blank == [entry |-> None, text |-> "", status |-> "unanswered"]
NoPost == [phase |-> "none", answers |-> None, action |-> None]
NoForm == [phase |-> "none", page |-> None, posted |-> None, read |-> None, fill |-> None]

Init ==
    /\ status = "draft" /\ answer = [q \in {} |-> ""]
    /\ post = [p \in Posts |-> NoPost] /\ send = [s \in Staff |-> None]
    /\ library \in [Entries -> Texts \ {""}]
    /\ response = [r \in Responses |-> Blank]
    /\ editor = [e \in Editors |-> NoForm]
    /\ steps = 0 /\ own = {}

Count == steps < MaxSteps /\ steps' = steps + 1

-----------------------------------------------------------------------------
(* The campaign *)

\* add_question, import_questions: also of a campaign that was sent.
AddQuestion ==
    /\ Count
    /\ \E q \in Questions \ DOMAIN answer :
         answer' = [x \in DOMAIN answer \cup {q} |-> IF x = q THEN "" ELSE answer[x]]
    /\ UNCHANGED <<status, post, send, libraryVars>>

\* campaign_send: the status is read, with the questions ...
BeginSend(s) ==
    /\ Count /\ send[s] = None /\ DOMAIN answer # {}
    /\ send' = [send EXCEPT ![s] = status]
    /\ UNCHANGED <<status, answer, post, libraryVars>>

\* ... and set, if it was draft then.
EndSend(s) ==
    /\ send[s] # None
    /\ send' = [send EXCEPT ![s] = None]
    /\ status' = IF send[s] = "draft" THEN "sent" ELSE status
    /\ UNCHANGED <<answer, post, libraryVars, steps>>

\* campaign_set_status: any of them at any time.
SetStatus ==
    /\ Count
    /\ status' \in Statuses \ {status}
    /\ UNCHANGED <<answer, post, send, libraryVars>>

\* portal_submit: the token leads to the campaign, its status admits the request.
Admit(p) ==
    /\ post[p].phase = "none" /\ status \in Editable
    /\ \E texts \in [Questions -> Texts], action \in {"save", "submit"} :
         post' = [post EXCEPT ![p] = [phase |-> "save", answers |-> texts, action |-> action]]
    /\ UNCHANGED <<status, answer, send, libraryVars, steps>>

Saved(p) == [q \in DOMAIN answer |-> post[p].answers[q]]
Saving(p) ==
    /\ post[p].phase = "save"
    /\ answer' = Saved(p)
    /\ post' = [post EXCEPT ![p] = IF @.action = "submit" THEN [@ EXCEPT !.phase = "submit"] ELSE NoPost]
    /\ UNCHANGED <<send, libraryVars, steps>>

\* mutant: a save says that the campaign is in progress, whatever it is by now
Save_Always(p) == Saving(p) /\ status' = "in_progress"

\* save_answers, in a transaction: the answers, and a campaign that was just sent
\* is in progress.
Save(p) == Saving(p) /\ status' = IF status = "sent" THEN "in_progress" ELSE status

Submit(p) ==
    /\ post[p].phase = "submit"
    /\ post' = [post EXCEPT ![p] = NoPost]
    /\ status' = IF status \in Editable THEN "submitted" ELSE status
    /\ UNCHANGED <<answer, send, libraryVars, steps>>

Progress == [answered |-> Cardinality({q \in DOMAIN answer : answer[q] # ""}), total |-> Cardinality(DOMAIN answer)]

-----------------------------------------------------------------------------
(* The inbound questionnaire *)

Canonical(e) == IF e = None \/ library[e] = None THEN "" ELSE library[e]

\* mutant: the text that the form posts wins
Fill_Posted(now, posted) ==
    IF posted.entry # None /\ posted.text = "" THEN Canonical(posted.entry) ELSE posted.text

\* set_response: mapping fills in the text of the entry.  A form always posts the
\* text it shows, so that another entry replaces it unless it was edited, here
\* or before.
Fill(now, posted) ==
    LET unedited == now.text \in {"", Canonical(now.entry)} /\ posted.text = now.text
    IN IF posted.entry # None /\ (posted.text = "" \/ (now.entry # posted.entry /\ unedited))
       THEN Canonical(posted.entry) ELSE posted.text

\* The page of a questionnaire, with the form of a response.
OpenPage(e, r) ==
    /\ editor[e].phase = "none"
    /\ editor' = [editor EXCEPT ![e] = [NoForm EXCEPT !.phase = "open", !.page = [of |-> r, row |-> response[r]]]]
    /\ UNCHANGED <<campaignVars, library, response, steps, own>>

\* The form is posted, with an entry, a text and perhaps reviewed; what there is
\* by now is read, and the text of the entry.
PostForm(e) ==
    /\ Count /\ editor[e].phase = "open"
    /\ \E entry \in Entries \cup {None}, text \in Texts \cup {editor[e].page.row.text}, reviewed \in BOOLEAN :
         LET posted == [entry |-> entry, text |-> text, reviewed |-> reviewed]
         IN /\ entry # None => library[entry] # None
            /\ editor' = [editor EXCEPT ![e] =
                 [@ EXCEPT !.phase = "write", !.posted = posted,
                           !.read = [row |-> response[editor[e].page.of], text |-> Canonical(entry),
                                     own |-> editor[e].page.of \in own],
                           !.fill = Fill(response[editor[e].page.of], posted)]]
    /\ UNCHANGED <<campaignVars, library, response, own>>

\* A text is its writer's own when it was typed, now or before the form was posted,
\* or stayed when its entry was taken away, or if the row or the entry changed while
\* the form was filled in.
OwnNow(e, r) ==
    LET posted == editor[e].posted
        page == editor[e].page.row
        read == editor[e].read
    IN \/ posted.entry = None
       \/ posted.text # "" /\ (posted.text # page.text \/ r \in own \/ read.own \/ page.entry = None)
       \/ \E row \in {read.row, response[r]} : row.entry # page.entry \/ row.text # page.text
       \/ Canonical(posted.entry) # read.text

\* The row: an empty text and no entry leave the text that was there.
WriteRow(e) ==
    /\ editor[e].phase = "write"
    /\ LET r == editor[e].page.of
           posted == editor[e].posted
           fill == editor[e].fill
       IN /\ posted.entry # None => library[posted.entry] # None
          /\ response' = [response EXCEPT ![r] =
                [entry |-> posted.entry, text |-> IF posted.entry = None /\ posted.text = "" THEN @.text ELSE fill,
                 status |-> IF posted.reviewed THEN "reviewed"
                            ELSE IF fill # "" \/ posted.entry # None THEN "filled" ELSE "unanswered"]]
          /\ own' = IF OwnNow(e, r) THEN own \cup {r} ELSE own \ {r}
    /\ editor' = [editor EXCEPT ![e] = NoForm]
    /\ UNCHANGED <<campaignVars, library, steps>>

\* The entry was deleted meanwhile: its row is refused.
WriteFails(e) ==
    /\ editor[e].phase = "write"
    /\ editor[e].posted.entry # None /\ (editor[e].posted.entry # None => library[editor[e].posted.entry] = None)
    /\ editor' = [editor EXCEPT ![e] = NoForm]
    /\ UNCHANGED <<campaignVars, library, response, steps, own>>

\* An entry is edited, or deleted: ON DELETE SET NULL.  What was filled in from
\* it stays as it is.
EditEntry(a) ==
    /\ Count /\ library[a] # None
    /\ \E text \in (Texts \ {"", library[a]}) \cup {None} :
         /\ library' = [library EXCEPT ![a] = text]
         /\ response' = [r \in Responses |-> IF response[r].entry = a /\ text = None
                           THEN [response[r] EXCEPT !.entry = None] ELSE response[r]]
    /\ own' = own \cup {r \in Responses : response[r].entry = a}
    /\ UNCHANGED <<campaignVars, editor>>

Next ==
    \/ AddQuestion \/ SetStatus
    \/ \E s \in Staff : BeginSend(s) \/ EndSend(s)
    \/ \E p \in Posts : Admit(p) \/ Save(p) \/ Submit(p)
    \/ \E e \in Editors : PostForm(e) \/ WriteRow(e) \/ WriteFails(e) \/ \E r \in Responses : OpenPage(e, r)
    \/ \E a \in Entries : EditEntry(a)

Spec == Init /\ [][Next]_vars

-----------------------------------------------------------------------------
(* Properties *)

\* A response that is mapped to an entry says what the entry says, unless
\* someone wrote something else or was overtaken: mapping it to another entry
\* brings the text of that one with it.
Attested ==
    \A r \in Responses : r \notin own /\ response[r].entry # None => response[r].text = library[response[r].entry]

\* A request of the vendor, however late it saves or submits, only moves a
\* campaign that is open: what was submitted or reviewed meanwhile stays so, and
\* one that staff took back to draft is not sent again.
VendorKeepsClosed == post' # post /\ status' # status => status \in Editable

QuestionnairesHold == []Attested /\ [][VendorKeepsClosed]_vars
=============================================================================
