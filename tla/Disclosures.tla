----------------------------- MODULE Disclosures -----------------------------
(***************************************************************************)
(* What the register tells: to those who read it (Reading), and in answers *)
(* to questionnaires (Questionnaires), with every constant left open.  A   *)
(* behaviour belongs to one part, chosen by its first state: an instance   *)
(* of one of the two with the constants that ReadParts or AnswerParts has  *)
(* for the part.                                                           *)
(***************************************************************************)
EXTENDS Integers, Sequences, FiniteSets

CONSTANTS ReadParts,     \* part |-> the constants of Reading
          AnswerParts,   \* part |-> the constants of Questionnaires
          Absent         \* no rule, no setting, no entry and no text

VARIABLES desk,          \* the part
          rule, form, request, log, retention, purge, day, views, lost, gone, tally,
          status, answer, post, send, library, response, editor, own, steps

ReadAssumption(c) ==
    /\ c.kinds \subseteq {"page", "fetch", "list", "search", "export"}
    /\ c.retentions \subseteq Int \cup {Absent}

ASSUME DisclosureAssumption ==
    /\ DOMAIN ReadParts \cap DOMAIN AnswerParts = {}
    /\ \A p \in DOMAIN ReadParts : ReadAssumption(ReadParts[p])

View(p) == INSTANCE Reading WITH
  Fields <- ReadParts[p].fields, CodeSensitive <- ReadParts[p].sensitive, Rules <- ReadParts[p].rules,
  Kinds <- ReadParts[p].kinds, Readers <- ReadParts[p].readers, Admins <- ReadParts[p].admins,
  Retentions <- ReadParts[p].retentions, LastDay <- ReadParts[p].most[1], MaxReads <- ReadParts[p].most[2],
  MaxForms <- ReadParts[p].most[3], MaxRetentions <- ReadParts[p].most[4], None <- Absent

Reply(p) == INSTANCE Questionnaires WITH
  Questions <- AnswerParts[p].questions, Posts <- AnswerParts[p].posts, Staff <- AnswerParts[p].staff,
  Responses <- AnswerParts[p].responses, Entries <- AnswerParts[p].entries, Texts <- AnswerParts[p].texts,
  Editors <- AnswerParts[p].editors, MaxSteps <- AnswerParts[p].steps, None <- Absent

ReadVars == <<rule, form, request, log, retention, purge, day, views, lost, gone, tally>>
ReplyVars == <<status, answer, post, send, library, response, editor, own>>
AnswerVars == <<ReplyVars, steps>>

\* What is blank in the parts of the other module.
NoReading == /\ rule = 0 /\ form = 0 /\ request = 0 /\ log = 0 /\ retention = 0 /\ purge = 0
             /\ day = 0 /\ views = 0 /\ lost = 0 /\ gone = 0 /\ tally = 0
NoAnswers == /\ status = 0 /\ answer = 0 /\ post = 0 /\ send = 0
             /\ library = 0 /\ response = 0 /\ editor = 0 /\ own = 0 /\ steps = 0

DisclosureInit ==
    \/ NoAnswers /\ \E p \in DOMAIN ReadParts : desk = p /\ View(p)!Init
    \/ NoReading /\ \E p \in DOMAIN AnswerParts : desk = p /\ Reply(p)!Init

DisclosureNext ==
    /\ UNCHANGED desk
    /\ \/ UNCHANGED AnswerVars /\ \E p \in DOMAIN ReadParts : desk = p /\ View(p)!Next
       \/ UNCHANGED ReadVars /\ \E p \in DOMAIN AnswerParts : desk = p /\ Reply(p)!Next

DisclosureSpec == DisclosureInit /\ [][DisclosureNext]_<<desk, ReadVars, AnswerVars>>

-----------------------------------------------------------------------------
\* What is shown follows the rules, and is logged (Reading); answers say what the
\* library says or what somebody wrote, and a campaign that was closed stays closed
\* to its vendor (Questionnaires).
DisclosuresHold ==
    /\ [](/\ \A p \in DOMAIN ReadParts : desk = p => View(p)!ReadingHolds
          /\ \A p \in DOMAIN AnswerParts : desk = p => Reply(p)!Attested)
    /\ [][\A p \in DOMAIN AnswerParts : desk = p => Reply(p)!VendorKeepsClosed]_<<desk, AnswerVars>>
=============================================================================
