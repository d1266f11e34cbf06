----------------------------- MODULE EntryForm -----------------------------
(***************************************************************************)
(* The page on which a document is written and handed in, in the browser:  *)
(* an item request (item-request-form-page.tsx), an issue for a request    *)
(* (item-issue-form-page.tsx) or one for a department                      *)
(* (department-issue-form-page.tsx).  Handing in takes two calls: the      *)
(* entry is saved, and what was saved is submitted.  The server answers a  *)
(* save with the document as it finds it after the commit                  *)
(* (getItemRequestById, getItemIssueById), so another tab or another maker *)
(* may have been there in between; and either call may be refused, or its  *)
(* answer lost.                                                            *)
(*                                                                         *)
(* All issues of kind "issue" are for one request, which has one open      *)
(* issue at a time.  A document that the checker has dealt with for good   *)
(* is out of reach of the form and left out, and so are remarks.           *)
(***************************************************************************)
EXTENDS Naturals

CONSTANTS
  Contents,    \* what may be entered
  Documents,   \* identifiers for rows of item_requests or item_issues
  MaxVersion,  \* bound: a document at this version is not changed
  None

(* What is assumed of the constants.                                       *)
EntryFormAssumption ==
  MaxVersion \in Nat /\ None \notin Contents \cup Documents

VARIABLES
  kind,      \* which of the three forms it is
  row,       \* row[d]: the document on the server
  page,      \* what the page works on, and the entry it takes to be stored
  entry,     \* what is typed in
  sent,      \* the call under way
  created,   \* documents this page has created
  failed,    \* whether it has shown an error after a document was created
  overtaken  \* whether the last answer to a save had been overtaken
vars == <<kind, row, page, entry, sent, created, failed, overtaken>>

Kinds == {"request", "issue", "department"}

Editable == {"DRAFT", "RETURNED"}

NoRow == [status |-> "ABSENT", version |-> 0, content |-> None]

NewPage == [mode |-> "create", doc |-> None, version |-> 0, basis |-> None]

Left == [NewPage EXCEPT !.mode = "left"]

Silent == [step |-> "none", submit |-> FALSE, doc |-> None, expected |-> 0,
           wrote |-> 0, content |-> None]

Init ==
  /\ kind \in Kinds
  /\ row = [d \in Documents |-> NoRow]
  /\ page = NewPage
  /\ entry \in Contents
  /\ sent = Silent
  /\ created = {}
  /\ failed = FALSE /\ overtaken = FALSE

-----------------------------------------------------------------------------

(* The page of a document, loaded anew.                                    *)
Open(d) ==
  /\ sent = Silent
  /\ row[d].status \in Editable
  /\ page' = [mode |-> "edit", doc |-> d, version |-> row[d].version,
              basis |-> row[d].content]
  /\ entry' = row[d].content
  /\ overtaken' = FALSE
  /\ UNCHANGED <<kind, row, sent, created, failed>>

(* The fields are disabled while a call is under way.                      *)
Type(c) ==
  /\ sent = Silent /\ page.mode # "left" /\ c # entry
  /\ entry' = c
  /\ UNCHANGED <<kind, row, page, sent, created, failed, overtaken>>

(* handleSaveDraft, and the first half of handleConfirmedSubmit or         *)
(* handleSubmitIssue: a new request can be handed in at once, a new issue  *)
(* only be saved.                                                          *)
Save(submit) ==
  /\ sent = Silent
  /\ page.mode # "left"
  /\ page.mode = "create" /\ submit => kind = "request"
  /\ sent' = [Silent EXCEPT !.step = "saving", !.submit = submit, !.doc = page.doc,
                            !.expected = page.version, !.content = entry]
  /\ UNCHANGED <<kind, row, page, entry, created, failed, overtaken>>

IssueIsOpen == kind = "issue" /\ \E d \in Documents : row[d].status # "ABSENT"

(* createItemRequest, createItemIssueFromRequest, createDepartmentIssue.   *)
Created(d) ==
  /\ sent.step = "saving" /\ page.mode = "create"
  /\ row[d] = NoRow /\ ~IssueIsOpen
  /\ row' = [row EXCEPT ![d] = [status |-> "DRAFT", version |-> 1,
                                content |-> sent.content]]
  /\ created' = created \cup {d}
  /\ sent' = [sent EXCEPT !.step = "saved", !.doc = d, !.wrote = 1]
  /\ UNCHANGED <<kind, page, entry, failed, overtaken>>

(* The request has an issue by now: the page goes to that one.             *)
SentToOpenIssue ==
  /\ sent.step = "saving" /\ page.mode = "create" /\ IssueIsOpen
  /\ page' = Left
  /\ sent' = Silent
  /\ UNCHANGED <<kind, row, entry, created, failed, overtaken>>

Current_AnyVersion == row[sent.doc].status \in Editable

(* The WHERE clause of an update, and the checks of a submission.          *)
Current ==
  /\ row[sent.doc].version = sent.expected
  /\ row[sent.doc].status \in Editable

(* updateItemRequest, updateItemIssue, updateDepartmentIssue.              *)
Updated ==
  /\ sent.step = "saving" /\ page.mode = "edit"
  /\ Current
  /\ row[sent.doc].version < MaxVersion
  /\ row' = [row EXCEPT ![sent.doc].version = @ + 1, ![sent.doc].content = sent.content]
  /\ sent' = [sent EXCEPT !.step = "saved", !.wrote = row[sent.doc].version + 1]
  /\ UNCHANGED <<kind, page, entry, created, failed, overtaken>>

(* What the page keeps of the answer to a save.  The entry stays as typed. *)
Kept(answer) ==
  IF page.mode = "edit" /\ (kind = "request" \/ ~sent.submit)
  THEN [page EXCEPT !.version = answer.version, !.basis = sent.content]
  ELSE page

(* Saving alone ends on the page of the document.  That of an issue is     *)
(* this one, as long as the answer says it can be edited.                  *)
StaysOnPage(answer) ==
  kind # "request" /\ page.mode = "edit" /\ answer.status \in Editable

(* The answer to a save is the document as it is by then, and a page that  *)
(* hands in goes on with the version of the answer.                        *)
Saved ==
  LET answer == row[sent.doc] IN
  /\ sent.step = "saved"
  /\ overtaken' = (answer.version # sent.wrote)
  /\ IF sent.submit
     THEN /\ page' = Kept(answer)
          /\ sent' = [sent EXCEPT !.step = "submitting", !.expected = answer.version]
     ELSE /\ page' = IF StaysOnPage(answer) THEN Kept(answer) ELSE Left
          /\ sent' = Silent
  /\ UNCHANGED <<kind, row, entry, created, failed>>

(* performItemRequestAction (SUBMIT, or RESUBMIT after a return), and      *)
(* submitItemIssue.                                                        *)
Submitted ==
  /\ sent.step = "submitting"
  /\ Current
  /\ row[sent.doc].version < MaxVersion
  /\ row' = [row EXCEPT ![sent.doc].version = @ + 1, ![sent.doc].status = "PENDING"]
  /\ sent' = [sent EXCEPT !.step = "submitted"]
  /\ UNCHANGED <<kind, page, entry, created, failed, overtaken>>

Done ==
  /\ sent.step = "submitted"
  /\ page' = Left
  /\ sent' = Silent
  /\ UNCHANGED <<kind, row, entry, created, failed, overtaken>>

(* A call is refused, for its version or any other reason, or its answer   *)
(* is lost or an error: the page shows an error and stays as it is.        *)
Failed ==
  /\ sent # Silent
  /\ failed' = (failed \/ created # {})
  /\ sent' = Silent
  /\ UNCHANGED <<kind, row, page, entry, created, overtaken>>

-----------------------------------------------------------------------------
(* Another tab of the user, another maker of the store, or the checker.    *)

OtherWrites(d, status, content) ==
  /\ row[d].version < MaxVersion
  /\ row' = [row EXCEPT ![d] = [status |-> status, version |-> @.version + 1,
                                content |-> content]]
  /\ UNCHANGED <<kind, page, entry, sent, created, failed, overtaken>>

OtherCreates(d, c) ==
  /\ kind = "issue" /\ ~IssueIsOpen
  /\ OtherWrites(d, "DRAFT", c)

OtherSaves(d, c) ==
  row[d].status \in Editable /\ OtherWrites(d, row[d].status, c)

OtherSubmits(d) ==
  row[d].status \in Editable /\ OtherWrites(d, "PENDING", row[d].content)

OtherReturns(d) ==
  row[d].status = "PENDING" /\ OtherWrites(d, "RETURNED", row[d].content)

Next ==
  \/ \E d \in Documents : Open(d) \/ Created(d) \/ OtherSubmits(d) \/ OtherReturns(d)
  \/ \E d \in Documents, c \in Contents : OtherCreates(d, c) \/ OtherSaves(d, c)
  \/ \E c \in Contents : Type(c)
  \/ \E submit \in BOOLEAN : Save(submit)
  \/ SentToOpenIssue \/ Updated \/ Saved \/ Submitted \/ Done \/ Failed

Spec == Init /\ [][Next]_vars

-----------------------------------------------------------------------------

TypeOK ==
  /\ kind \in Kinds
  /\ row \in [Documents -> [status : Editable \cup {"ABSENT", "PENDING"},
                            version : Nat, content : Contents \cup {None}]]
  /\ page \in [mode : {"create", "edit", "left"}, doc : Documents \cup {None},
               version : Nat, basis : Contents \cup {None}]
  /\ entry \in Contents
  /\ sent \in [step : {"none", "saving", "saved", "submitting", "submitted"},
               submit : BOOLEAN, doc : Documents \cup {None}, expected : Nat,
               wrote : Nat, content : Contents \cup {None}]
  /\ created \subseteq Documents
  /\ failed \in BOOLEAN /\ overtaken \in BOOLEAN

(* A page overwrites only what it had shown or stored itself...            *)
OverwritesOnlyWhatItKnows ==
  sent.step = "saving" /\ sent'.step = "saved" /\ page.mode = "edit"
    => row[page.doc].content = page.basis \/ overtaken

(* ... what goes to the checker is what was on the page when its user      *)
(* confirmed, though another tab may save between the two calls...         *)
SubmitsWhatWasConfirmed ==
  sent.step = "submitting" /\ sent'.step = "submitted"
    => row[sent.doc].content = sent.content \/ overtaken

(* ... and a page makes a second document only after it has shown an       *)
(* error, and never a second issue for a request.                          *)
CreatesAgainOnlyAfterAnError ==
  created' # created /\ created # {} => kind # "issue" /\ failed

(* A page stores and hands in what its user sees.  The one way out is an   *)
(* answer that was overtaken: it has the version of another's write, which *)
(* the page takes for its own and then overwrites or hands in unseen.      *)
FormStep ==
  /\ OverwritesOnlyWhatItKnows
  /\ SubmitsWhatWasConfirmed
  /\ CreatesAgainOnlyAfterAnError

FormDoesWhatItShows == [][FormStep]_vars
=============================================================================
