-------------------------------- MODULE Legal --------------------------------
(***************************************************************************)
(* The versions of one type of legal document and the consents of users to *)
(* them (admin.service.ts, profiles.service.ts, auth.service.ts).  A new   *)
(* version is written while inactive; activating it archives the others    *)
(* under an advisory lock of the type and a unique key of the active row.  *)
(***************************************************************************)
EXTENDS Naturals, FiniteSets

CONSTANTS
  Documents,   \* bound: versions of the type
  Users,       \* bound
  MaxEdits,    \* bound: edits of one version
  Requests,    \* bound: requests in flight at once
  Nobody       \* holds no lock

VARIABLES
  document,
  accepted,    \* user_consents, with the text that was accepted
  lock,        \* pg_advisory_xact_lock("legal:" type)
  legal,       \* requests in flight
  overtaken    \* history: a version was edited after it had been activated

vars == <<document, accepted, lock, legal, overtaken>>

-----------------------------------------------------------------------------
\* text stands for contentUrl; due: effectiveAt has passed.
Document == [status: {"none", "INACTIVE", "ACTIVE", "ARCHIVED"}, activeTypeKey: BOOLEAN,
             text: 0..MaxEdits, due: BOOLEAN]
Consent == [user: Users, document: Documents, text: 0..MaxEdits]

\* seen: the rows a statement or a check has read.
Request == [pc: {"idle", "edit", "lock", "archive", "activate", "consent"},
            action: {"none", "ACTIVATE", "ARCHIVE"},
            on: SUBSET Documents, user: SUBSET Users, seen: SUBSET (Documents \cup Consent)]
Idle == [pc |-> "idle", action |-> "none", on |-> {}, user |-> {}, seen |-> {}]

TypeOK ==
  /\ document \in [Documents -> Document]
  /\ accepted \subseteq Consent
  /\ lock \in Requests \cup {Nobody}
  /\ legal \in [Requests -> Request]
  /\ overtaken \in BOOLEAN

NoDocument == [status |-> "none", activeTypeKey |-> FALSE, text |-> 0, due |-> FALSE]
Init ==
  /\ document = [d \in Documents |-> NoDocument]
  /\ accepted = {}
  /\ lock = Nobody
  /\ legal = [r \in Requests |-> Idle]
  /\ overtaken = FALSE

Begin(r, pc, action, d) ==
  /\ legal[r].pc = "idle"
  /\ legal' = [legal EXCEPT ![r] = [Idle EXCEPT !.pc = pc, !.action = action, !.on = {d}]]
Finish(r) == legal' = [legal EXCEPT ![r] = Idle]

Actives == {d \in Documents : document[d].status = "ACTIVE"}

-----------------------------------------------------------------------------
(* Administration                                                          *)

createLegalDocument(d) ==
  /\ document[d].status = "none"
  /\ \E due \in BOOLEAN :
       document' = [document EXCEPT ![d] = [NoDocument EXCEPT !.status = "INACTIVE", !.due = due]]
  /\ UNCHANGED <<accepted, lock, legal, overtaken>>

\* Mutant of Editable: only the version in force cannot be edited.
EditableUnlessActive(d) == document[d].status \in {"INACTIVE", "ARCHIVED"}

Editable(d) == document[d].status = "INACTIVE"

updateLegalDocument(r, d) ==
  /\ Editable(d)
  /\ document[d].text < MaxEdits
  /\ Begin(r, "edit", "none", d)
  /\ UNCHANGED <<document, accepted, lock, overtaken>>

EditCommit(r) ==
  /\ legal[r].pc = "edit"
  /\ \E d \in legal[r].on, due \in BOOLEAN :
       /\ document[d].text < MaxEdits
       /\ document' = [document EXCEPT ![d].text = @ + 1, ![d].due = due]
       /\ overtaken' = (overtaken \/ ~ Editable(d))
  /\ Finish(r)
  /\ UNCHANGED <<accepted, lock>>

legalStatus(r, d, action) ==
  /\ document[d].status # "none"
  /\ Begin(r, "lock", action, d)
  /\ UNCHANGED <<document, accepted, lock, overtaken>>

\* Mutant of Lock: activations do not wait for each other.
LockNone(r) ==
  /\ legal[r].pc = "lock"
  /\ lock' = Nobody
  /\ legal' = [legal EXCEPT ![r].pc = "archive"]
  /\ UNCHANGED <<document, accepted, overtaken>>

Lock(r) ==
  /\ legal[r].pc = "lock"
  /\ lock = Nobody
  /\ lock' = r
  /\ legal' = [legal EXCEPT ![r].pc = "archive"]
  /\ UNCHANGED <<document, accepted, overtaken>>

\* The other active versions, as the update that archives them finds them.
StatusOthers(r) ==
  /\ legal[r].pc = "archive"
  /\ legal' = [legal EXCEPT ![r].pc = "activate",
                 ![r].seen = IF legal[r].action = "ACTIVATE" THEN Actives \ legal[r].on ELSE {}]
  /\ UNCHANGED <<document, accepted, lock, overtaken>>

\* Keys that are still taken when the version gets its own.
KeysInTheWay(r) ==
  {d \in Documents \ (legal[r].on \cup legal[r].seen) : document[d].activeTypeKey}

Release(r) == lock' = IF lock = r THEN Nobody ELSE lock

StatusCommit(r) ==
  /\ legal[r].pc = "activate"
  /\ IF legal[r].action = "ARCHIVE"
     THEN document' = [d \in Documents |-> IF d \in legal[r].on
            THEN [document[d] EXCEPT !.status = "ARCHIVED", !.activeTypeKey = FALSE] ELSE document[d]]
     ELSE /\ KeysInTheWay(r) = {}
          /\ document' = [d \in Documents |->
               IF d \in legal[r].on THEN [document[d] EXCEPT !.status = "ACTIVE", !.activeTypeKey = TRUE]
               ELSE IF d \in legal[r].seen THEN [document[d] EXCEPT !.status = "ARCHIVED", !.activeTypeKey = FALSE]
               ELSE document[d]]
  /\ Release(r) /\ Finish(r)
  /\ UNCHANGED <<accepted, overtaken>>

-----------------------------------------------------------------------------
(* Users                                                                   *)

currentLegal == {d \in Actives : document[d].due}

\* Of one version, or of all current ones when an account is created.
consent(r, u) ==
  /\ currentLegal # {}
  /\ legal[r].pc = "idle"
  /\ legal' = [legal EXCEPT ![r] = [Idle EXCEPT !.pc = "consent", !.user = {u},
       !.seen = {[user |-> u, document |-> d, text |-> document[d].text] : d \in currentLegal}]]
  /\ UNCHANGED <<document, accepted, lock, overtaken>>

\* A consent given before stays as it is.
ConsentCommit(r) ==
  /\ legal[r].pc = "consent"
  /\ accepted' = accepted \cup
       {c \in legal[r].seen : ~ \E e \in accepted : e.user = c.user /\ e.document = c.document}
  /\ Finish(r)
  /\ UNCHANGED <<document, lock, overtaken>>

-----------------------------------------------------------------------------
\* effectiveAt passes.
Pass(d) ==
  /\ document[d].status # "none" /\ ~ document[d].due
  /\ document' = [document EXCEPT ![d].due = TRUE]
  /\ UNCHANGED <<accepted, lock, legal, overtaken>>

\* Refused by a unique key, or the process dies; the transaction rolls back.
End(r) ==
  /\ legal[r].pc # "idle"
  /\ Release(r) /\ Finish(r)
  /\ UNCHANGED <<document, accepted, overtaken>>

Next ==
  \/ \E r \in Requests :
       \/ \E d \in Documents :
            \/ updateLegalDocument(r, d)
            \/ \E action \in {"ACTIVATE", "ARCHIVE"} : legalStatus(r, d, action)
       \/ EditCommit(r) \/ Lock(r) \/ StatusOthers(r) \/ StatusCommit(r)
       \/ \E u \in Users : consent(r, u)
       \/ ConsentCommit(r) \/ End(r)
  \/ \E d \in Documents : createLegalDocument(d) \/ Pass(d)

Spec == Init /\ [][Next]_vars

-----------------------------------------------------------------------------
(* Properties                                                              *)

\* However many versions are activated at once, one is active, and under the
\* lock no activation is refused by the unique key of another.
OneActiveVersion ==
  /\ Cardinality(Actives) <= 1
  /\ \A r \in Requests : legal[r].pc = "activate" /\ legal[r].action = "ACTIVATE" => KeysInTheWay(r) = {}

\* "Only inactive legal versions can be edited" (admin.service.ts:1081): a
\* user's consent is to the text the version still has, unless an edit that
\* had found it inactive was overtaken by its activation.
ConsentedTextStays == overtaken \/ \A c \in accepted : document[c.document].text = c.text

-----------------------------------------------------------------------------
(* Inductive invariant                                                   *)

\* The unique key is that of the active version, of which there is one.
OneKey ==
  /\ \A d \in Documents : document[d].activeTypeKey <=> document[d].status = "ACTIVE"
  /\ \A d, e \in Actives : d = e

\* Activations run one at a time, and one that is about to commit has seen all
\* other active versions.
ActivationsExclude ==
  \A r \in Requests :
    /\ legal[r].pc \in {"archive", "activate"} => lock = r
    /\ \A d, e \in legal[r].on : d = e
    /\ legal[r].pc = "activate" /\ legal[r].action = "ACTIVATE" => Actives \subseteq legal[r].on \cup legal[r].seen

\* A consent is to a version that is no longer edited, and to its text.
Stands(c) ==
  /\ c \in Consent
  /\ document[c.document].status \in {"ACTIVE", "ARCHIVED"}
  /\ overtaken \/ document[c.document].text = c.text
ConsentsStandNow ==
  /\ \A c \in accepted : Stands(c)
  /\ \A r \in Requests : legal[r].pc = "consent" => \A c \in legal[r].seen : Stands(c)

IInv == TypeOK /\ OneKey /\ ActivationsExclude /\ ConsentsStandNow
=============================================================================
