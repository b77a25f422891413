---------------------------- MODULE ProjectSetup ----------------------------
(***************************************************************************)
(* The project setup page: entries are saved as versions of a draft, the   *)
(* draft and the runtime settings derived from it are validated, a live    *)
(* investigation tests them, and only then are they applied.  Meanwhile    *)
(* other administrators save drafts, apply theirs and change what a test   *)
(* depends on.                                                             *)
(*                                                                         *)
(* src/frontend/src/pages/ProjectSetup.tsx and                             *)
(* components/ProjectCandidateTest.tsx; the server is modelled by what     *)
(* api/routes/project_editor.py, api/routes/catalog.py and                 *)
(* runtime/project_candidate.py answer.                                    *)
(***************************************************************************)
EXTENDS Naturals, Sequences, SequencesExt

CONSTANTS
    Forms,        \* entries: the environments, and the name for all the others
    Blank,        \* the entries of a page that has loaded nothing
    Rests,        \* sections of the settings that this page does not edit
    None,
    Starts,       \* the saved drafts and the active settings at first
    MaxActs,      \* bound: what the user starts
    MaxLoads,     \* bound: loads in flight
    MaxTests,     \* bound: candidate tests with a key of their own
    MaxChanges    \* bound: changes by others

Envs == {f.env : f \in Forms}
Settings == [env : Envs, rest : Rests]
Yamls == [env : Envs, rest : Rests \cup {None}]
Validations == [yaml : Yamls, form : Forms]

ASSUME FormsAssumption ==
    /\ Blank \in Forms
    /\ \A env \in Envs : [env |-> env, name |-> Blank.name] \in Forms
ASSUME NoneAssumption == None \notin Settings /\ None \notin Validations
ASSUME StartAssumption == Starts \subseteq [drafts : Seq(Forms), project : Settings]

VARIABLES
    drafts,      \* the saved drafts: the version is the number of the last one
    project,     \* the active settings; their revision is their hash
    published,   \* name of the project in the directory
    deps,        \* everything else a test depends on
    tests,       \* runs of candidate tests, by key
    locked,      \* the harness lock is held by an apply
    changes,     \* changes by others so far
    form, payload, editorVersion, savedDraft, needsBaseline, loading,
    validation,  \* validatedSnapshot of a result that was valid, or None
    candidate,   \* the passing candidateResult, or None
    saving, validating, testing, hasConflict,
    mounted,     \* step 7 shows the candidate test
    busy, pending,   \* of ProjectCandidateTest
    keys,        \* keys of tests given out
    acts, calls

server == <<drafts, project, published, deps, tests, locked, changes>>
entries == <<form, payload, editorVersion, savedDraft, needsBaseline, loading>>
review == <<validation, candidate, pending>>
flags == <<saving, validating, testing, hasConflict, mounted, busy>>
vars == <<server, entries, review, flags, keys, acts, calls>>

-----------------------------------------------------------------------------
(* What the page derives when it renders.                                  *)

\* backendSaveYaml: the saved sections with the environments of the form.
Yaml == [env |-> form.env, rest |-> IF payload = None THEN None ELSE payload.rest]

Dirty == savedDraft # form
ValidationCurrent == validation = [yaml |-> Yaml, form |-> form]
CandidateSnapshot == [yaml |-> Yaml, form |-> form, version |-> editorVersion, revision |-> payload]
CandidatePassed == candidate # None /\ candidate.snapshot = CandidateSnapshot

\* The effect on loading, draftText and savedDraft takes the loaded entries as
\* the baseline of dirty - when one of the three has changed.
Commit(entered, saved, isLoading, needs) ==
    LET runs == /\ <<isLoading, entered, saved>> # <<loading, form, savedDraft>>
                /\ ~isLoading /\ needs
    IN  /\ form' = entered /\ loading' = isLoading
        /\ savedDraft' = IF runs THEN entered ELSE saved
        /\ needsBaseline' = (needs /\ ~runs)

\* The effect of the candidate test: another snapshot outdates the test in flight
\* and forgets its attempt and its result.
Outdated(cs, why) ==
    {IF c.kind = "test" /\ c.owner # "gone" THEN [c EXCEPT !.owner = why] ELSE c : c \in cs}

Render(cs, attempt, result) ==
    LET changed == mounted /\ CandidateSnapshot' # CandidateSnapshot
    IN  /\ calls' = IF changed THEN Outdated(cs, "outdated") ELSE cs
        /\ pending' = IF changed THEN None ELSE attempt
        /\ candidate' = IF changed THEN None ELSE result

-----------------------------------------------------------------------------
(* Requests.  An input is what the handler had in hand when it was called. *)

Input == CandidateSnapshot

Call(kind, input, key) ==
    [kind |-> kind, at |-> "sent", input |-> input, key |-> key,
     snapshot |-> IF kind = "test" THEN CandidateSnapshot ELSE None,
     owner |-> IF kind = "test" THEN "mounted" ELSE None,
     read |-> None, draft |-> None]

Rest(c) == calls \ {c}
Moved(c, at) == Rest(c) \cup {[c EXCEPT !.at = at]}

\* The answer may be lost on its way.
Serve(c, at) ==
    /\ calls' = Moved(c, at) \/ calls' = Moved(c, "lost")
    /\ UNCHANGED <<entries, review, flags, keys, acts>>

-----------------------------------------------------------------------------
(* The server.                                                             *)

version == Len(drafts)

\* save_editor: under the lock, for the version it expects.
SaveDraft(c) ==
    /\ c.kind \in {"draft", "validate"} /\ c.at = "sent" /\ ~locked
    /\ IF c.input.version = version
       THEN Serve(c, "saved") /\ drafts' = Append(drafts, c.input.form)
       ELSE Serve(c, "conflict") /\ UNCHANGED drafts
    /\ UNCHANGED <<project, published, deps, tests, locked, changes>>

\* validate_project_setup: the saved draft, then the settings.
Validate(c) ==
    /\ c.kind = "validate" /\ c.at = "check"
    /\ IF c.input.version + 1 = version THEN Serve(c, "valid") \/ Serve(c, "invalid")
                            ELSE Serve(c, "conflict")
    /\ UNCHANGED server

\* A mutated form: the settings the page was loaded with are not compared.
CandidateOfDraft(c) == c.input.version = version

\* candidate_configuration: the project and the draft are those of the page.
Candidate(c) == c.input.revision = project /\ c.input.version = version

CheckTest(c) ==
    /\ c.kind = "test" /\ c.at = "sent"
    /\ IF Candidate(c) THEN Serve(c, "checked") ELSE Serve(c, "conflict")
    /\ UNCHANGED server

\* trial, after its checks: the dependencies are read, and the run starts - or the
\* one with the same key is found.
StartTest(c) ==
    /\ c.kind = "test" /\ c.at = "checked"
    /\ tests' = IF c.key \in DOMAIN tests THEN tests
                ELSE [k \in DOMAIN tests \cup {c.key} |->
                        IF k # c.key THEN tests[k]
                        ELSE [yaml |-> c.input.yaml, version |-> c.input.version,
                              project |-> project, deps |-> deps, status |-> "running"]]
    /\ Serve(c, "running")
    /\ UNCHANGED <<drafts, project, published, deps, locked, changes>>

EndTest(k) ==
    /\ tests[k].status = "running"
    /\ \E status \in {"passed", "failed"} : tests' = [tests EXCEPT ![k].status = status]
    /\ UNCHANGED <<drafts, project, published, deps, locked, changes>>
    /\ UNCHANGED <<entries, review, flags, keys, acts, calls>>

AnswerTest(c) ==
    /\ c.kind = "test" /\ c.at = "running" /\ tests[c.key].status # "running"
    /\ Serve(c, tests[c.key].status)
    /\ UNCHANGED server

\* require_receipt.
Receipt(c) ==
    LET t == tests[c.key] IN
    /\ t.status = "passed" /\ t.yaml = c.input.yaml /\ t.version = c.input.version
    /\ t.project = project /\ t.deps = deps

\* _apply_project_setup holds the lock from its checks to the new settings.
CheckApply(c) ==
    /\ c.kind = "apply" /\ c.at = "sent" /\ ~locked
    /\ IF Candidate(c) /\ Receipt(c) THEN Serve(c, "checked") /\ locked' = TRUE
       ELSE Serve(c, "conflict") /\ UNCHANGED locked
    /\ UNCHANGED <<drafts, project, published, deps, tests, changes>>

\* The settings and the name of the tested draft are published together.
Apply(c) ==
    /\ c.kind = "apply" /\ c.at = "checked"
    /\ project' = c.input.yaml
    /\ published' = drafts[c.input.version].name
    /\ locked' = FALSE
    /\ Serve(c, "applied")
    /\ UNCHANGED <<drafts, deps, tests, changes>>

\* A load reads the project and the draft with two requests; an apply answers
\* with the project as it is afterwards.
ReadProject(c) ==
    /\ c.read = None
    /\ c.kind = "refresh" \/ (c.kind = "apply" /\ c.at = "applied")
    /\ calls' = Rest(c) \cup {[c EXCEPT !.read = project]}
    /\ UNCHANGED <<server, entries, review, flags, keys, acts>>

ReadDraft(c) ==
    /\ c.kind = "refresh" /\ c.draft = None
    /\ calls' = Rest(c) \cup {[c EXCEPT !.draft = version]}
    /\ UNCHANGED <<server, entries, review, flags, keys, acts>>

\* The request is lost, or the server fails.
Lose(c) ==
    /\ c.at \in {"sent", "check"}
    /\ Serve(c, "lost")
    /\ UNCHANGED server

Change ==
    /\ changes < MaxChanges /\ changes' = changes + 1
    /\ UNCHANGED <<entries, review, flags, keys, acts, calls>>

OtherDraft(f) ==
    /\ Change /\ ~locked
    /\ version > 0 => f # drafts[version]
    /\ drafts' = Append(drafts, f)
    /\ UNCHANGED <<project, published, deps, tests, locked>>

OtherApply(env) ==
    /\ Change /\ ~locked /\ env # project.env
    /\ project' = [project EXCEPT !.env = env]
    /\ UNCHANGED <<drafts, published, deps, tests, locked>>

\* A mutated form: availability changes without the lock.
SetAvailabilityUnlocked(rest) ==
    /\ Change /\ rest # project.rest
    /\ project' = [project EXCEPT !.rest = rest]
    /\ UNCHANGED <<drafts, published, deps, tests, locked>>

\* set_project_availability.
SetAvailability(rest) ==
    /\ Change /\ ~locked /\ rest # project.rest
    /\ project' = [project EXCEPT !.rest = rest]
    /\ UNCHANGED <<drafts, published, deps, tests, locked>>

ChangeDependency ==
    /\ Change
    /\ deps' = deps + 1
    /\ UNCHANGED <<drafts, project, published, tests, locked>>

-----------------------------------------------------------------------------
(* What the user does.                                                     *)

Act == acts < MaxActs /\ acts' = acts + 1

\* The buttons of the first two steps and of the conflict card.
Refresh ==
    /\ Act /\ (~mounted \/ hasConflict)
    /\ Commit(form, savedDraft, TRUE, needsBaseline)
    /\ \E k \in 1 .. MaxLoads :
         /\ \A c \in calls : c.kind = "refresh" => c.key # k
         /\ calls' = calls \cup {Call("refresh", None, k)}
    /\ UNCHANGED <<server, payload, editorVersion, review, flags, keys>>

Edit(f) ==
    /\ Act /\ ~mounted /\ f # form
    /\ Commit(f, savedDraft, loading, needsBaseline)
    /\ UNCHANGED <<server, payload, editorVersion, review, flags, keys, calls>>

\* The steps before the last unmount the candidate test; its effect clears the
\* receipt when it is mounted again, before anything reads it.
Show ==
    /\ ~mounted
    /\ mounted' = TRUE
    /\ UNCHANGED <<server, entries, review, saving, validating, testing, hasConflict, busy, keys, acts, calls>>

Leave ==
    /\ mounted
    /\ mounted' = FALSE /\ busy' = FALSE /\ pending' = None /\ candidate' = None
    /\ calls' = Outdated(calls, "gone")
    /\ UNCHANGED <<server, entries, validation, saving, validating, testing, hasConflict, keys, acts>>

HandleSaveDraft ==
    /\ Act /\ ~saving /\ ~loading
    /\ saving' = TRUE
    /\ calls' = calls \cup {Call("draft", Input, None)}
    /\ UNCHANGED <<server, entries, review, validating, testing, hasConflict, mounted, busy, keys>>

HandleValidate ==
    /\ Act /\ mounted /\ ~validating
    /\ validating' = TRUE
    /\ calls' = calls \cup {Call("validate", Input, None)}
    /\ UNCHANGED <<server, entries, review, saving, testing, hasConflict, mounted, busy, keys>>

\* run of ProjectCandidateTest: files are uploaded before the attempt has a key.
Testable == mounted /\ ~busy /\ ~saving /\ ~validating /\ ValidationCurrent /\ payload # None

RunTest(files) ==
    LET c == Call("test", Input, keys + 1) IN
    /\ Act /\ Testable /\ keys < MaxTests
    /\ keys' = keys + 1
    /\ busy' = TRUE /\ testing' = TRUE
    /\ IF files THEN calls' = calls \cup {[c EXCEPT !.at = "upload"]} /\ UNCHANGED pending
       ELSE calls' = calls \cup {c} /\ pending' = [key |-> c.key, input |-> c.input]
    /\ UNCHANGED <<server, entries, validation, candidate, saving, validating, hasConflict, mounted>>

RetryTest ==
    /\ Act /\ Testable /\ pending # None
    /\ busy' = TRUE /\ testing' = TRUE
    /\ calls' = calls \cup {Call("test", pending.input, pending.key)}
    /\ UNCHANGED <<server, entries, review, keys, saving, validating, hasConflict, mounted>>

\* Other inputs of the investigation: the fields are locked while it runs.
ChangeInputs ==
    /\ Act /\ mounted /\ ~busy /\ (pending # None \/ candidate # None)
    /\ pending' = None /\ candidate' = None
    /\ UNCHANGED <<server, entries, validation, keys, flags, calls>>

HandleSave ==
    /\ Act /\ mounted /\ ~saving /\ ValidationCurrent /\ CandidatePassed /\ ~testing
    /\ saving' = TRUE
    /\ calls' = calls \cup {Call("apply", Input, candidate.key)}
    /\ UNCHANGED <<server, entries, review, keys, validating, testing, hasConflict, mounted, busy>>

-----------------------------------------------------------------------------
(* Answers.                                                                *)

\* refresh replaces the entries by the draft, or by the environments of the
\* project when there is none.
RefreshAnswer(c) ==
    LET saved == IF c.draft = 0 THEN None ELSE drafts[c.draft]
        loaded == IF c.draft = 0 THEN [env |-> c.read.env, name |-> Blank.name] ELSE saved
    IN  /\ c.kind = "refresh" /\ c.at # "lost" /\ c.read # None /\ c.draft # None
        /\ payload' = c.read /\ editorVersion' = c.draft
        /\ Commit(loaded, saved, FALSE, TRUE)
        /\ hasConflict' = FALSE
        /\ Render(Rest(c), pending, candidate)
        /\ UNCHANGED <<server, validation, keys, saving, validating, testing, mounted, busy, acts>>

RefreshFails(c) ==
    /\ c.kind = "refresh" /\ c.at = "lost"
    /\ Commit(form, savedDraft, FALSE, needsBaseline)
    /\ calls' = Rest(c)
    /\ UNCHANGED <<server, payload, editorVersion, review, keys, flags, acts>>

\* The draft was saved; a validation goes on with the new version.
DraftSaved(c) ==
    /\ c.at = "saved"
    /\ editorVersion' = c.input.version + 1 /\ UNCHANGED payload
    /\ Commit(form, c.input.form, loading, needsBaseline)
    /\ IF c.kind = "draft"
       THEN saving' = FALSE /\ Render(Rest(c), pending, candidate)
       ELSE UNCHANGED saving /\ Render(Moved(c, "check"), pending, candidate)
    /\ UNCHANGED <<server, validation, keys, validating, testing, hasConflict, mounted, busy, acts>>

Validated(c) ==
    /\ c.at \in {"valid", "invalid"}
    /\ validation' = IF c.at = "valid" THEN [yaml |-> c.input.yaml, form |-> c.input.form] ELSE None
    /\ validating' = FALSE
    /\ calls' = Rest(c)
    /\ UNCHANGED <<server, entries, candidate, pending, keys, saving, testing, hasConflict, mounted, busy, acts>>

Applied(c) ==
    /\ c.kind = "apply" /\ c.at = "applied" /\ c.read # None
    /\ payload' = c.read
    /\ saving' = FALSE
    /\ UNCHANGED <<form, editorVersion, savedDraft, needsBaseline, loading>>
    /\ Render(Rest(c), pending, candidate)
    /\ UNCHANGED <<server, validation, keys, validating, testing, hasConflict, mounted, busy, acts>>

\* The entries stay; a conflict offers to compare and to reload.
NotSaved(c) ==
    /\ c.kind \in {"draft", "validate", "apply"} /\ c.at \in {"conflict", "lost"}
    /\ hasConflict' = (hasConflict \/ c.at = "conflict")
    /\ saving' = (saving /\ c.kind = "validate")
    /\ validating' = (validating /\ c.kind # "validate")
    /\ calls' = Rest(c)
    /\ UNCHANGED <<server, entries, review, keys, testing, mounted, busy, acts>>

\* The finally of run.
EndRun(c) ==
    /\ busy' = (busy /\ c.owner = "gone") /\ testing' = FALSE
    /\ UNCHANGED <<server, entries, validation, keys, saving, validating, hasConflict, mounted, acts>>

Uploaded(c) ==
    /\ c.at = "upload" /\ c.owner = "mounted"
    /\ calls' = Moved(c, "sent")
    /\ pending' = [key |-> c.key, input |-> c.input]
    /\ UNCHANGED <<server, entries, validation, candidate, keys, flags, acts>>

\* The upload failed, or its inputs are gone; an earlier attempt keeps its key
\* unless the upload was refused.
UploadUseless(c) ==
    /\ c.at = "upload"
    /\ calls' = Rest(c)
    /\ EndRun(c)
    /\ pending' = pending \/ (c.owner = "mounted" /\ pending' = None)
    /\ UNCHANGED candidate

\* A mutated form: the answer is recorded for the entries of its arrival.
TestAnswerOfNow(c) ==
    /\ c.kind = "test" /\ c.at \in {"passed", "failed", "conflict", "lost"}
    /\ calls' = Rest(c)
    /\ pending' = IF c.at = "lost" THEN pending ELSE None
    /\ candidate' = IF c.at = "passed" THEN [key |-> c.key, snapshot |-> CandidateSnapshot]
                    ELSE candidate
    /\ EndRun(c)

\* An answer is used if neither the inputs nor the page changed; an attempt whose
\* answer was lost keeps its key.
TestAnswer(c) ==
    /\ c.kind = "test" /\ c.at \in {"passed", "failed", "conflict", "lost"}
    /\ calls' = Rest(c)
    /\ IF c.owner # "mounted" THEN UNCHANGED <<candidate, pending>>
       ELSE /\ pending' = IF c.at = "lost" THEN pending ELSE None
            /\ candidate' = CASE c.at = "passed" -> [key |-> c.key, snapshot |-> c.snapshot]
                              [] c.at = "failed" -> None
                              [] OTHER -> candidate
    /\ EndRun(c)

-----------------------------------------------------------------------------
Init ==
    /\ \E s \in Starts : drafts = s.drafts /\ project = s.project
    /\ published = Blank.name
    /\ deps = 0 /\ tests = <<>> /\ locked = FALSE /\ changes = 0
    /\ form = Blank
    /\ payload = None /\ editorVersion = 0 /\ savedDraft = None
    /\ needsBaseline = TRUE /\ loading = TRUE
    /\ validation = None /\ candidate = None /\ pending = None /\ keys = 0
    /\ saving = FALSE /\ validating = FALSE /\ testing = FALSE /\ hasConflict = FALSE
    /\ mounted = FALSE /\ busy = FALSE
    /\ acts = 0
    /\ calls = {Call("refresh", None, 1)}

Others ==
    \/ \E f \in Forms : OtherDraft(f)
    \/ \E env \in Envs : OtherApply(env)
    \/ \E rest \in Rests : SetAvailability(rest)
    \/ ChangeDependency

Server(c) ==
    \/ SaveDraft(c) \/ Validate(c)
    \/ CheckTest(c) \/ StartTest(c) \/ AnswerTest(c)
    \/ CheckApply(c) \/ Apply(c)
    \/ ReadProject(c) \/ ReadDraft(c)
    \/ Lose(c)

User ==
    \/ Refresh
    \/ \E f \in Forms : Edit(f)
    \/ Show
    \/ Leave
    \/ HandleSaveDraft
    \/ HandleValidate
    \/ \E files \in BOOLEAN : RunTest(files)
    \/ RetryTest
    \/ ChangeInputs
    \/ HandleSave

Handle(c) ==
    \/ RefreshAnswer(c) \/ RefreshFails(c)
    \/ DraftSaved(c) \/ Validated(c) \/ Applied(c) \/ NotSaved(c)
    \/ Uploaded(c) \/ UploadUseless(c) \/ TestAnswer(c)

Next ==
    \/ User
    \/ Others
    \/ \E k \in DOMAIN tests : EndTest(k)
    \/ \E c \in calls : Server(c) \/ Handle(c)

Spec == Init /\ [][Next]_vars

-----------------------------------------------------------------------------
(* Properties.                                                             *)

\* The values each variable takes.
TypeOK ==
    /\ drafts \in Seq(Forms) /\ project \in Settings /\ published \in {f.name : f \in Forms}
    /\ DOMAIN tests \subseteq 1 .. keys /\ locked \in BOOLEAN
    /\ deps \in Nat /\ keys \in Nat /\ changes \in Nat /\ acts \in Nat
    /\ form \in Forms /\ payload \in Settings \cup {None} /\ editorVersion \in 0 .. version
    /\ savedDraft \in Forms \cup {None} /\ needsBaseline \in BOOLEAN /\ loading \in BOOLEAN
    /\ validation \in Validations \cup {None}
    /\ saving \in BOOLEAN /\ validating \in BOOLEAN /\ testing \in BOOLEAN
    /\ hasConflict \in BOOLEAN /\ mounted \in BOOLEAN /\ busy \in BOOLEAN

\* While the page offers to apply, the receipt in its hand is of a test that passed
\* with exactly the entries, the draft and the settings on display: entries that
\* were edited, reloaded or saved while the test ran never take its receipt.
ReceiptOfShown ==
    CandidatePassed =>
        LET t == tests[candidate.key] IN
        t.status = "passed" /\ t.yaml = Yaml /\ t.version = editorVersion

\* Settings become active only if a test passed with them, with the draft that is
\* saved at that moment, and against the settings they replace - whatever other
\* administrators saved, applied or made unavailable between the checks and the
\* publication (require_receipt and the lock of _apply_project_setup).
AppliedWasTested ==
    [][locked /\ ~locked' =>
         \E k \in DOMAIN tests :
            /\ tests[k].status = "passed"
            /\ tests[k].yaml = project' /\ tests[k].version = version
            /\ tests[k].project = project]_vars

\* The page changes only its own section: a section another administrator changed
\* after the page was loaded is never set back by an apply.
OthersSettingsKept == [][project'.rest # project.rest => changes' # changes]_vars

\* "Navigation warns about unsaved entries": entries that are not those of the
\* version the page works on count as unsaved.
UnsavedIsDirty ==
    ~loading /\ editorVersion > 0 /\ form # drafts[editorVersion] => Dirty
=============================================================================
