------------------------- MODULE ProjectSetupProofs -------------------------
(***************************************************************************)
(* Theorems about ProjectSetup for any entries, sections and drafts: only  *)
(* tested settings become active, no foreign section is set back, and the  *)
(* receipt in hand is of what the page shows.                              *)
(***************************************************************************)
EXTENDS ProjectSetup, TLAPS

Snapshots == [yaml : Yamls, form : Forms, version : Nat, revision : Settings \cup {None}]

Tests == [yaml : Yamls, version : Nat, project : Settings, deps : Nat,
          status : {"running", "passed", "failed"}]

Calls ==
    [kind : {"refresh", "draft", "validate", "test", "apply"},
     at : {"sent", "upload", "saved", "check", "valid", "invalid", "checked", "running",
           "passed", "failed", "applied", "conflict", "lost"},
     input : Snapshots \cup {None}, key : Nat \cup {None}, snapshot : Snapshots \cup {None},
     owner : {"mounted", "outdated", "gone", None},
     read : Settings \cup {None}, draft : Nat \cup {None}]

\* The page took every section it does not edit from the settings it was loaded with.
Faithful(i) == i \in Snapshots /\ (i.revision # None => i.yaml.rest = i.revision.rest)

\* What a call of each kind carries, and where it can be.
Shape(c) ==
    /\ c \in Calls
    /\ c.kind # "refresh" => Faithful(c.input)
    /\ c.at \in {"saved", "check", "valid", "invalid"} => c.kind \in {"draft", "validate"}
    /\ c.at = "upload" => c.kind = "test"

\* A call and the number of drafts n.
Known(c, n) ==
    /\ c.draft # None => c.draft \in 0 .. n
    /\ c.at \in {"saved", "check", "valid", "invalid"} => c.input.version + 1 <= n
    /\ c.kind \in {"test", "apply"} => n >= 1

Matches(t, i) == t.yaml = i.yaml /\ t.version = i.version

\* A call and the tests ts, of which ks keys were given out.
OfTest(c, ts, ks) ==
    /\ c.kind = "test" =>
         /\ c.key \in 1 .. ks
         /\ c.key \in DOMAIN ts => Matches(ts[c.key], c.input)
         /\ c.at \in {"running", "passed", "failed"} => c.key \in DOMAIN ts
         /\ c.at = "passed" => ts[c.key].status = "passed"
    /\ c.kind = "apply" => c.key \in DOMAIN ts

\* A test and the page: m is mounted, s what the page shows.
OfPage(c, m, s) ==
    c.kind = "test" =>
        /\ c.owner # "gone" => m = TRUE
        /\ c.owner = "mounted" => c.input = s /\ c.snapshot = s

\* An apply that holds the lock: what it checked is still so.
Holds(c) == c.kind = "apply" /\ c.at = "checked"
Held(c, ts, l, p, n) ==
    Holds(c) =>
        /\ l = TRUE
        /\ c.input.revision = p /\ c.input.version = n
        /\ ts[c.key].status = "passed" /\ Matches(ts[c.key], c.input) /\ ts[c.key].project = p

Fits(c, ts, ks, m, s, l, p, n) ==
    Shape(c) /\ Known(c, n) /\ OfTest(c, ts, ks) /\ OfPage(c, m, s) /\ Held(c, ts, l, p, n)

Good(cs, ts, ks, m, s, l, p, n) == \A c \in cs : Fits(c, ts, ks, m, s, l, p, n)

\* Attempts with one key have one input, so has the attempt kept for a retry.
SameKeys(cs, q) ==
    /\ \A c, d \in cs : c.kind = "test" /\ d.kind = "test" /\ c.key = d.key => c.input = d.input
    /\ \A c \in cs : q # None /\ c.kind = "test" /\ c.key = q.key => c.input = q.input

OneHolder(cs) == \A c, d \in cs : Holds(c) /\ Holds(d) => c = d

PendingOK(q, ts, ks, m, s) ==
    q # None =>
        /\ m = TRUE /\ q.key \in 1 .. ks /\ q.input = s
        /\ q.key \in DOMAIN ts => Matches(ts[q.key], q.input)

CandidateOK(k, ts) ==
    k # None => k.key \in DOMAIN ts /\ ts[k.key].status = "passed" /\ Matches(ts[k.key], k.snapshot)

CallsOK ==
    /\ Good(calls, tests, keys, mounted, CandidateSnapshot, locked, project, version)
    /\ SameKeys(calls, pending)
    /\ OneHolder(calls)

ReviewOK ==
    /\ PendingOK(pending, tests, keys, mounted, CandidateSnapshot)
    /\ CandidateOK(candidate, tests)
    /\ validation # None => version >= 1

TestsOK == tests \in [DOMAIN tests -> Tests]

IInv == TypeOK /\ TestsOK /\ CallsOK /\ ReviewOK
-----------------------------------------------------------------------------
(* What the operators of the module make of a call.                        *)

LEMMA ShownSnapshot ==
    ASSUME TypeOK
    PROVE  Faithful(CandidateSnapshot) /\ version \in Nat
<1>1. version \in Nat
    BY DEF TypeOK, version
<1>2. form.env \in Envs
    BY DEF TypeOK, Envs
<1>3. payload # None => payload.rest \in Rests
    BY DEF TypeOK, Settings
<1>4. Yaml \in Yamls
    BY <1>2, <1>3 DEF Yaml, Yamls
<1>5. editorVersion \in Nat
    BY <1>1 DEF TypeOK
<1> QED
    BY <1>1, <1>4, <1>5 DEF TypeOK, Faithful, CandidateSnapshot, Snapshots, Yaml

\* A call that moves on.
LEMMA MovedCall ==
    ASSUME NEW c, Shape(c),
           NEW at \in {"sent", "upload", "saved", "check", "valid", "invalid", "checked",
                       "running", "passed", "failed", "applied", "conflict", "lost"}
    PROVE  LET d == [c EXCEPT !.at = at]
           IN  /\ d \in Calls /\ d.at = at /\ d.kind = c.kind /\ d.input = c.input
               /\ d.key = c.key /\ d.snapshot = c.snapshot /\ d.owner = c.owner
               /\ d.read = c.read /\ d.draft = c.draft
BY DEF Shape, Calls

\* A new call.
LEMMA NewCall ==
    ASSUME NEW kind \in {"refresh", "draft", "validate", "test", "apply"},
           NEW input, kind # "refresh" => Faithful(input), kind = "refresh" => input = None,
           NEW key \in Nat \cup {None}, TypeOK
    PROVE  LET d == Call(kind, input, key)
           IN  /\ Shape(d) /\ d.kind = kind /\ d.at = "sent" /\ d.input = input /\ d.key = key
               /\ d.draft = None
               /\ kind = "test" => d.owner = "mounted" /\ d.snapshot = CandidateSnapshot
<1> DEFINE d == Call(kind, input, key)
<1>1. /\ d.kind = kind /\ d.at = "sent" /\ d.input = input /\ d.key = key /\ d.draft = None
      /\ kind = "test" => d.owner = "mounted" /\ d.snapshot = CandidateSnapshot
    BY DEF Call
<1>2. CandidateSnapshot \in Snapshots
    BY ShownSnapshot DEF Faithful
<1>3. input \in Snapshots \cup {None}
    BY DEF Faithful
<1>4. d \in Calls
    BY <1>2, <1>3 DEF Call, Calls
<1> QED
    BY <1>1, <1>4 DEF Shape

\* Two sets of calls that differ in one.
LEMMA Replaced ==
    ASSUME NEW cs, NEW c \in cs, NEW d, NEW q, SameKeys(cs, q),
           d.kind = c.kind, d.key = c.key, d.input = c.input
    PROVE  SameKeys((cs \ {c}) \cup {d}, q)
BY DEF SameKeys

LEMMA HolderReplaced ==
    ASSUME NEW cs, NEW c, NEW d, OneHolder(cs), Holds(d) => \A e \in cs : ~Holds(e)
    PROVE  OneHolder((cs \ {c}) \cup {d})
BY DEF OneHolder

LEMMA Fewer ==
    ASSUME NEW cs, NEW rest, rest \subseteq cs, NEW q, SameKeys(cs, q), OneHolder(cs)
    PROVE  SameKeys(rest, q) /\ SameKeys(rest, None) /\ OneHolder(rest)
BY DEF SameKeys, OneHolder

\* The initial state.
LEMMA InitIInv == Init => IInv
<1> SUFFICES ASSUME Init PROVE IInv
    OBVIOUS
<1>1. PICK s \in Starts : drafts = s.drafts /\ project = s.project
    BY DEF Init
<1>2. drafts \in Seq(Forms) /\ project \in Settings /\ version \in Nat
    BY <1>1, StartAssumption DEF version
<1>3. /\ locked \in BOOLEAN /\ needsBaseline \in BOOLEAN /\ loading \in BOOLEAN
      /\ saving \in BOOLEAN /\ validating \in BOOLEAN /\ testing \in BOOLEAN
      /\ hasConflict \in BOOLEAN /\ mounted \in BOOLEAN /\ busy \in BOOLEAN
    BY DEF Init
<1>4. /\ deps \in Nat /\ keys \in Nat /\ changes \in Nat /\ acts \in Nat
      /\ form \in Forms /\ published \in {f.name : f \in Forms}
      /\ DOMAIN tests = {} /\ keys = 0
    BY FormsAssumption DEF Init
<1>5. editorVersion \in 0 .. version
    BY <1>2 DEF Init
<1>6. payload = None /\ savedDraft = None /\ validation = None /\ pending = None /\ candidate = None
    BY DEF Init
<1>7. TypeOK
    BY <1>2, <1>3, <1>4, <1>5, <1>6 DEF TypeOK
<1>8. TestsOK
    BY <1>4 DEF TestsOK, Init
<1> DEFINE d == Call("refresh", None, 1)
<1>9. Shape(d) /\ d.kind = "refresh" /\ d.at = "sent" /\ d.draft = None
    BY <1>7, NewCall
<1>10. calls = {d}
    BY DEF Init
<1>11. CallsOK
    <2>1. Known(d, version) /\ ~Holds(d)
        BY <1>9 DEF Known, Holds
    <2>2. OfTest(d, tests, keys) /\ OfPage(d, mounted, CandidateSnapshot)
          /\ Held(d, tests, locked, project, version)
        BY <1>9, <2>1 DEF OfTest, OfPage, Held
    <2>3. SameKeys(calls, pending) /\ OneHolder(calls)
        BY <1>9, <1>10, <2>1 DEF SameKeys, OneHolder
    <2> QED
        BY <1>9, <1>10, <2>1, <2>2, <2>3 DEF CallsOK, Good, Fits
<1>12. ReviewOK
    BY <1>6 DEF ReviewOK, PendingOK, CandidateOK
<1> QED
    BY <1>7, <1>8, <1>11, <1>12 DEF IInv
-----------------------------------------------------------------------------
(* The server.                                                             *)

\* What the page keeps while only the server and the calls change.
PageKept == UNCHANGED <<entries, review, flags, keys, acts>>

LEMMA PageStays ==
    ASSUME PageKept
    PROVE  /\ CandidateSnapshot' = CandidateSnapshot /\ pending' = pending
           /\ candidate' = candidate /\ mounted' = mounted /\ keys' = keys
           /\ validation' = validation
BY DEF PageKept, entries, review, flags, CandidateSnapshot, Yaml

\* The tests only grow and no passed test is taken back, drafts are only added.
Grows ==
    /\ DOMAIN tests \subseteq DOMAIN tests'
    /\ \A k \in DOMAIN tests :
         /\ tests'[k].yaml = tests[k].yaml /\ tests'[k].version = tests[k].version
         /\ tests'[k].project = tests[k].project
         /\ tests[k].status = "passed" => tests'[k].status = "passed"
    /\ \A k \in DOMAIN tests' \ DOMAIN tests :
         /\ \A c \in calls : c.kind = "test" /\ c.key = k => Matches(tests'[k], c.input)
         /\ pending # None /\ pending.key = k => Matches(tests'[k], pending.input)
    /\ version' \in Nat /\ version <= version'

\* The part of Fits that the server's state decides, after a step.
Served(c) ==
    /\ Known(c, version') /\ OfTest(c, tests', keys)
    /\ Held(c, tests', locked', project', version')

LEMMA GrownTest ==
    ASSUME IInv, Grows, NEW c \in calls
    PROVE  Known(c, version') /\ OfTest(c, tests', keys)
<1>1. Shape(c) /\ Known(c, version) /\ OfTest(c, tests, keys) /\ version \in Nat
    BY ShownSnapshot DEF IInv, CallsOK, Good, Fits
<1>2. Known(c, version')
    <2>1. c.draft # None => c.draft \in 0 .. version'
        BY <1>1 DEF Known, Grows
    <2>2. c.at \in {"saved", "check", "valid", "invalid"} => c.input.version + 1 <= version'
        <3>1. c.at \in {"saved", "check", "valid", "invalid"} => c.input.version \in Nat
            BY <1>1 DEF Shape, Faithful, Snapshots
        <3> QED
            BY <1>1, <3>1 DEF Known, Grows
    <2>3. c.kind \in {"test", "apply"} => version' >= 1
        BY <1>1 DEF Known, Grows
    <2> QED
        BY <2>1, <2>2, <2>3 DEF Known
<1>3. OfTest(c, tests', keys)
    <2>1. CASE c.kind = "test"
        <3>1. c.key \in DOMAIN tests => Matches(tests'[c.key], c.input)
            BY <1>1, <2>1 DEF OfTest, Grows, Matches
        <3>2. c.key \in DOMAIN tests' => Matches(tests'[c.key], c.input)
            BY <2>1, <3>1 DEF Grows
        <3> QED
            BY <1>1, <2>1, <3>2 DEF OfTest, Grows
    <2>2. CASE c.kind # "test"
        BY <1>1, <2>2 DEF OfTest, Grows
    <2> QED
        BY <2>1, <2>2
<1> QED
    BY <1>2, <1>3

LEMMA GrownFits ==
    ASSUME IInv, Grows, NEW c \in calls,
           ~Holds(c) \/ (UNCHANGED <<project, version>> /\ locked' = TRUE)
    PROVE  Served(c)
<1>1. OfTest(c, tests, keys) /\ Held(c, tests, locked, project, version)
    BY DEF IInv, CallsOK, Good, Fits
<1>2. Held(c, tests', locked', project', version')
    <2>1. CASE ~Holds(c)
        BY <2>1 DEF Held
    <2>2. CASE Holds(c)
        <3>1. c.key \in DOMAIN tests
            BY <1>1, <2>2 DEF OfTest, Holds
        <3> QED
            BY <1>1, <2>2, <3>1 DEF Held, Grows, Matches
    <2> QED
        BY <2>1, <2>2
<1> QED
    BY <1>2, GrownTest DEF Served

LEMMA GrownReview ==
    ASSUME IInv, Grows, PageKept
    PROVE  ReviewOK'
<1>1. ReviewOK /\ TypeOK /\ version \in Nat
    BY ShownSnapshot DEF IInv
<1>2. /\ CandidateSnapshot' = CandidateSnapshot /\ pending' = pending
      /\ candidate' = candidate /\ mounted' = mounted /\ keys' = keys
      /\ validation' = validation
    BY PageStays
<1>3. PendingOK(pending, tests', keys, mounted, CandidateSnapshot)
    <2>1. CASE pending = None
        BY <2>1 DEF PendingOK
    <2>2. CASE pending # None
        <3>1. /\ mounted = TRUE /\ pending.key \in 1 .. keys /\ pending.input = CandidateSnapshot
              /\ pending.key \in DOMAIN tests => Matches(tests[pending.key], pending.input)
            BY <1>1, <2>2 DEF ReviewOK, PendingOK
        <3>2. pending.key \in DOMAIN tests => Matches(tests'[pending.key], pending.input)
            BY <3>1 DEF Grows, Matches
        <3>3. pending.key \in DOMAIN tests' => Matches(tests'[pending.key], pending.input)
            BY <2>2, <3>2 DEF Grows
        <3> QED
            BY <3>1, <3>3 DEF PendingOK
    <2> QED
        BY <2>1, <2>2
<1>4. CandidateOK(candidate, tests')
    BY <1>1 DEF ReviewOK, CandidateOK, Grows, Matches
<1>5. validation # None => version' >= 1
    BY <1>1 DEF ReviewOK, Grows
<1> QED
    BY <1>2, <1>3, <1>4, <1>5 DEF ReviewOK

\* A server step that leaves the calls as they are.
LEMMA ServerOnly ==
    ASSUME IInv, Grows, PageKept, UNCHANGED calls, TypeOK', TestsOK',
           locked = FALSE \/ UNCHANGED <<project, version, locked>>
    PROVE  IInv'
<1>1. /\ CandidateSnapshot' = CandidateSnapshot /\ pending' = pending
      /\ mounted' = mounted /\ keys' = keys /\ calls' = calls
    BY PageStays
<1>2. CallsOK
    BY DEF IInv
<1>3. ASSUME NEW c \in calls
      PROVE  Fits(c, tests', keys, mounted, CandidateSnapshot, locked', project', version')
    <2>1. Fits(c, tests, keys, mounted, CandidateSnapshot, locked, project, version)
        BY <1>2 DEF CallsOK, Good
    <2>2. ~Holds(c) \/ (UNCHANGED <<project, version>> /\ locked' = TRUE)
        BY <2>1 DEF Fits, Held
    <2>3. Served(c)
        BY <2>2, GrownFits
    <2> QED
        BY <2>1, <2>3 DEF Fits, Served
<1>4. CallsOK'
    BY <1>1, <1>2, <1>3 DEF CallsOK, Good
<1> QED
    BY <1>4, GrownReview DEF IInv

\* A server step that moves one call.
LEMMA ServedCall ==
    ASSUME IInv, Grows, PageKept, TypeOK', TestsOK',
           NEW c \in calls, NEW d, Shape(d), Served(d), d.kind = c.kind, d.key = c.key,
           d.input = c.input, d.owner = c.owner, d.snapshot = c.snapshot,
           calls' = Rest(c) \cup {d},
           \A e \in Rest(c) : Holds(e) =>
             UNCHANGED <<project, version>> /\ locked' = TRUE /\ ~Holds(d)
    PROVE  IInv'
<1>1. /\ CandidateSnapshot' = CandidateSnapshot /\ pending' = pending
      /\ mounted' = mounted /\ keys' = keys
    BY PageStays
<1>2. CallsOK
    BY DEF IInv
<1>3. ASSUME NEW e \in Rest(c)
      PROVE  Fits(e, tests', keys, mounted, CandidateSnapshot, locked', project', version')
    <2>1. e \in calls /\ Fits(e, tests, keys, mounted, CandidateSnapshot, locked, project, version)
        BY <1>2, <1>3 DEF CallsOK, Good, Rest
    <2>2. ~Holds(e) \/ (UNCHANGED <<project, version>> /\ locked' = TRUE)
        BY <1>3
    <2>3. Served(e)
        BY <2>1, <2>2, GrownFits
    <2> QED
        BY <2>1, <2>3 DEF Fits, Served
<1>4. Fits(d, tests', keys, mounted, CandidateSnapshot, locked', project', version')
    <2>1. OfPage(c, mounted, CandidateSnapshot)
        BY <1>2 DEF CallsOK, Good, Fits
    <2>2. OfPage(d, mounted, CandidateSnapshot)
        BY <2>1 DEF OfPage
    <2> QED
        BY <2>2 DEF Fits, Served
<1>5. Good(calls', tests', keys', mounted', CandidateSnapshot', locked', project', version')
    BY <1>1, <1>3, <1>4 DEF Good
<1>6. SameKeys(calls', pending')
    BY <1>1, <1>2, Replaced DEF CallsOK, Rest
<1>7. OneHolder(calls')
    BY <1>2 DEF CallsOK, Rest, OneHolder
<1>8. CallsOK'
    BY <1>5, <1>6, <1>7 DEF CallsOK
<1> QED
    BY <1>8, GrownReview DEF IInv

\* The types of what a server step changes.
LEMMA ServerTypes ==
    ASSUME IInv, PageKept, drafts' \in Seq(Forms), project' \in Settings,
           published' \in {f.name : f \in Forms}, DOMAIN tests' \subseteq 1 .. keys,
           locked' \in BOOLEAN, deps' \in Nat, changes' \in Nat, version <= version'
    PROVE  TypeOK'
<1>1. TypeOK /\ version \in Nat /\ version' \in Nat
    BY ShownSnapshot DEF IInv, version
<1>2. editorVersion' \in 0 .. version'
    BY <1>1 DEF PageKept, entries, TypeOK
<1>3. /\ keys' \in Nat /\ acts' \in Nat /\ DOMAIN tests' \subseteq 1 .. keys'
      /\ form' \in Forms /\ payload' \in Settings \cup {None}
      /\ savedDraft' \in Forms \cup {None} /\ validation' \in Validations \cup {None}
    BY <1>1 DEF PageKept, entries, review, TypeOK
<1>4. /\ needsBaseline' \in BOOLEAN /\ loading' \in BOOLEAN
      /\ saving' \in BOOLEAN /\ validating' \in BOOLEAN /\ testing' \in BOOLEAN
      /\ hasConflict' \in BOOLEAN /\ mounted' \in BOOLEAN /\ busy' \in BOOLEAN
    BY <1>1 DEF PageKept, entries, flags, TypeOK
<1> QED
    BY <1>2, <1>3, <1>4 DEF TypeOK

\* An answer of the server, or its loss.
LEMMA ServeCall ==
    ASSUME IInv, Grows, TypeOK', TestsOK', NEW c \in calls,
           NEW at \in {"sent", "upload", "saved", "check", "valid", "invalid", "checked",
                       "running", "passed", "failed", "applied", "conflict", "lost"},
           Serve(c, at),
           at \in {"saved", "check", "valid", "invalid"} =>
             c.kind \in {"draft", "validate"} /\ c.input.version + 1 <= version',
           at # "upload",
           at \in {"running", "passed", "failed"} => c.kind = "test" /\ c.key \in DOMAIN tests',
           at = "passed" => tests'[c.key].status = "passed",
           c.kind = "apply" /\ at = "checked" =>
             /\ locked' = TRUE
             /\ c.input.revision = project' /\ c.input.version = version'
             /\ tests'[c.key].status = "passed" /\ Matches(tests'[c.key], c.input)
             /\ tests'[c.key].project = project',
           \A e \in Rest(c) : Holds(e) =>
             /\ UNCHANGED <<project, version>> /\ locked' = TRUE
             /\ ~(c.kind = "apply" /\ at = "checked")
    PROVE  IInv'
<1>1. Shape(c) /\ Known(c, version') /\ OfTest(c, tests', keys)
    BY GrownTest DEF IInv, CallsOK, Good, Fits
<1>2. PICK x \in {at, "lost"} : calls' = Rest(c) \cup {[c EXCEPT !.at = x]}
    BY DEF Serve, Moved
<1> DEFINE d == [c EXCEPT !.at = x]
<1>3. x \in {"sent", "upload", "saved", "check", "valid", "invalid", "checked",
            "running", "passed", "failed", "applied", "conflict", "lost"}
    BY <1>2
<1>4. /\ d \in Calls /\ d.at = x /\ d.kind = c.kind /\ d.input = c.input /\ d.key = c.key
      /\ d.snapshot = c.snapshot /\ d.owner = c.owner /\ d.read = c.read /\ d.draft = c.draft
    <2>1. c \in Calls
        BY <1>1 DEF Shape
    <2> QED
        BY <1>3, <2>1 DEF Calls
<1>5. Shape(d)
    BY <1>1, <1>2, <1>4 DEF Shape
<1>6. Served(d)
    <2>1. Known(d, version')
        BY <1>1, <1>2, <1>4 DEF Known
    <2>2. OfTest(d, tests', keys)
        BY <1>1, <1>2, <1>4 DEF OfTest
    <2>3. Held(d, tests', locked', project', version')
        BY <1>2, <1>4 DEF Held, Holds
    <2> QED
        BY <2>1, <2>2, <2>3 DEF Served
<1>7. \A e \in Rest(c) : Holds(e) =>
        UNCHANGED <<project, version>> /\ locked' = TRUE /\ ~Holds(d)
    BY <1>2, <1>4 DEF Holds
<1> QED
    BY <1>2, <1>4, <1>5, <1>6, <1>7, ServedCall DEF Serve, PageKept

\* Steps that add no test and no draft.
LEMMA NothingGrows ==
    ASSUME IInv, UNCHANGED <<tests, drafts>>
    PROVE  Grows /\ TestsOK' /\ version' = version
<1>1. version \in Nat /\ version' = version
    BY ShownSnapshot DEF IInv, version
<1>2. TestsOK'
    BY DEF IInv, TestsOK
<1> QED
    BY <1>1, <1>2 DEF Grows

LEMMA NewDraft ==
    ASSUME IInv, NEW f \in Forms, drafts' = Append(drafts, f), UNCHANGED tests
    PROVE  Grows /\ TestsOK' /\ version' = version + 1 /\ drafts' \in Seq(Forms)
<1>1. version \in Nat /\ drafts \in Seq(Forms)
    BY ShownSnapshot DEF IInv, TypeOK
<1>2. version' = version + 1 /\ drafts' \in Seq(Forms)
    BY <1>1 DEF version
<1>3. TestsOK'
    BY DEF IInv, TestsOK
<1> QED
    BY <1>1, <1>2, <1>3 DEF Grows

\* Unless the lock is held, no apply is between its checks and its publication.
LEMMA Unlocked ==
    ASSUME IInv, locked # TRUE, NEW e \in calls
    PROVE  ~Holds(e)
BY DEF IInv, CallsOK, Good, Fits, Held

LEMMA SaveDraftStep ==
    ASSUME IInv, NEW c \in calls, SaveDraft(c)
    PROVE  IInv'
<1>1. /\ c.kind \in {"draft", "validate"} /\ ~locked
      /\ UNCHANGED <<project, published, deps, tests, locked, changes>>
    BY DEF SaveDraft
<1>2. Faithful(c.input) /\ TypeOK /\ version \in Nat /\ PageKept /\ locked # TRUE
    BY <1>1, ShownSnapshot DEF IInv, CallsOK, Good, Fits, Shape, SaveDraft, Serve, PageKept
<1>3. \A e \in Rest(c) : ~Holds(e)
    BY <1>2, Unlocked DEF Rest
<1>4. CASE c.input.version = version
    <2>1. Serve(c, "saved") /\ drafts' = Append(drafts, c.input.form)
        BY <1>4 DEF SaveDraft
    <2>2. c.input.form \in Forms
        BY <1>2 DEF Faithful, Snapshots
    <2>3. Grows /\ TestsOK' /\ version' = version + 1 /\ drafts' \in Seq(Forms)
        BY <1>1, <2>1, <2>2, NewDraft
    <2>4. TypeOK'
        BY <1>1, <1>2, <2>3, ServerTypes DEF TypeOK
    <2>5. c.input.version + 1 <= version'
        BY <1>2, <1>4, <2>3
    <2> QED
        BY <1>1, <1>3, <2>1, <2>3, <2>4, <2>5, ServeCall
<1>5. CASE c.input.version # version
    <2>1. Serve(c, "conflict") /\ drafts' = drafts
        BY <1>5 DEF SaveDraft
    <2>2. Grows /\ TestsOK' /\ version' = version
        BY <1>1, <2>1, NothingGrows
    <2>3. TypeOK'
        BY <1>1, <1>2, <2>1, <2>2, ServerTypes DEF TypeOK
    <2> QED
        BY <1>1, <1>3, <2>1, <2>2, <2>3, ServeCall
<1> QED
    BY <1>4, <1>5

\* The answers that change nothing on the server.
LEMMA AnswerStep ==
    ASSUME IInv, NEW c \in calls, UNCHANGED server,
           NEW at \in {"valid", "invalid", "conflict", "checked", "passed", "failed", "lost"},
           Serve(c, at),
           at \in {"valid", "invalid"} => c.kind = "validate" /\ c.input.version + 1 <= version,
           at = "checked" => c.kind = "test",
           at \in {"passed", "failed"} =>
             c.kind = "test" /\ c.key \in DOMAIN tests /\ tests[c.key].status = at
    PROVE  IInv'
<1>1. /\ UNCHANGED <<drafts, project, published, deps, tests, locked, changes>> /\ PageKept
    BY DEF server, Serve, PageKept
<1>2. Grows /\ TestsOK' /\ version' = version /\ version \in Nat
    BY <1>1, NothingGrows, ShownSnapshot DEF IInv
<1>3. TypeOK'
    BY <1>1, <1>2, ServerTypes DEF IInv, TypeOK
<1>4. \A e \in Rest(c) : Holds(e) => locked = TRUE
    BY Unlocked DEF Rest
<1>5. at \in {"sent", "upload", "saved", "check", "valid", "invalid", "checked",
             "running", "passed", "failed", "applied", "conflict", "lost"}
    OBVIOUS
<1> QED
    BY <1>1, <1>2, <1>3, <1>4, <1>5, ServeCall

LEMMA AnswersStep ==
    ASSUME IInv, NEW c \in calls,
           Validate(c) \/ CheckTest(c) \/ AnswerTest(c) \/ Lose(c)
    PROVE  IInv'
<1>1. Shape(c) /\ OfTest(c, tests, keys) /\ TestsOK
    BY DEF IInv, CallsOK, Good, Fits
<1>2. ASSUME Validate(c) PROVE IInv'
    <2>1. c.input.version \in Nat /\ version \in Nat
        BY <1>1, <1>2, ShownSnapshot DEF Validate, Shape, Faithful, Snapshots, IInv
    <2> QED
        BY <1>2, <2>1, AnswerStep DEF Validate
<1>3. ASSUME CheckTest(c) PROVE IInv'
    BY <1>3, AnswerStep DEF CheckTest
<1>4. ASSUME AnswerTest(c) PROVE IInv'
    <2>1. c.key \in DOMAIN tests
        BY <1>1, <1>4 DEF AnswerTest, OfTest
    <2>2. tests[c.key].status \in {"passed", "failed"}
        BY <1>1, <1>4, <2>1 DEF AnswerTest, TestsOK, Tests
    <2> QED
        BY <1>4, <2>1, <2>2, AnswerStep DEF AnswerTest
<1>5. ASSUME Lose(c) PROVE IInv'
    BY <1>5, AnswerStep DEF Lose
<1> QED
    BY <1>2, <1>3, <1>4, <1>5

LEMMA StartTestStep ==
    ASSUME IInv, NEW c \in calls, StartTest(c)
    PROVE  IInv'
<1> DEFINE new == [yaml |-> c.input.yaml, version |-> c.input.version,
                   project |-> project, deps |-> deps, status |-> "running"]
<1>1. /\ Shape(c) /\ OfTest(c, tests, keys) /\ TestsOK /\ TypeOK /\ version \in Nat
      /\ SameKeys(calls, pending)
    BY ShownSnapshot DEF IInv, CallsOK, Good, Fits
<1>2. /\ c.kind = "test" /\ Serve(c, "running") /\ PageKept
      /\ UNCHANGED <<drafts, project, published, deps, locked, changes>>
    BY DEF StartTest, Serve, PageKept
<1>3. version' = version
    BY <1>2 DEF version
<1>4. \A e \in Rest(c) : Holds(e) => locked = TRUE
    BY Unlocked DEF Rest
<1>5. CASE c.key \in DOMAIN tests
    <2>1. tests' = tests
        BY <1>5 DEF StartTest
    <2>2. Grows /\ TestsOK'
        BY <1>2, <2>1, NothingGrows
    <2>3. TypeOK'
        BY <1>1, <1>2, <1>3, <2>1, ServerTypes DEF TypeOK
    <2> QED
        BY <1>2, <1>3, <1>4, <1>5, <2>1, <2>2, <2>3, ServeCall
<1>6. CASE c.key \notin DOMAIN tests
    <2>1. tests' = [k \in DOMAIN tests \cup {c.key} |-> IF k # c.key THEN tests[k] ELSE new]
        BY <1>6 DEF StartTest
    <2>2. new \in Tests
        BY <1>1, <1>2 DEF Shape, Faithful, Snapshots, Tests, TypeOK
    <2>3. /\ DOMAIN tests' = DOMAIN tests \cup {c.key} /\ tests'[c.key] = new
          /\ \A k \in DOMAIN tests : tests'[k] = tests[k]
        BY <1>6, <2>1
    <2>4. TestsOK'
        BY <1>1, <2>1, <2>2 DEF TestsOK
    <2>5. Matches(new, c.input)
        BY DEF Matches
    <2>6. \A d \in calls : d.kind = "test" /\ d.key = c.key => d.input = c.input
        BY <1>1, <1>2 DEF SameKeys
    <2>7. pending # None /\ pending.key = c.key => pending.input = c.input
        BY <1>1, <1>2 DEF SameKeys
    <2>8. Grows
        BY <1>1, <1>3, <1>6, <2>3, <2>5, <2>6, <2>7 DEF Grows
    <2>9. c.key \in 1 .. keys
        BY <1>1, <1>2 DEF OfTest
    <2>10. TypeOK'
        BY <1>1, <1>2, <1>3, <2>3, <2>9, ServerTypes DEF TypeOK
    <2> QED
        BY <1>2, <1>3, <1>4, <2>3, <2>4, <2>8, <2>10, ServeCall
<1> QED
    BY <1>5, <1>6

LEMMA EndTestStep ==
    ASSUME IInv, NEW k \in DOMAIN tests, EndTest(k)
    PROVE  IInv'
<1>1. TestsOK /\ TypeOK /\ version \in Nat /\ tests[k] \in Tests
    BY ShownSnapshot DEF IInv, TestsOK
<1>2. PICK status \in {"passed", "failed"} : tests' = [tests EXCEPT ![k].status = status]
    BY DEF EndTest
<1>3. /\ tests[k].status = "running" /\ PageKept /\ UNCHANGED calls
      /\ UNCHANGED <<drafts, project, published, deps, locked, changes>>
    BY DEF EndTest, PageKept
<1>4. /\ DOMAIN tests' = DOMAIN tests
      /\ \A j \in DOMAIN tests : j # k => tests'[j] = tests[j]
      /\ tests'[k] = [tests[k] EXCEPT !.status = status]
    BY <1>1, <1>2 DEF TestsOK
<1>5. /\ tests'[k] \in Tests /\ tests'[k].yaml = tests[k].yaml
      /\ tests'[k].version = tests[k].version /\ tests'[k].project = tests[k].project
    BY <1>1, <1>4 DEF Tests
<1>6. TestsOK'
    BY <1>1, <1>2, <1>4, <1>5 DEF TestsOK
<1>7. version' = version
    BY <1>3 DEF version
<1>8. Grows
    <2>1. ASSUME NEW j \in DOMAIN tests
          PROVE  /\ tests'[j].yaml = tests[j].yaml /\ tests'[j].version = tests[j].version
                 /\ tests'[j].project = tests[j].project
                 /\ tests[j].status = "passed" => tests'[j].status = "passed"
        <3>1. CASE j = k
            BY <1>3, <1>5, <3>1
        <3>2. CASE j # k
            BY <1>4, <3>2
        <3> QED
            BY <3>1, <3>2
    <2> QED
        BY <1>1, <1>4, <1>7, <2>1 DEF Grows
<1>9. TypeOK'
    BY <1>1, <1>3, <1>4, <1>7, ServerTypes DEF TypeOK
<1> QED
    BY <1>3, <1>6, <1>7, <1>8, <1>9, ServerOnly

LEMMA CheckApplyStep ==
    ASSUME IInv, NEW c \in calls, CheckApply(c)
    PROVE  IInv'
<1>1. /\ Shape(c) /\ OfTest(c, tests, keys) /\ TypeOK /\ version \in Nat
    BY ShownSnapshot DEF IInv, CallsOK, Good, Fits
<1>2. /\ c.kind = "apply" /\ locked # TRUE /\ PageKept
      /\ UNCHANGED <<drafts, project, published, deps, tests, changes>>
    BY DEF CheckApply, Serve, PageKept
<1>3. Grows /\ TestsOK' /\ version' = version
    BY <1>2, NothingGrows
<1>4. \A e \in Rest(c) : ~Holds(e)
    BY <1>2, Unlocked DEF Rest
<1>5. CASE Candidate(c) /\ Receipt(c)
    <2>1. Serve(c, "checked") /\ locked' = TRUE
        BY <1>5 DEF CheckApply
    <2>2. TypeOK'
        BY <1>1, <1>2, <1>3, <2>1, ServerTypes DEF TypeOK
    <2>3. /\ c.input.revision = project /\ c.input.version = version
          /\ tests[c.key].status = "passed" /\ Matches(tests[c.key], c.input)
          /\ tests[c.key].project = project
        BY <1>5 DEF Candidate, Receipt, Matches
    <2> QED
        BY <1>2, <1>3, <1>4, <2>1, <2>2, <2>3, ServeCall
<1>6. CASE ~(Candidate(c) /\ Receipt(c))
    <2>1. Serve(c, "conflict") /\ locked' = locked
        BY <1>6 DEF CheckApply
    <2>2. TypeOK'
        BY <1>1, <1>2, <1>3, <2>1, ServerTypes DEF TypeOK
    <2> QED
        BY <1>3, <1>4, <2>1, <2>2, ServeCall
<1> QED
    BY <1>5, <1>6

LEMMA ApplyStep ==
    ASSUME IInv, NEW c \in calls, Apply(c)
    PROVE  IInv' /\ project' = c.input.yaml /\ project'.rest = project.rest
<1>1. /\ Shape(c) /\ OfTest(c, tests, keys) /\ Known(c, version) /\ TypeOK /\ version \in Nat
      /\ Held(c, tests, locked, project, version) /\ OneHolder(calls)
    BY ShownSnapshot DEF IInv, CallsOK, Good, Fits
<1>2. /\ c.kind = "apply" /\ Serve(c, "applied") /\ PageKept /\ Holds(c) /\ locked' = FALSE
      /\ project' = c.input.yaml /\ published' = drafts[c.input.version].name
      /\ UNCHANGED <<drafts, deps, tests, changes>>
    BY DEF Apply, Serve, PageKept, Holds
<1>3. Grows /\ TestsOK' /\ version' = version
    BY <1>2, NothingGrows
<1>4. \A e \in Rest(c) : ~Holds(e)
    BY <1>1, <1>2 DEF OneHolder, Rest
<1>5. c.input.revision = project /\ c.input.version = version /\ version >= 1
    BY <1>1, <1>2 DEF Held, Known
<1>6. /\ c.input.yaml \in Yamls /\ c.input.yaml.rest = project.rest
    BY <1>1, <1>2, <1>5, NoneAssumption DEF Shape, Faithful, Snapshots, TypeOK
<1>7. project' \in Settings
    BY <1>1, <1>2, <1>6 DEF Yamls, Settings, TypeOK
<1>8. published' \in {f.name : f \in Forms}
    <2>1. drafts[version] \in Forms
        BY <1>1, <1>5 DEF TypeOK, version
    <2> QED
        BY <1>2, <1>5, <2>1
<1>9. TypeOK'
    <2>1. /\ drafts' \in Seq(Forms) /\ DOMAIN tests' \subseteq 1 .. keys /\ deps' \in Nat
          /\ changes' \in Nat /\ version <= version'
        BY <1>1, <1>2, <1>3 DEF TypeOK
    <2>2. locked' \in BOOLEAN /\ PageKept
        BY <1>2
    <2> QED
        BY <1>7, <1>8, <2>1, <2>2, ServerTypes
<1>10. IInv'
    <2>1. Grows /\ TestsOK' /\ TypeOK' /\ Serve(c, "applied")
        BY <1>2, <1>3, <1>9
    <2>2. \A e \in Rest(c) : Holds(e) =>
            UNCHANGED <<project, version>> /\ locked' = TRUE /\ FALSE
        BY <1>4
    <2> QED
        BY <2>1, <2>2, ServeCall
<1> QED
    BY <1>2, <1>6, <1>10

\* Reads of a load, and of the answer of an apply.
LEMMA ReadStep ==
    ASSUME IInv, NEW c \in calls, ReadProject(c) \/ ReadDraft(c)
    PROVE  IInv'
<1>1. /\ Shape(c) /\ TypeOK /\ version \in Nat
      /\ Known(c, version) /\ OfTest(c, tests, keys) /\ Held(c, tests, locked, project, version)
    BY ShownSnapshot DEF IInv, CallsOK, Good, Fits
<1>2. PageKept /\ UNCHANGED <<drafts, project, published, deps, tests, locked, changes>>
    BY DEF ReadProject, ReadDraft, PageKept, server
<1>3. Grows /\ TestsOK' /\ version' = version
    BY <1>2, NothingGrows
<1>4. TypeOK'
    BY <1>1, <1>2, <1>3, ServerTypes DEF TypeOK
<1>5. PICK d : /\ calls' = Rest(c) \cup {d}
               /\ d = [c EXCEPT !.read = project] \/ (d = [c EXCEPT !.draft = version] /\ c.kind = "refresh")
    BY DEF ReadProject, ReadDraft
<1>6. /\ d \in Calls /\ d.at = c.at /\ d.kind = c.kind /\ d.input = c.input /\ d.key = c.key
      /\ d.snapshot = c.snapshot /\ d.owner = c.owner
      /\ d.draft = c.draft \/ d.draft = version
    BY <1>1, <1>5 DEF Shape, Calls, TypeOK
<1>7. Shape(d)
    BY <1>1, <1>6 DEF Shape
<1>8. Known(d, version)
    BY <1>1, <1>6 DEF Known
<1>9. OfTest(d, tests, keys) /\ Held(d, tests, locked, project, version) /\ (Holds(d) <=> Holds(c))
    BY <1>1, <1>6 DEF OfTest, Held, Holds
<1>10. Served(d)
    BY <1>2, <1>3, <1>8, <1>9 DEF Served
<1>11. \A e \in Rest(c) : Holds(e) =>
         UNCHANGED <<project, version>> /\ locked' = TRUE /\ ~Holds(d)
    <2>1. ASSUME NEW e \in Rest(c), Holds(e) PROVE locked = TRUE /\ ~Holds(c)
        BY <2>1, Unlocked DEF Rest, IInv, CallsOK, OneHolder
    <2> QED
        BY <1>2, <1>3, <1>9, <2>1
<1> QED
    BY <1>2, <1>3, <1>4, <1>5, <1>6, <1>7, <1>10, <1>11, ServedCall

LEMMA OthersStep ==
    ASSUME IInv, Others
    PROVE  IInv' /\ changes' # changes
<1>1. TypeOK /\ version \in Nat
    BY ShownSnapshot DEF IInv
<1>2. /\ changes' = changes + 1 /\ PageKept /\ UNCHANGED <<published, tests, locked, calls>>
    BY DEF Others, OtherDraft, OtherApply, SetAvailability, ChangeDependency, Change, PageKept
<1>3. changes' \in Nat /\ changes' # changes
    BY <1>1, <1>2 DEF TypeOK
<1>4. ASSUME NEW f \in Forms, OtherDraft(f) PROVE IInv'
    <2>1. drafts' = Append(drafts, f) /\ locked = FALSE /\ UNCHANGED <<project, deps>>
        BY <1>1, <1>4 DEF OtherDraft, TypeOK
    <2>2. Grows /\ TestsOK' /\ version' = version + 1 /\ drafts' \in Seq(Forms)
        BY <1>2, <2>1, NewDraft
    <2>3. TypeOK'
        BY <1>1, <1>2, <1>3, <2>1, <2>2, ServerTypes DEF TypeOK
    <2> QED
        BY <1>2, <2>1, <2>2, <2>3, ServerOnly
<1>5. ASSUME NEW env \in Envs, OtherApply(env) PROVE IInv'
    <2>1. project' = [project EXCEPT !.env = env] /\ locked = FALSE /\ UNCHANGED <<drafts, deps>>
        BY <1>1, <1>5 DEF OtherApply, TypeOK
    <2>2. project' \in Settings
        BY <1>1, <2>1 DEF TypeOK, Settings
    <2>3. Grows /\ TestsOK' /\ version' = version
        BY <1>2, <2>1, NothingGrows
    <2>4. TypeOK'
        BY <1>1, <1>2, <1>3, <2>1, <2>2, <2>3, ServerTypes DEF TypeOK
    <2> QED
        BY <1>2, <2>1, <2>3, <2>4, ServerOnly
<1>6. ASSUME NEW rest \in Rests, SetAvailability(rest) PROVE IInv'
    <2>1. project' = [project EXCEPT !.rest = rest] /\ locked = FALSE /\ UNCHANGED <<drafts, deps>>
        BY <1>1, <1>6 DEF SetAvailability, TypeOK
    <2>2. project' \in Settings
        BY <1>1, <2>1 DEF TypeOK, Settings
    <2>3. Grows /\ TestsOK' /\ version' = version
        BY <1>2, <2>1, NothingGrows
    <2>4. TypeOK'
        BY <1>1, <1>2, <1>3, <2>1, <2>2, <2>3, ServerTypes DEF TypeOK
    <2> QED
        BY <1>2, <2>1, <2>3, <2>4, ServerOnly
<1>7. ASSUME ChangeDependency PROVE IInv'
    <2>1. deps' = deps + 1 /\ UNCHANGED <<drafts, project>>
        BY <1>7 DEF ChangeDependency
    <2>2. Grows /\ TestsOK' /\ version' = version
        BY <1>2, <2>1, NothingGrows
    <2>3. TypeOK'
        BY <1>1, <1>2, <1>3, <2>1, <2>2, ServerTypes DEF TypeOK
    <2> QED
        BY <1>2, <2>1, <2>2, <2>3, ServerOnly
<1> QED
    BY <1>3, <1>4, <1>5, <1>6, <1>7 DEF Others
-----------------------------------------------------------------------------
(* The page.                                                               *)

\* The part of Fits that is not about the page.
Carried(c, ks) ==
    /\ Shape(c) /\ Known(c, version) /\ OfTest(c, tests, ks)
    /\ Held(c, tests, locked, project, version)

LEMMA ServerStays ==
    ASSUME UNCHANGED server
    PROVE  /\ version' = version /\ tests' = tests /\ locked' = locked /\ project' = project
           /\ drafts' = drafts /\ published' = published /\ deps' = deps /\ changes' = changes
BY DEF server, version

LEMMA PageStep ==
    ASSUME IInv, UNCHANGED server, TypeOK',
           \A c \in calls' : Carried(c, keys') /\ OfPage(c, mounted', CandidateSnapshot'),
           SameKeys(calls', pending'), OneHolder(calls'),
           PendingOK(pending', tests, keys', mounted', CandidateSnapshot'),
           CandidateOK(candidate', tests), validation' # None => version >= 1
    PROVE  IInv'
<1>1. version' = version /\ tests' = tests /\ locked' = locked /\ project' = project
    BY ServerStays
<1>2. TestsOK'
    BY <1>1 DEF IInv, TestsOK
<1>3. Good(calls', tests', keys', mounted', CandidateSnapshot', locked', project', version')
    BY <1>1 DEF Good, Fits, Carried
<1>4. CallsOK'
    BY <1>3 DEF CallsOK
<1>5. ReviewOK'
    BY <1>1 DEF ReviewOK
<1> QED
    BY <1>2, <1>4, <1>5 DEF IInv

\* What a call in flight is, before a step of the page.
LEMMA InFlight ==
    ASSUME IInv
    PROVE  /\ \A c \in calls : Carried(c, keys) /\ OfPage(c, mounted, CandidateSnapshot)
           /\ SameKeys(calls, pending) /\ OneHolder(calls)
           /\ PendingOK(pending, tests, keys, mounted, CandidateSnapshot)
           /\ CandidateOK(candidate, tests) /\ (validation # None => version >= 1)
           /\ TypeOK /\ version \in Nat
BY ShownSnapshot DEF IInv, CallsOK, ReviewOK, Good, Fits, Carried

\* A step that keeps what the page shows and gives out no key.
LEMMA SameShown ==
    ASSUME IInv, UNCHANGED server, TypeOK', CandidateSnapshot' = CandidateSnapshot,
           UNCHANGED <<keys, mounted>>,
           \A c \in calls' : Carried(c, keys) /\ OfPage(c, mounted, CandidateSnapshot),
           SameKeys(calls', pending'), OneHolder(calls'),
           PendingOK(pending', tests, keys, mounted, CandidateSnapshot),
           CandidateOK(candidate', tests), validation' # None => version >= 1
    PROVE  IInv'
<1>1. /\ \A c \in calls' : Carried(c, keys') /\ OfPage(c, mounted', CandidateSnapshot')
      /\ PendingOK(pending', tests, keys', mounted', CandidateSnapshot')
    OBVIOUS
<1> QED
    BY <1>1, PageStep

\* A call whose answer was handled, or that is the only news.
LEMMA Answered ==
    ASSUME IInv, UNCHANGED <<server, review, keys, mounted>>, TypeOK',
           CandidateSnapshot' = CandidateSnapshot, calls' \subseteq calls
    PROVE  IInv'
<1>1. pending' = pending /\ candidate' = candidate /\ validation' = validation
    BY DEF review
<1>2. SameKeys(calls', pending') /\ OneHolder(calls')
    BY <1>1, InFlight, Fewer
<1> QED
    BY <1>1, <1>2, InFlight, SameShown

LEMMA Asked ==
    ASSUME IInv, UNCHANGED <<server, review, keys, mounted>>, TypeOK',
           CandidateSnapshot' = CandidateSnapshot,
           NEW d, calls' = calls \cup {d}, Carried(d, keys), ~Holds(d),
           OfPage(d, mounted, CandidateSnapshot), SameKeys(calls \cup {d}, pending)
    PROVE  IInv'
<1>1. pending' = pending /\ candidate' = candidate /\ validation' = validation
    BY DEF review
<1>2. SameKeys(calls', pending') /\ OneHolder(calls')
    BY <1>1, InFlight DEF OneHolder
<1>3. \A c \in calls' : Carried(c, keys) /\ OfPage(c, mounted, CandidateSnapshot)
    BY InFlight
<1> QED
    BY <1>1, <1>2, <1>3, InFlight, SameShown

\* Requests other than tests.
LEMMA AskedPlain ==
    ASSUME IInv, NEW d, Shape(d), d.kind # "test", d.at = "sent", d.draft = None,
           d.kind = "apply" => version >= 1 /\ d.key \in DOMAIN tests
    PROVE  /\ Carried(d, keys) /\ ~Holds(d) /\ OfPage(d, mounted, CandidateSnapshot)
           /\ SameKeys(calls \cup {d}, pending)
<1>1. Known(d, version) /\ OfTest(d, tests, keys) /\ ~Holds(d)
    BY DEF Known, OfTest, Holds
<1>2. Held(d, tests, locked, project, version) /\ OfPage(d, mounted, CandidateSnapshot)
    BY <1>1 DEF Held, OfPage
<1>3. SameKeys(calls \cup {d}, pending)
    BY InFlight DEF SameKeys
<1> QED
    BY <1>1, <1>2, <1>3 DEF Carried

LEMMA OutdatedCalls ==
    ASSUME NEW cs, \A c \in cs : Carried(c, keys), NEW why \in {"outdated", "gone"},
           NEW q, SameKeys(cs, q), OneHolder(cs)
    PROVE  /\ \A e \in Outdated(cs, why) :
                Carried(e, keys) /\ (e.kind = "test" => e.owner \in {why, "gone"})
           /\ SameKeys(Outdated(cs, why), None) /\ OneHolder(Outdated(cs, why))
<1>1. ASSUME NEW e \in Outdated(cs, why)
      PROVE  \E c \in cs : /\ e.kind = c.kind /\ e.key = c.key /\ e.input = c.input
                          /\ Carried(e, keys) /\ (e.kind = "test" => e.owner \in {why, "gone"})
                          /\ (c.kind # "test" => e = c)
    <2>1. PICK c \in cs : e = IF c.kind = "test" /\ c.owner # "gone" THEN [c EXCEPT !.owner = why] ELSE c
        BY <1>1 DEF Outdated
    <2>2. c \in Calls /\ Carried(c, keys)
        BY <2>1 DEF Carried, Shape
    <2>3. CASE c.kind = "test" /\ c.owner # "gone"
        <3>1. /\ e \in Calls /\ e.kind = c.kind /\ e.key = c.key /\ e.input = c.input
              /\ e.at = c.at /\ e.draft = c.draft /\ e.owner = why
            BY <2>1, <2>2, <2>3 DEF Calls
        <3>2. Shape(e) /\ Known(e, version) /\ OfTest(e, tests, keys)
            BY <2>2, <3>1 DEF Carried, Shape, Known, OfTest
        <3>3. Held(e, tests, locked, project, version)
            BY <2>3, <3>1 DEF Held, Holds
        <3> QED
            BY <2>3, <3>1, <3>2, <3>3 DEF Carried
    <2>4. CASE ~(c.kind = "test" /\ c.owner # "gone")
        BY <2>1, <2>2, <2>4
    <2> QED
        BY <2>3, <2>4
<1>2. SameKeys(Outdated(cs, why), None)
    BY <1>1 DEF SameKeys
<1>3. OneHolder(Outdated(cs, why))
    BY <1>1 DEF OneHolder, Holds
<1> QED
    BY <1>1, <1>2, <1>3

\* The effects of a render: with another snapshot the tests in flight are outdated.
LEMMA RenderStep ==
    ASSUME IInv, UNCHANGED <<server, keys, mounted, validation>>, TypeOK',
           NEW cs, Render(cs, pending, candidate), SameKeys(cs, pending), OneHolder(cs),
           \A c \in cs : Carried(c, keys) /\ OfPage(c, mounted, CandidateSnapshot)
    PROVE  IInv'
<1>1. CASE mounted /\ CandidateSnapshot' # CandidateSnapshot
    <2>1. calls' = Outdated(cs, "outdated") /\ pending' = None /\ candidate' = None
        BY <1>1 DEF Render
    <2>2. /\ \A e \in calls' : Carried(e, keys) /\ (e.kind = "test" => e.owner \in {"outdated", "gone"})
          /\ SameKeys(calls', None) /\ OneHolder(calls')
        BY <2>1, OutdatedCalls
    <2>3. mounted = TRUE
        BY <1>1, InFlight DEF TypeOK
    <2>4. \A e \in calls' : Carried(e, keys') /\ OfPage(e, mounted', CandidateSnapshot')
        BY <2>2, <2>3 DEF OfPage
    <2>5. PendingOK(pending', tests, keys', mounted', CandidateSnapshot') /\ CandidateOK(candidate', tests)
        BY <2>1 DEF PendingOK, CandidateOK
    <2> QED
        BY <2>1, <2>2, <2>4, <2>5, InFlight, PageStep
<1>2. CASE ~(mounted /\ CandidateSnapshot' # CandidateSnapshot)
    <2>1. calls' = cs /\ pending' = pending /\ candidate' = candidate
        BY <1>2 DEF Render
    <2>2. CASE mounted
        <3>1. CandidateSnapshot' = CandidateSnapshot
            BY <1>2, <2>2
        <3> QED
            BY <2>1, <3>1, InFlight, SameShown
    <2>3. CASE ~mounted
        <3>1. \A c \in calls' : Carried(c, keys') /\ OfPage(c, mounted', CandidateSnapshot')
            BY <2>1, <2>3 DEF OfPage
        <3>2. PendingOK(pending', tests, keys', mounted', CandidateSnapshot')
            BY <2>1, <2>3, InFlight DEF PendingOK
        <3> QED
            BY <2>1, <3>1, <3>2, InFlight, PageStep
    <2> QED
        BY <2>2, <2>3
<1> QED
    BY <1>1, <1>2

\* The types of what a step of the page changes.
LEMMA ShownTypes ==
    ASSUME IInv, UNCHANGED server, keys' = keys, acts' \in Nat,
           form' \in Forms, payload' \in Settings \cup {None}, editorVersion' \in 0 .. version,
           savedDraft' \in Forms \cup {None}, needsBaseline' \in BOOLEAN, loading' \in BOOLEAN,
           validation' \in Validations \cup {None},
           saving' \in BOOLEAN, validating' \in BOOLEAN, testing' \in BOOLEAN,
           hasConflict' \in BOOLEAN, mounted' \in BOOLEAN, busy' \in BOOLEAN
    PROVE  TypeOK'
<1>1. /\ version' = version /\ drafts' = drafts /\ project' = project /\ tests' = tests
      /\ published' = published /\ locked' = locked /\ deps' = deps /\ changes' = changes
    BY ServerStays
<1>2. TypeOK
    BY DEF IInv
<1>3. locked' \in BOOLEAN
    BY <1>1, <1>2 DEF TypeOK
<1> QED
    BY <1>1, <1>2, <1>3 DEF TypeOK

LEMMA CommitTypes ==
    ASSUME NEW entered \in Forms, NEW saved \in Forms \cup {None}, NEW isLoading \in BOOLEAN,
           NEW needs, Commit(entered, saved, isLoading, needs)
    PROVE  /\ form' = entered /\ savedDraft' \in Forms \cup {None}
           /\ loading' \in BOOLEAN /\ needsBaseline' \in BOOLEAN
BY DEF Commit

LEMMA ActNat ==
    ASSUME IInv, Act
    PROVE  acts' \in Nat
BY DEF IInv, TypeOK, Act

\* Steps that change at most the flags of the page, and the calls.
LEMMA FlagTypes ==
    ASSUME IInv, UNCHANGED <<server, entries, keys>>, acts' \in Nat,
           validation' \in Validations \cup {None},
           saving' \in BOOLEAN, validating' \in BOOLEAN, testing' \in BOOLEAN,
           hasConflict' \in BOOLEAN, mounted' \in BOOLEAN, busy' \in BOOLEAN
    PROVE  TypeOK' /\ CandidateSnapshot' = CandidateSnapshot
<1>1. /\ form' \in Forms /\ payload' \in Settings \cup {None} /\ editorVersion' \in 0 .. version
      /\ savedDraft' \in Forms \cup {None} /\ needsBaseline' \in BOOLEAN /\ loading' \in BOOLEAN
    BY DEF IInv, TypeOK, entries
<1>2. CandidateSnapshot' = CandidateSnapshot
    BY DEF entries, CandidateSnapshot, Yaml
<1> QED
    BY <1>1, <1>2, ShownTypes

LEMMA Flags ==
    ASSUME IInv
    PROVE  /\ saving \in BOOLEAN /\ validating \in BOOLEAN /\ testing \in BOOLEAN
           /\ hasConflict \in BOOLEAN /\ mounted \in BOOLEAN /\ busy \in BOOLEAN
           /\ validation \in Validations \cup {None} /\ acts \in Nat
BY DEF IInv, TypeOK

LEMMA RefreshStep ==
    ASSUME IInv, Refresh
    PROVE  IInv'
<1>1. /\ Commit(form, savedDraft, TRUE, needsBaseline) /\ Act
      /\ UNCHANGED <<server, payload, editorVersion, review, flags, keys>>
    BY DEF Refresh
<1>2. PICK k \in 1 .. MaxLoads : calls' = calls \cup {Call("refresh", None, k)}
    BY DEF Refresh
<1>3. form \in Forms /\ savedDraft \in Forms \cup {None} /\ TRUE \in BOOLEAN /\ TypeOK
    BY DEF IInv, TypeOK
<1>4. /\ form' = form /\ savedDraft' \in Forms \cup {None}
      /\ loading' \in BOOLEAN /\ needsBaseline' \in BOOLEAN
    BY <1>1, <1>3 DEF Commit
<1>5. CandidateSnapshot' = CandidateSnapshot
    BY <1>1, <1>4 DEF CandidateSnapshot, Yaml
<1>6. /\ payload' = payload /\ editorVersion' = editorVersion /\ validation' = validation
      /\ saving' = saving /\ validating' = validating /\ testing' = testing
      /\ hasConflict' = hasConflict /\ mounted' = mounted /\ busy' = busy
    BY <1>1 DEF review, flags
<1>7. payload' \in Settings \cup {None} /\ editorVersion' \in 0 .. version /\ form' \in Forms
    BY <1>3, <1>4, <1>6 DEF TypeOK
<1>8. TypeOK'
    BY <1>1, <1>4, <1>6, <1>7, ActNat, Flags, ShownTypes
<1> DEFINE d == Call("refresh", None, k)
<1>9. Shape(d) /\ d.kind = "refresh" /\ d.at = "sent" /\ d.draft = None
    BY <1>3, NewCall
<1> QED
    BY <1>1, <1>2, <1>5, <1>6, <1>8, <1>9, AskedPlain, Asked

\* Entries change only where no candidate test is mounted.
LEMMA EditStep ==
    ASSUME IInv, NEW f \in Forms, Edit(f)
    PROVE  IInv'
<1>1. /\ Commit(f, savedDraft, loading, needsBaseline) /\ Act /\ mounted # TRUE
      /\ UNCHANGED <<server, payload, editorVersion, review, flags, keys, calls>>
    BY DEF Edit
<1>2. savedDraft \in Forms \cup {None} /\ loading \in BOOLEAN /\ TypeOK
    BY DEF IInv, TypeOK
<1>3. /\ form' = f /\ savedDraft' \in Forms \cup {None}
      /\ loading' \in BOOLEAN /\ needsBaseline' \in BOOLEAN
    BY <1>1, <1>2, CommitTypes
<1>4. /\ payload' = payload /\ editorVersion' = editorVersion /\ validation' = validation
      /\ saving' = saving /\ validating' = validating /\ testing' = testing
      /\ hasConflict' = hasConflict /\ mounted' = mounted /\ busy' = busy
      /\ pending' = pending /\ candidate' = candidate /\ calls' = calls /\ keys' = keys
    BY <1>1 DEF review, flags
<1>5. TypeOK'
    BY <1>1, <1>2, <1>3, <1>4, ActNat, Flags, ShownTypes DEF TypeOK
<1>6. \A c \in calls' : Carried(c, keys') /\ OfPage(c, mounted', CandidateSnapshot')
    BY <1>1, <1>4, InFlight DEF OfPage
<1>7. PendingOK(pending', tests, keys', mounted', CandidateSnapshot')
    BY <1>1, <1>4, InFlight DEF PendingOK
<1> QED
    BY <1>1, <1>4, <1>5, <1>6, <1>7, InFlight, PageStep

LEMMA ShowStep ==
    ASSUME IInv, Show
    PROVE  IInv'
<1>1. /\ mounted # TRUE /\ mounted' = TRUE
      /\ UNCHANGED <<server, entries, review, saving, validating, testing, hasConflict, busy, keys, acts, calls>>
    BY DEF Show
<1>2. pending' = pending /\ candidate' = candidate /\ validation' = validation /\ keys' = keys
    BY <1>1 DEF review
<1>3. TypeOK' /\ CandidateSnapshot' = CandidateSnapshot
    BY <1>1, <1>2, Flags, FlagTypes
<1>4. \A c \in calls' : Carried(c, keys') /\ OfPage(c, mounted', CandidateSnapshot')
    BY <1>1, <1>2, InFlight DEF OfPage
<1>5. PendingOK(pending', tests, keys', mounted', CandidateSnapshot')
    BY <1>1, <1>2, InFlight DEF PendingOK
<1> QED
    BY <1>1, <1>2, <1>3, <1>4, <1>5, InFlight, PageStep

LEMMA LeaveStep ==
    ASSUME IInv, Leave
    PROVE  IInv'
<1>1. /\ mounted' = FALSE /\ busy' = FALSE /\ pending' = None /\ candidate' = None
      /\ calls' = Outdated(calls, "gone")
      /\ UNCHANGED <<server, entries, validation, saving, validating, testing, hasConflict, keys, acts>>
    BY DEF Leave
<1>2. mounted' \in BOOLEAN /\ busy' \in BOOLEAN
    BY <1>1
<1>3. TypeOK'
    BY <1>1, <1>2, Flags, FlagTypes
<1>4. /\ \A e \in calls' : Carried(e, keys) /\ (e.kind = "test" => e.owner \in {"gone"})
      /\ SameKeys(calls', None) /\ OneHolder(calls')
    BY <1>1, InFlight, OutdatedCalls
<1>5. \A c \in calls' : Carried(c, keys') /\ OfPage(c, mounted', CandidateSnapshot')
    BY <1>1, <1>4 DEF OfPage
<1>6. PendingOK(pending', tests, keys', mounted', CandidateSnapshot') /\ CandidateOK(candidate', tests)
    BY <1>1 DEF PendingOK, CandidateOK
<1> QED
    BY <1>1, <1>3, <1>4, <1>5, <1>6, InFlight, PageStep

LEMMA SaveButtons ==
    ASSUME IInv, HandleSaveDraft \/ HandleValidate
    PROVE  IInv'
<1>1. /\ UNCHANGED <<server, entries, review, testing, hasConflict, mounted, busy, keys>> /\ Act
      /\ saving' \in BOOLEAN /\ validating' \in BOOLEAN
    BY Flags DEF HandleSaveDraft, HandleValidate
<1>2. TypeOK' /\ CandidateSnapshot' = CandidateSnapshot
    BY <1>1, Flags, ActNat, FlagTypes DEF review
<1>3. PICK kind \in {"draft", "validate"} : calls' = calls \cup {Call(kind, Input, None)}
    BY DEF HandleSaveDraft, HandleValidate
<1> DEFINE d == Call(kind, Input, None)
<1>4. Faithful(Input) /\ TypeOK
    BY ShownSnapshot DEF IInv, Input
<1>5. Shape(d) /\ d.kind = kind /\ d.at = "sent" /\ d.draft = None
    <2>1. /\ d.kind = kind /\ d.at = "sent" /\ d.draft = None /\ d.input = Input
        BY DEF Call
    <2>2. Input \in Snapshots
        BY <1>4 DEF Faithful
    <2>3. d = [kind |-> kind, at |-> "sent", input |-> Input, key |-> None, snapshot |-> None,
               owner |-> None, read |-> None, draft |-> None]
        BY DEF Call
    <2>4. d \in Calls
        BY <2>2, <2>3 DEF Calls
    <2> QED
        BY <1>4, <2>1, <2>4 DEF Shape
<1> QED
    BY <1>1, <1>2, <1>3, <1>5, AskedPlain, Asked

\* A valid result in hand means that a draft was saved.
LEMMA Validly ==
    ASSUME IInv, ValidationCurrent
    PROVE  version >= 1
<1>1. [yaml |-> Yaml, form |-> form] \in Validations
    BY ShownSnapshot DEF IInv, TypeOK, Faithful, CandidateSnapshot, Snapshots, Validations
<1>2. validation # None
    BY <1>1, NoneAssumption DEF ValidationCurrent
<1> QED
    BY <1>2, InFlight

LEMMA HandleSaveStep ==
    ASSUME IInv, HandleSave
    PROVE  IInv'
<1>1. /\ UNCHANGED <<server, entries, review, keys, validating, testing, hasConflict, mounted, busy>>
      /\ Act /\ saving' = TRUE /\ ValidationCurrent /\ CandidatePassed
      /\ calls' = calls \cup {Call("apply", Input, candidate.key)}
    BY DEF HandleSave
<1>2. saving' \in BOOLEAN
    BY <1>1
<1>3. TypeOK' /\ CandidateSnapshot' = CandidateSnapshot
    BY <1>1, <1>2, Flags, ActNat, FlagTypes DEF review
<1>4. Faithful(Input) /\ TypeOK
    BY ShownSnapshot DEF IInv, Input
<1>5. candidate.key \in DOMAIN tests /\ candidate.key \in Nat
    BY <1>1, <1>4, InFlight DEF CandidatePassed, CandidateOK, TypeOK
<1> DEFINE d == Call("apply", Input, candidate.key)
<1>6. Shape(d) /\ d.kind = "apply" /\ d.at = "sent" /\ d.draft = None /\ d.key = candidate.key
    BY <1>4, <1>5, NewCall
<1>7. version >= 1
    BY <1>1, Validly
<1> QED
    BY <1>1, <1>3, <1>5, <1>6, <1>7, AskedPlain, Asked

\* A test that is asked for by the page as it is: d is the call, sent or uploading.
LEMMA NewTest ==
    ASSUME IInv, NEW key \in Nat, NEW d,
           LET c == Call("test", Input, key) IN d = c \/ d = [c EXCEPT !.at = "upload"]
    PROVE  /\ Shape(d) /\ d.kind = "test" /\ d.at \in {"sent", "upload"} /\ d.draft = None
           /\ d.key = key /\ d.input = CandidateSnapshot /\ d.snapshot = CandidateSnapshot
           /\ d.owner = "mounted"
<1> DEFINE c == Call("test", Input, key)
<1>1. Faithful(Input) /\ TypeOK /\ Input = CandidateSnapshot
    BY ShownSnapshot DEF IInv, Input
<1>2. /\ Shape(c) /\ c.kind = "test" /\ c.at = "sent" /\ c.input = CandidateSnapshot /\ c.key = key
      /\ c.draft = None /\ c.owner = "mounted" /\ c.snapshot = CandidateSnapshot
    BY <1>1, NewCall
<1>3. CASE d = c
    BY <1>2, <1>3
<1>4. CASE d = [c EXCEPT !.at = "upload"]
    <2>1. c \in Calls
        BY <1>2 DEF Shape
    <2>2. /\ d \in Calls /\ d.at = "upload" /\ d.kind = c.kind /\ d.input = c.input /\ d.key = c.key
          /\ d.snapshot = c.snapshot /\ d.owner = c.owner /\ d.draft = c.draft
        BY <1>4, <2>1 DEF Calls
    <2> QED
        BY <1>2, <2>2 DEF Shape
<1> QED
    BY <1>3, <1>4

LEMMA RunTestStep ==
    ASSUME IInv, NEW files \in BOOLEAN, RunTest(files)
    PROVE  IInv'
<1> DEFINE c == Call("test", Input, keys + 1)
<1>1. /\ Act /\ mounted = TRUE /\ ValidationCurrent /\ keys' = keys + 1
      /\ busy' = TRUE /\ testing' = TRUE
      /\ UNCHANGED <<server, entries, validation, candidate, saving, validating, hasConflict, mounted>>
    BY Flags DEF RunTest, Testable
<1>2. PICK d : /\ d = c \/ d = [c EXCEPT !.at = "upload"]
               /\ calls' = calls \cup {d}
               /\ pending' = pending \/ pending' = [key |-> c.key, input |-> c.input]
    BY DEF RunTest
<1>3. keys \in Nat /\ DOMAIN tests \subseteq 1 .. keys /\ version \in Nat /\ TypeOK
    BY InFlight DEF TypeOK
<1>4. /\ Shape(d) /\ d.kind = "test" /\ d.at \in {"sent", "upload"} /\ d.draft = None
      /\ d.key = keys + 1 /\ d.input = CandidateSnapshot /\ d.snapshot = CandidateSnapshot
      /\ d.owner = "mounted"
    BY <1>2, <1>3, NewTest
<1>5. c.key = keys + 1 /\ c.input = CandidateSnapshot
    BY DEF Call, Input
<1>6. version >= 1
    BY <1>1, Validly
<1>7. keys + 1 \notin DOMAIN tests
    BY <1>3
<1>8. Carried(d, keys + 1) /\ ~Holds(d)
    <2>1. Known(d, version) /\ ~Holds(d)
        BY <1>4, <1>6 DEF Known, Holds
    <2>2. OfTest(d, tests, keys + 1)
        BY <1>3, <1>4, <1>7 DEF OfTest
    <2> QED
        BY <1>4, <2>1, <2>2 DEF Carried, Held
<1>9. \A e \in calls : Carried(e, keys + 1) /\ (e.kind = "test" => e.key \in 1 .. keys)
    <2>1. ASSUME NEW e \in calls PROVE Carried(e, keys + 1) /\ (e.kind = "test" => e.key \in 1 .. keys)
        <3>1. Carried(e, keys)
            BY InFlight
        <3>2. OfTest(e, tests, keys + 1) /\ (e.kind = "test" => e.key \in 1 .. keys)
            BY <1>3, <3>1 DEF Carried, OfTest
        <3> QED
            BY <3>1, <3>2 DEF Carried
    <2> QED
        BY <2>1
<1>10. CandidateSnapshot' = CandidateSnapshot
    BY <1>1 DEF entries, CandidateSnapshot, Yaml
<1>11. TypeOK'
    <2>1. /\ form' \in Forms /\ payload' \in Settings \cup {None} /\ editorVersion' \in 0 .. version
          /\ savedDraft' \in Forms \cup {None} /\ needsBaseline' \in BOOLEAN /\ loading' \in BOOLEAN
        BY <1>1, <1>3 DEF TypeOK, entries
    <2>2. busy' \in BOOLEAN /\ testing' \in BOOLEAN /\ acts' \in Nat
        BY <1>1, ActNat
    <2>3. keys' \in Nat /\ DOMAIN tests' \subseteq 1 .. keys'
        BY <1>1, <1>3, ServerStays
    <2>4. /\ version' = version /\ drafts' = drafts /\ project' = project
          /\ published' = published /\ locked' = locked /\ deps' = deps /\ changes' = changes
        BY <1>1, ServerStays
    <2>5. /\ saving' \in BOOLEAN /\ validating' \in BOOLEAN /\ hasConflict' \in BOOLEAN
          /\ mounted' \in BOOLEAN /\ validation' \in Validations \cup {None}
        BY <1>1, Flags
    <2>6. locked' \in BOOLEAN
        BY <1>3, <2>4 DEF TypeOK
    <2> QED
        BY <1>3, <2>1, <2>2, <2>3, <2>4, <2>5, <2>6 DEF TypeOK
<1>12. \A e \in calls' : Carried(e, keys') /\ OfPage(e, mounted', CandidateSnapshot')
    <2>1. OfPage(d, mounted, CandidateSnapshot)
        BY <1>1, <1>4 DEF OfPage
    <2> QED
        BY <1>1, <1>2, <1>8, <1>9, <1>10, <2>1, InFlight
<1>13. SameKeys(calls', pending')
    <2>1. \A e \in calls : e.kind = "test" => e.key # d.key
        BY <1>3, <1>4, <1>9
    <2>2. pending # None => pending.key # d.key
        BY <1>3, <1>4, InFlight DEF PendingOK
    <2>3. /\ [key |-> c.key, input |-> c.input].key = d.key
          /\ [key |-> c.key, input |-> c.input].input = d.input
        BY <1>4, <1>5
    <2> QED
        BY <1>2, <2>1, <2>2, <2>3, InFlight DEF SameKeys
<1>14. OneHolder(calls')
    BY <1>2, <1>8, InFlight DEF OneHolder
<1>15. PendingOK(pending', tests, keys', mounted', CandidateSnapshot')
    <2>1. CASE pending' = pending
        BY <1>1, <1>3, <1>10, <2>1, InFlight DEF PendingOK
    <2>2. CASE pending' = [key |-> c.key, input |-> c.input]
        <3>1. pending'.key = keys + 1 /\ pending'.input = CandidateSnapshot
            BY <1>5, <2>2
        <3> QED
            BY <1>1, <1>3, <1>7, <1>10, <3>1 DEF PendingOK
    <2> QED
        BY <1>2, <2>1, <2>2
<1> QED
    BY <1>1, <1>6, <1>11, <1>12, <1>13, <1>14, <1>15, InFlight, PageStep

\* A retry sends the attempt whose answer was lost: its key and its input.
LEMMA RetryTestStep ==
    ASSUME IInv, RetryTest
    PROVE  IInv'
<1>1. /\ Act /\ mounted = TRUE /\ ValidationCurrent /\ pending # None
      /\ busy' = TRUE /\ testing' = TRUE
      /\ calls' = calls \cup {Call("test", pending.input, pending.key)}
      /\ UNCHANGED <<server, entries, review, keys, saving, validating, hasConflict, mounted>>
    BY Flags DEF RetryTest, Testable
<1>2. /\ pending.key \in 1 .. keys /\ pending.input = CandidateSnapshot
      /\ pending.key \in DOMAIN tests => Matches(tests[pending.key], pending.input)
      /\ keys \in Nat /\ pending.key \in Nat
    BY <1>1, InFlight DEF PendingOK, TypeOK
<1> DEFINE d == Call("test", pending.input, pending.key)
<1>3. /\ Shape(d) /\ d.kind = "test" /\ d.at = "sent" /\ d.draft = None
      /\ d.key = pending.key /\ d.input = CandidateSnapshot /\ d.snapshot = CandidateSnapshot
      /\ d.owner = "mounted"
    <2>1. d = Call("test", Input, pending.key)
        BY <1>2 DEF Input
    <2>2. /\ Shape(d) /\ d.kind = "test" /\ d.draft = None
          /\ d.key = pending.key /\ d.input = CandidateSnapshot /\ d.snapshot = CandidateSnapshot
          /\ d.owner = "mounted"
        BY <1>2, <2>1, NewTest
    <2> QED
        BY <2>2 DEF Call
<1>4. Carried(d, keys) /\ ~Holds(d) /\ OfPage(d, mounted, CandidateSnapshot)
    <2>1. version >= 1
        BY <1>1, Validly
    <2>2. Known(d, version) /\ ~Holds(d)
        BY <1>3, <2>1 DEF Known, Holds
    <2>3. OfTest(d, tests, keys) /\ OfPage(d, mounted, CandidateSnapshot)
        BY <1>1, <1>2, <1>3 DEF OfTest, OfPage
    <2> QED
        BY <1>3, <2>2, <2>3 DEF Carried, Held
<1>5. SameKeys(calls \cup {d}, pending)
    BY <1>1, <1>2, <1>3, InFlight DEF SameKeys
<1>6. busy' \in BOOLEAN /\ testing' \in BOOLEAN
    BY <1>1
<1>7. TypeOK' /\ CandidateSnapshot' = CandidateSnapshot
    BY <1>1, <1>6, Flags, ActNat, FlagTypes DEF review
<1> QED
    BY <1>1, <1>4, <1>5, <1>7, Asked

LEMMA ChangeInputsStep ==
    ASSUME IInv, ChangeInputs
    PROVE  IInv'
<1>1. /\ Act /\ pending' = None /\ candidate' = None
      /\ UNCHANGED <<server, entries, validation, keys, flags, calls>>
    BY DEF ChangeInputs
<1>2. /\ saving' = saving /\ validating' = validating /\ testing' = testing
      /\ hasConflict' = hasConflict /\ mounted' = mounted /\ busy' = busy
    BY <1>1 DEF flags
<1>3. TypeOK' /\ CandidateSnapshot' = CandidateSnapshot
    BY <1>1, <1>2, Flags, ActNat, FlagTypes
<1>4. SameKeys(calls', pending') /\ OneHolder(calls')
    BY <1>1, InFlight, Fewer
<1>5. PendingOK(pending', tests, keys, mounted, CandidateSnapshot) /\ CandidateOK(candidate', tests)
    BY <1>1 DEF PendingOK, CandidateOK
<1> QED
    BY <1>1, <1>2, <1>3, <1>4, <1>5, InFlight, SameShown
-----------------------------------------------------------------------------
(* The answers.                                                            *)

\* The calls that are left when one was answered.
LEMMA Left ==
    ASSUME IInv, NEW c \in calls
    PROVE  /\ \A e \in Rest(c) : Carried(e, keys) /\ OfPage(e, mounted, CandidateSnapshot)
           /\ SameKeys(Rest(c), pending) /\ SameKeys(Rest(c), None) /\ OneHolder(Rest(c))
           /\ Rest(c) \subseteq calls
BY InFlight, Fewer DEF Rest

\* A call that the page passes on.
LEMMA Passed ==
    ASSUME IInv, NEW c \in calls, NEW at \in {"sent", "check"}, ~Holds(c),
           at = "check" => c.kind = "validate" /\ c.input.version + 1 <= version
    PROVE  /\ \A e \in Moved(c, at) : Carried(e, keys) /\ OfPage(e, mounted, CandidateSnapshot)
           /\ SameKeys(Moved(c, at), pending) /\ OneHolder(Moved(c, at))
<1> DEFINE d == [c EXCEPT !.at = at]
<1>1. /\ c \in Calls /\ Carried(c, keys) /\ OfPage(c, mounted, CandidateSnapshot)
      /\ SameKeys(calls, pending) /\ OneHolder(calls)
    BY InFlight DEF Carried, Shape
<1>2. /\ d \in Calls /\ d.at = at /\ d.kind = c.kind /\ d.input = c.input /\ d.key = c.key
      /\ d.snapshot = c.snapshot /\ d.owner = c.owner /\ d.draft = c.draft
    BY <1>1 DEF Calls
<1>3. ~Holds(d)
    BY <1>2 DEF Holds
<1>4. Shape(d) /\ Known(d, version) /\ OfTest(d, tests, keys)
    BY <1>1, <1>2 DEF Carried, Shape, Known, OfTest
<1>5. Carried(d, keys) /\ OfPage(d, mounted, CandidateSnapshot)
    BY <1>1, <1>2, <1>3, <1>4 DEF Carried, Held, OfPage
<1>6. SameKeys(Moved(c, at), pending)
    BY <1>1, <1>2, Replaced DEF Moved, Rest
<1>7. OneHolder(Moved(c, at))
    BY <1>1, <1>3 DEF Moved, Rest, OneHolder
<1> QED
    BY <1>5, <1>6, <1>7, Left DEF Moved

LEMMA RefreshAnswerStep ==
    ASSUME IInv, NEW c \in calls, RefreshAnswer(c)
    PROVE  IInv'
<1> DEFINE saved == IF c.draft = 0 THEN None ELSE drafts[c.draft]
           loaded == IF c.draft = 0 THEN [env |-> c.read.env, name |-> Blank.name] ELSE saved
<1>1. /\ c.read # None /\ c.draft # None /\ payload' = c.read /\ editorVersion' = c.draft
      /\ Commit(loaded, saved, FALSE, TRUE) /\ hasConflict' = FALSE
      /\ Render(Rest(c), pending, candidate)
      /\ UNCHANGED <<server, validation, keys, saving, validating, testing, mounted, busy, acts>>
    BY DEF RefreshAnswer
<1>2. /\ c \in Calls /\ Known(c, version) /\ version \in Nat /\ TypeOK
    BY InFlight DEF Carried, Shape
<1>3. c.read \in Settings /\ c.draft \in 0 .. version
    BY <1>1, <1>2 DEF Calls, Known
<1>4. saved \in Forms \cup {None} /\ (c.draft # 0 => saved \in Forms)
    BY <1>2, <1>3 DEF TypeOK, version
<1>5. loaded \in Forms
    BY <1>3, <1>4, FormsAssumption DEF Settings
<1>6. /\ form' \in Forms /\ savedDraft' \in Forms \cup {None}
      /\ loading' \in BOOLEAN /\ needsBaseline' \in BOOLEAN
    BY <1>1, <1>4, <1>5 DEF Commit
<1>7. hasConflict' \in BOOLEAN /\ payload' \in Settings \cup {None} /\ editorVersion' \in 0 .. version
    BY <1>1, <1>3
<1>8. TypeOK'
    BY <1>1, <1>6, <1>7, Flags, ShownTypes
<1> QED
    BY <1>1, <1>8, Left, RenderStep

LEMMA RefreshFailsStep ==
    ASSUME IInv, NEW c \in calls, RefreshFails(c)
    PROVE  IInv'
<1>1. /\ Commit(form, savedDraft, FALSE, needsBaseline) /\ calls' = Rest(c)
      /\ UNCHANGED <<server, payload, editorVersion, review, keys, flags, acts>>
    BY DEF RefreshFails
<1>2. form \in Forms /\ savedDraft \in Forms \cup {None} /\ TypeOK
    BY DEF IInv, TypeOK
<1>3. /\ form' = form /\ savedDraft' \in Forms \cup {None}
      /\ loading' \in BOOLEAN /\ needsBaseline' \in BOOLEAN
    BY <1>1, <1>2 DEF Commit
<1>4. /\ payload' = payload /\ editorVersion' = editorVersion /\ validation' = validation
      /\ saving' = saving /\ validating' = validating /\ testing' = testing
      /\ hasConflict' = hasConflict /\ mounted' = mounted /\ busy' = busy
    BY <1>1 DEF review, flags
<1>5. payload' \in Settings \cup {None} /\ editorVersion' \in 0 .. version /\ form' \in Forms
    BY <1>2, <1>3, <1>4 DEF TypeOK
<1>6. TypeOK'
    BY <1>1, <1>3, <1>4, <1>5, Flags, ShownTypes
<1>7. CandidateSnapshot' = CandidateSnapshot
    BY <1>3, <1>4 DEF CandidateSnapshot, Yaml
<1> QED
    BY <1>1, <1>4, <1>6, <1>7, Left, Answered

LEMMA DraftSavedStep ==
    ASSUME IInv, NEW c \in calls, DraftSaved(c)
    PROVE  IInv'
<1>1. /\ c.at = "saved" /\ editorVersion' = c.input.version + 1 /\ payload' = payload
      /\ Commit(form, c.input.form, loading, needsBaseline)
      /\ UNCHANGED <<server, validation, keys, validating, testing, hasConflict, mounted, busy, acts>>
    BY DEF DraftSaved
<1>2. /\ Shape(c) /\ Known(c, version) /\ version \in Nat /\ TypeOK
    BY InFlight DEF Carried
<1>3. /\ c.kind \in {"draft", "validate"} /\ c.input \in Snapshots
      /\ c.input.version + 1 <= version
    BY <1>1, <1>2 DEF Shape, Known, Faithful
<1>4. c.input.form \in Forms /\ c.input.version \in Nat
    BY <1>3 DEF Snapshots
<1>5. form \in Forms /\ loading \in BOOLEAN
    BY <1>2 DEF TypeOK
<1>6. /\ form' = form /\ savedDraft' \in Forms \cup {None}
      /\ loading' \in BOOLEAN /\ needsBaseline' \in BOOLEAN
    BY <1>1, <1>4, <1>5, CommitTypes
<1>7. editorVersion' \in 0 .. version /\ payload' \in Settings \cup {None}
    BY <1>1, <1>2, <1>3, <1>4 DEF TypeOK
<1>8. saving' \in BOOLEAN
    BY Flags DEF DraftSaved
<1>9. TypeOK'
    BY <1>1, <1>5, <1>6, <1>7, <1>8, Flags, ShownTypes
<1>10. CASE c.kind = "draft"
    <2>1. Render(Rest(c), pending, candidate)
        BY <1>10 DEF DraftSaved
    <2> QED
        BY <1>1, <1>9, <2>1, Left, RenderStep
<1>11. CASE c.kind = "validate"
    <2>1. Render(Moved(c, "check"), pending, candidate)
        BY <1>11 DEF DraftSaved
    <2>2. ~Holds(c)
        BY <1>1 DEF Holds
    <2>3. /\ \A e \in Moved(c, "check") : Carried(e, keys) /\ OfPage(e, mounted, CandidateSnapshot)
          /\ SameKeys(Moved(c, "check"), pending) /\ OneHolder(Moved(c, "check"))
        BY <1>3, <1>11, <2>2, Passed
    <2> QED
        BY <1>1, <1>9, <2>1, <2>3, RenderStep
<1> QED
    BY <1>3, <1>10, <1>11

LEMMA ValidatedStep ==
    ASSUME IInv, NEW c \in calls, Validated(c)
    PROVE  IInv'
<1>1. /\ c.at \in {"valid", "invalid"} /\ validating' = FALSE /\ calls' = Rest(c)
      /\ validation' = IF c.at = "valid" THEN [yaml |-> c.input.yaml, form |-> c.input.form] ELSE None
      /\ UNCHANGED <<server, entries, candidate, pending, keys, saving, testing, hasConflict,
                     mounted, busy, acts>>
    BY DEF Validated
<1>2. /\ Shape(c) /\ Known(c, version) /\ version \in Nat /\ TypeOK
    BY InFlight DEF Carried
<1>3. c.input \in Snapshots /\ c.input.version + 1 <= version
    BY <1>1, <1>2 DEF Shape, Known, Faithful
<1>4. validation' \in Validations \cup {None} /\ validating' \in BOOLEAN
    BY <1>1, <1>3 DEF Snapshots, Validations
<1>5. version >= 1
    BY <1>2, <1>3 DEF Snapshots
<1>6. TypeOK' /\ CandidateSnapshot' = CandidateSnapshot
    BY <1>1, <1>4, Flags, FlagTypes
<1>7. SameKeys(calls', pending') /\ OneHolder(calls')
    BY <1>1, Left
<1> QED
    BY <1>1, <1>5, <1>6, <1>7, Left, InFlight, SameShown

LEMMA AppliedStep ==
    ASSUME IInv, NEW c \in calls, Applied(c)
    PROVE  IInv'
<1>1. /\ c.read # None /\ payload' = c.read /\ saving' = FALSE
      /\ Render(Rest(c), pending, candidate)
      /\ UNCHANGED <<form, editorVersion, savedDraft, needsBaseline, loading>>
      /\ UNCHANGED <<server, validation, keys, validating, testing, hasConflict, mounted, busy, acts>>
    BY DEF Applied
<1>2. c \in Calls /\ TypeOK
    BY InFlight DEF Carried, Shape
<1>3. payload' \in Settings \cup {None} /\ saving' \in BOOLEAN
    BY <1>1, <1>2 DEF Calls
<1>4. /\ form' \in Forms /\ editorVersion' \in 0 .. version /\ savedDraft' \in Forms \cup {None}
      /\ needsBaseline' \in BOOLEAN /\ loading' \in BOOLEAN
    BY <1>1, <1>2 DEF TypeOK
<1>5. TypeOK'
    BY <1>1, <1>3, <1>4, Flags, ShownTypes
<1> QED
    BY <1>1, <1>5, Left, RenderStep

LEMMA NotSavedStep ==
    ASSUME IInv, NEW c \in calls, NotSaved(c)
    PROVE  IInv'
<1>1. /\ calls' = Rest(c) /\ saving' \in BOOLEAN /\ validating' \in BOOLEAN /\ hasConflict' \in BOOLEAN
      /\ UNCHANGED <<server, entries, review, keys, testing, mounted, busy, acts>>
    BY DEF NotSaved
<1>2. TypeOK' /\ CandidateSnapshot' = CandidateSnapshot
    BY <1>1, Flags, FlagTypes DEF review
<1> QED
    BY <1>1, <1>2, Left, Answered

LEMMA UploadedStep ==
    ASSUME IInv, NEW c \in calls, Uploaded(c)
    PROVE  IInv'
<1>1. /\ c.at = "upload" /\ c.owner = "mounted" /\ calls' = Moved(c, "sent")
      /\ pending' = [key |-> c.key, input |-> c.input]
      /\ UNCHANGED <<server, entries, validation, candidate, keys, flags, acts>>
    BY DEF Uploaded
<1>2. Carried(c, keys) /\ OfPage(c, mounted, CandidateSnapshot) /\ ~Holds(c)
    BY <1>1, InFlight DEF Holds
<1>3. /\ c.kind = "test" /\ c.key \in 1 .. keys /\ c.input = CandidateSnapshot /\ mounted = TRUE
      /\ c.key \in DOMAIN tests => Matches(tests[c.key], c.input)
    BY <1>1, <1>2 DEF Carried, Shape, OfTest, OfPage
<1>4. /\ saving' = saving /\ validating' = validating /\ testing' = testing
      /\ hasConflict' = hasConflict /\ mounted' = mounted /\ busy' = busy
    BY <1>1 DEF flags
<1>5. TypeOK' /\ CandidateSnapshot' = CandidateSnapshot
    BY <1>1, <1>4, Flags, FlagTypes
<1>6. /\ \A e \in calls' : Carried(e, keys) /\ OfPage(e, mounted, CandidateSnapshot)
      /\ SameKeys(calls', pending) /\ OneHolder(calls')
    BY <1>1, <1>2, Passed
<1>7. pending'.key = c.key /\ pending'.input = c.input
    BY <1>1
<1>8. PendingOK(pending', tests, keys, mounted, CandidateSnapshot)
    BY <1>3, <1>7 DEF PendingOK
<1>9. SameKeys(calls', pending')
    <2> DEFINE d == [c EXCEPT !.at = "sent"]
    <2>1. c \in Calls
        BY <1>2 DEF Carried, Shape
    <2>2. d.kind = c.kind /\ d.key = c.key /\ d.input = c.input
        BY <2>1 DEF Calls
    <2>3. d \in calls'
        BY <1>1 DEF Moved
    <2> HIDE DEF d
    <2>4. \E e \in calls' : e.kind = "test" /\ e.key = c.key /\ e.input = c.input
        BY <1>3, <2>2, <2>3
    <2> QED
        BY <1>6, <1>7, <2>4 DEF SameKeys
<1> QED
    BY <1>1, <1>4, <1>5, <1>6, <1>8, <1>9, InFlight, SameShown

LEMMA EndRunTypes ==
    ASSUME IInv, NEW c, EndRun(c)
    PROVE  /\ TypeOK' /\ CandidateSnapshot' = CandidateSnapshot
           /\ UNCHANGED <<server, validation, keys, mounted>>
<1>1. /\ busy' \in BOOLEAN /\ testing' \in BOOLEAN
      /\ UNCHANGED <<server, entries, validation, keys, saving, validating, hasConflict, mounted, acts>>
    BY DEF EndRun
<1> QED
    BY <1>1, Flags, FlagTypes

LEMMA UploadUselessStep ==
    ASSUME IInv, NEW c \in calls, UploadUseless(c)
    PROVE  IInv'
<1>1. /\ calls' = Rest(c) /\ EndRun(c) /\ candidate' = candidate
      /\ pending' = pending \/ pending' = None
    BY DEF UploadUseless
<1>2. SameKeys(calls', pending') /\ OneHolder(calls')
    BY <1>1, Left
<1>3. PendingOK(pending', tests, keys, mounted, CandidateSnapshot)
    BY <1>1, InFlight DEF PendingOK
<1> QED
    BY <1>1, <1>2, <1>3, EndRunTypes, Left, InFlight, SameShown

\* A receipt is taken for the inputs of its test, which are still those on display.
LEMMA TestAnswerStep ==
    ASSUME IInv, NEW c \in calls, TestAnswer(c)
    PROVE  IInv'
<1>1. /\ c.kind = "test" /\ calls' = Rest(c) /\ EndRun(c)
      /\ pending' = pending \/ pending' = None
      /\ \/ candidate' = candidate \/ candidate' = None
         \/ /\ c.at = "passed" /\ c.owner = "mounted"
            /\ candidate' = [key |-> c.key, snapshot |-> c.snapshot]
    BY DEF TestAnswer
<1>2. SameKeys(calls', pending') /\ OneHolder(calls')
    BY <1>1, Left
<1>3. PendingOK(pending', tests, keys, mounted, CandidateSnapshot)
    BY <1>1, InFlight DEF PendingOK
<1>4. CandidateOK(candidate', tests)
    <2>1. CASE candidate' = candidate \/ candidate' = None
        BY <2>1, InFlight DEF CandidateOK
    <2>2. CASE /\ c.at = "passed" /\ c.owner = "mounted"
               /\ candidate' = [key |-> c.key, snapshot |-> c.snapshot]
        <3>1. OfTest(c, tests, keys) /\ OfPage(c, mounted, CandidateSnapshot)
            BY InFlight DEF Carried
        <3>2. /\ c.key \in DOMAIN tests /\ tests[c.key].status = "passed"
              /\ Matches(tests[c.key], c.input) /\ c.snapshot = c.input
            BY <1>1, <2>2, <3>1 DEF OfTest, OfPage
        <3>3. candidate'.key = c.key /\ candidate'.snapshot = c.snapshot
            BY <2>2
        <3> QED
            BY <3>2, <3>3 DEF CandidateOK
    <2> QED
        BY <1>1, <2>1, <2>2
<1> QED
    BY <1>1, <1>2, <1>3, <1>4, EndRunTypes, Left, InFlight, SameShown
-----------------------------------------------------------------------------
\* Every step keeps the invariant.
LEMMA NextIInv == IInv /\ [Next]_vars => IInv'
<1> SUFFICES ASSUME IInv, [Next]_vars PROVE IInv'
    OBVIOUS
<1>1. CASE User
    BY <1>1, RefreshStep, EditStep, ShowStep, LeaveStep, SaveButtons, RunTestStep, RetryTestStep,
       ChangeInputsStep, HandleSaveStep DEF User
<1>2. CASE Others
    BY <1>2, OthersStep
<1>3. ASSUME NEW k \in DOMAIN tests, EndTest(k) PROVE IInv'
    BY <1>3, EndTestStep
<1>4. ASSUME NEW c \in calls, Server(c) PROVE IInv'
    BY <1>4, SaveDraftStep, AnswersStep, StartTestStep, CheckApplyStep, ApplyStep, ReadStep DEF Server
<1>5. ASSUME NEW c \in calls, Handle(c) PROVE IInv'
    BY <1>5, RefreshAnswerStep, RefreshFailsStep, DraftSavedStep, ValidatedStep, AppliedStep,
       NotSavedStep, UploadedStep, UploadUselessStep, TestAnswerStep DEF Handle
<1>6. CASE UNCHANGED vars
    BY <1>6 DEF vars, server, entries, review, flags, IInv, TypeOK, TestsOK, CallsOK, ReviewOK,
       version, CandidateSnapshot, Yaml
<1> QED
    BY <1>1, <1>2, <1>3, <1>4, <1>5, <1>6 DEF Next

\* The invariant holds in every reachable state.
THEOREM Inductive == Spec => []IInv
<1> QED
    BY InitIInv, NextIInv, PTL DEF Spec

\* Every variable of the page and of the server keeps its type.
THEOREM TypeCorrect == Spec => []TypeOK
<1>1. IInv => TypeOK
    BY DEF IInv
<1> QED
    BY <1>1, Inductive, PTL

\* The receipt that lets the page apply is of a test that passed with what it shows.
THEOREM ReceiptInHand == Spec => []ReceiptOfShown
<1>1. IInv => ReceiptOfShown
    BY DEF IInv, ReviewOK, CandidateOK, ReceiptOfShown, CandidatePassed, CandidateSnapshot, Matches
<1> QED
    BY <1>1, Inductive, PTL

\* The steps that publish settings or give the lock back.
LEMMA ServerSteps ==
    ASSUME IInv, [Next]_vars
    PROVE  \/ \E c \in calls : Apply(c)
           \/ project' = project /\ (locked => locked')
           \/ Others /\ locked' = locked
<1>1. CASE User
    BY <1>1 DEF User, Refresh, Edit, Show, Leave, HandleSaveDraft, HandleValidate, RunTest, RetryTest,
       ChangeInputs, HandleSave, server
<1>2. CASE Others
    BY <1>2 DEF Others, OtherDraft, OtherApply, SetAvailability, ChangeDependency
<1>3. ASSUME NEW k \in DOMAIN tests, EndTest(k) PROVE project' = project /\ locked' = locked
    BY <1>3 DEF EndTest
<1>4. ASSUME NEW c \in calls, Server(c), ~Apply(c) PROVE project' = project /\ (locked => locked')
    BY <1>4 DEF Server, SaveDraft, Validate, CheckTest, StartTest, AnswerTest, CheckApply, ReadProject,
       ReadDraft, Lose, server
<1>5. ASSUME NEW c \in calls, Handle(c) PROVE project' = project /\ locked' = locked
    BY <1>5 DEF Handle, RefreshAnswer, RefreshFails, DraftSaved, Validated, Applied, NotSaved, Uploaded,
       UploadUseless, TestAnswer, EndRun, server
<1>6. CASE UNCHANGED vars
    BY <1>6 DEF vars, server
<1> QED
    BY <1>1, <1>2, <1>3, <1>4, <1>5, <1>6 DEF Next

\* Only settings that were tested with the saved draft, against the settings they
\* replace, become active (require_receipt and the lock of _apply_project_setup).
THEOREM AppliedTested == Spec => AppliedWasTested
<1>1. IInv /\ [Next]_vars =>
        [locked /\ ~locked' =>
           \E k \in DOMAIN tests :
              /\ tests[k].status = "passed"
              /\ tests[k].yaml = project' /\ tests[k].version = version
              /\ tests[k].project = project]_vars
    <2> SUFFICES ASSUME IInv, [Next]_vars, locked, ~locked'
                 PROVE  \E k \in DOMAIN tests :
                           /\ tests[k].status = "passed"
                           /\ tests[k].yaml = project' /\ tests[k].version = version
                           /\ tests[k].project = project
        OBVIOUS
    <2>1. PICK c \in calls : Apply(c)
        BY ServerSteps
    <2>2. Held(c, tests, locked, project, version) /\ OfTest(c, tests, keys)
        BY InFlight DEF Carried
    <2>3. Holds(c) /\ c.kind = "apply" /\ project' = c.input.yaml
        BY <2>1 DEF Apply, Holds
    <2>4. c.key \in DOMAIN tests /\ tests[c.key].status = "passed" /\ tests[c.key].project = project
          /\ tests[c.key].yaml = project' /\ tests[c.key].version = version
        BY <2>2, <2>3 DEF Held, OfTest, Matches
    <2> QED
        BY <2>4
<1> QED
    BY <1>1, Inductive, PTL DEF Spec, AppliedWasTested

\* An apply sets back no section that somebody else changed.
THEOREM OthersKept == Spec => OthersSettingsKept
<1>1. IInv /\ [Next]_vars => [project'.rest # project.rest => changes' # changes]_vars
    <2> SUFFICES ASSUME IInv, [Next]_vars, project'.rest # project.rest
                 PROVE  changes' # changes
        OBVIOUS
    <2>1. Others
        BY ServerSteps, ApplyStep
    <2> QED
        BY <2>1, OthersStep
<1> QED
    BY <1>1, Inductive, PTL DEF Spec, OthersSettingsKept
=============================================================================
