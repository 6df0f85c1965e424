--------------------------- MODULE SelfModSession ---------------------------
(***************************************************************************)
(* Self-modification sessions (lib/services/session_manager.py with the    *)
(* nami_* tools): a marker file says that a session is active, a git tag   *)
(* says where to go back to, a cache directory per session keeps the       *)
(* edited files.  All three and the working tree survive a crash.          *)
(*                                                                         *)
(* A tool runs without an await, so no other tool comes between its        *)
(* steps, but the process may die between any two of them: a tool puts its *)
(* steps into `todo`, and the first of them is taken at a time.            *)
(***************************************************************************)
EXTENDS Naturals, Sequences

CONSTANTS
  Files,          \* files below the project root
  Tracked,        \* those in the commit that the tag is on
  Editable,       \* those the whitelist of safe_edit_validator allows
  Sessions,       \* session ids, each used once
  NoSession,      \* no marker file
  MaxEdits,       \* bound on writes by the edit tool
  MaxSessCrashes  \* bound on crashes

ASSUME SessAssumption ==
  /\ Editable \subseteq Files /\ Tracked \subseteq Files
  /\ NoSession \notin Sessions
  /\ MaxEdits \in Nat /\ MaxSessCrashes \in Nat

VARIABLES
  server,      \* "down", "recovering" (recover_from_crash) or "up"
  todo,        \* the steps that are left of the tool in hand
  repo,        \* "none", "commit" (the initial snapshot) or "tag" (nami_safe_point)
  tree,        \* version of each file in the working tree; 0 is the first one
  marker,      \* .nami_change_session: the active session
  cache,       \* .nami_session_cache: per session its result and its cached files
  edits,       \* writes by the edit tool so far; each writes a version of its own
  sessCrashes, \* crashes so far
  verified,    \* history: the tree that the latest PASS has accepted
  stuck        \* history: a rollback has failed

sessVars == <<server, todo, repo, tree, marker, cache, edits, sessCrashes, verified, stuck>>

Version == 0..MaxEdits
NotCached == MaxEdits + 1
\* Nothing in the code commits after the initial snapshot; a file that came later, or
\* that git ignores, is in no commit.
Committed == [f \in Files |-> 0]
Results == {"in_progress", "passed", "rolled_back", "aborted"}
NoDir == [result |-> "none", files |-> [f \in Files |-> NotCached]]
NewDir == [NoDir EXCEPT !.result = "in_progress"]

Idle == server = "up" /\ todo = <<>>
Fresh == {s \in Sessions : cache[s] = NoDir /\ marker # s}

SessInit ==
  /\ server = "up" /\ todo = <<>>
  /\ repo \in {"none", "commit"}
  /\ tree = Committed /\ verified = Committed
  /\ marker = NoSession
  /\ cache = [s \in Sessions |-> NoDir]
  /\ edits = 0 /\ sessCrashes = 0 /\ stuck = FALSE

-----------------------------------------------------------------------------
(* The tools: each checks the marker and lays out its steps. *)

Plan(steps) ==
  /\ todo' = steps
  /\ UNCHANGED <<server, repo, tree, marker, cache, edits, sessCrashes, verified, stuck>>

\* nami_begin_session; a marker that exists is refused.
BeginSession(s) ==
  /\ Idle /\ marker = NoSession /\ s \in Fresh
  /\ Plan(<<<<"tag">>, <<"mark", s>>, <<"dir", s>>>>)

\* validate_edit_path: on the allow list of safe_edit_paths.json and not on the deny
\* list; without a readable whitelist nothing is.
EditAllowed(f) == f \in Editable

\* nami_edit_code: an active session, a whitelisted path, one occurrence of the text.
EditCode(f) ==
  /\ Idle /\ marker # NoSession /\ EditAllowed(f) /\ edits < MaxEdits
  /\ Plan(<<<<"write", f>>, <<"cache", f>>>>)

\* nami_apply_cached_file: only an active session and a cached file are asked for.
ApplyCachedFile(s, f) ==
  /\ Idle /\ marker # NoSession /\ cache[s].files[f] # NotCached
  /\ tree' = [tree EXCEPT ![f] = cache[s].files[f]]
  /\ UNCHANGED <<server, todo, repo, marker, cache, edits, sessCrashes, verified, stuck>>

\* Mutant: the marker goes first.
AbortUnmarksFirst ==
  /\ Idle /\ marker # NoSession
  /\ Plan(<<<<"unmark">>, <<"reset">>, <<"finalize", marker, "aborted">>>>)

\* nami_abort_session; the marker goes even when the rollback fails.
AbortSession ==
  /\ Idle /\ marker # NoSession
  /\ Plan(<<<<"reset">>, <<"unmark">>, <<"finalize", marker, "aborted">>>>)

\* nami_verify_session: smoke test and suite have both passed.
VerifyPass ==
  /\ Idle /\ marker # NoSession
  /\ Plan(<<<<"retag">>, <<"unmark">>, <<"finalize", marker, "passed">>>>)

\* ... one of them has failed or has timed out.
VerifyFail ==
  /\ Idle /\ marker # NoSession
  /\ Plan(<<<<"reset">>, <<"unmark">>, <<"finalize", marker, "rolled_back">>>>)

\* nami_reset_cache (one session or all, failed ones kept on demand) and the pruning
\* by age of the heartbeat; neither looks at the marker.
DropCaches ==
  /\ Idle
  /\ \E ss \in SUBSET {s \in Sessions : cache[s] # NoDir} :
       /\ cache' = [s \in Sessions |-> IF s \in ss THEN NoDir ELSE cache[s]]
  /\ UNCHANGED <<server, todo, repo, tree, marker, edits, sessCrashes, verified, stuck>>

-----------------------------------------------------------------------------
(* The steps. *)

\* The tool in hand accepts the edits.
Passing == \E i \in DOMAIN todo : todo[i][1] = "finalize" /\ todo[i][3] = "passed"
Do(step) == todo # <<>> /\ Head(todo)[1] = step /\ todo' = Tail(todo)

\* create_safe_point: git init with the initial commit if there is no repository,
\* then the tag goes to HEAD.
Tag ==
  /\ Do("tag")
  /\ repo' = "tag"
  /\ UNCHANGED <<server, tree, marker, cache, edits, sessCrashes, verified, stuck>>

\* move_safe_point_to_head: HEAD is where it was.
Retag ==
  /\ Do("retag")
  /\ UNCHANGED <<server, repo, tree, marker, cache, edits, sessCrashes, verified, stuck>>

\* create_session_marker, delete_session_marker
Mark ==
  /\ Do("mark")
  /\ marker' = Head(todo)[2]
  /\ UNCHANGED <<server, repo, tree, cache, edits, sessCrashes, verified, stuck>>

Unmark ==
  /\ Do("unmark")
  /\ marker' = NoSession
  /\ verified' = IF Passing THEN tree ELSE verified
  /\ UNCHANGED <<server, repo, tree, cache, edits, sessCrashes, stuck>>

\* init_cache_dir, finalize_cache
MakeDir ==
  /\ Do("dir")
  /\ cache' = [cache EXCEPT ![Head(todo)[2]] = NewDir]
  /\ UNCHANGED <<server, repo, tree, marker, edits, sessCrashes, verified, stuck>>

Finalize ==
  /\ Do("finalize")
  /\ LET s == Head(todo)[2] IN
     cache' = IF cache[s] = NoDir THEN cache ELSE [cache EXCEPT ![s].result = Head(todo)[3]]
  /\ UNCHANGED <<server, repo, tree, marker, edits, sessCrashes, verified, stuck>>

\* The file is written, its backup beside it; the cache follows in a step of its own.
WriteFile ==
  /\ Do("write")
  /\ edits' = edits + 1
  /\ tree' = [tree EXCEPT ![Head(todo)[2]] = edits + 1]
  /\ UNCHANGED <<server, repo, marker, cache, sessCrashes, verified, stuck>>

\* cache_edit; a session directory that was deleted is not made anew.
CacheEdit ==
  /\ Do("cache")
  /\ LET f == Head(todo)[2] IN
     cache' = IF cache[marker] = NoDir THEN cache ELSE [cache EXCEPT ![marker].files[f] = tree[f]]
  /\ UNCHANGED <<server, repo, tree, marker, edits, sessCrashes, verified, stuck>>

\* rollback_to_safe_point and the reset of recover_from_crash: git reset --hard
\* restores the tracked files and leaves the others alone, marker and cache among them.
Reset ==
  /\ Do("reset")
  /\ tree' = IF repo = "tag" THEN [f \in Files |-> IF f \in Tracked THEN Committed[f] ELSE tree[f]]
             ELSE tree
  /\ UNCHANGED <<server, repo, marker, cache, edits, sessCrashes, verified, stuck>>

\* git fails: a rollback reports it and the tool goes on to delete the marker.
ResetFails ==
  /\ Do("reset") /\ server = "up"
  /\ stuck' = TRUE
  /\ UNCHANGED <<server, repo, tree, marker, cache, edits, sessCrashes, verified>>

\* Any other step raises: the tool answers with the error, the rest is not done.
\* recover_from_crash logs the failure and leaves the marker.
StepFails ==
  /\ todo # <<>> /\ (server = "up" => Head(todo)[1] # "reset")
  /\ todo' = <<>>
  /\ UNCHANGED <<server, repo, tree, marker, cache, edits, sessCrashes, verified, stuck>>

-----------------------------------------------------------------------------
(* Crash and start. *)

SessCrash ==
  /\ server # "down" /\ sessCrashes < MaxSessCrashes
  /\ sessCrashes' = sessCrashes + 1
  /\ server' = "down" /\ todo' = <<>>
  /\ UNCHANGED <<repo, tree, marker, cache, edits, verified, stuck>>

\* Mutant: the marker is deleted before the tree is reset.
SessStartUnmarksFirst ==
  /\ server = "down"
  /\ server' = "recovering"
  /\ todo' = IF marker = NoSession THEN <<>> ELSE <<<<"unmark">>, <<"reset">>>>
  /\ UNCHANGED <<repo, tree, marker, cache, edits, sessCrashes, verified, stuck>>

\* AppInitializer.initialize: recover_from_crash comes before everything else.
SessStart ==
  /\ server = "down"
  /\ server' = "recovering"
  /\ todo' = IF marker = NoSession THEN <<>> ELSE <<<<"reset">>, <<"unmark">>>>
  /\ UNCHANGED <<repo, tree, marker, cache, edits, sessCrashes, verified, stuck>>

Recovered ==
  /\ server = "recovering" /\ todo = <<>>
  /\ server' = "up"
  /\ UNCHANGED <<todo, repo, tree, marker, cache, edits, sessCrashes, verified, stuck>>

SessNext ==
  \/ \E s \in Sessions : BeginSession(s) \/ \E f \in Files : ApplyCachedFile(s, f)
  \/ \E f \in Files : EditCode(f)
  \/ AbortSession \/ VerifyPass \/ VerifyFail \/ DropCaches
  \/ Tag \/ Retag \/ Mark \/ Unmark \/ MakeDir \/ Finalize
  \/ WriteFile \/ CacheEdit \/ Reset \/ ResetFails \/ StepFails
  \/ SessCrash \/ SessStart \/ Recovered

SessSpec == SessInit /\ [][SessNext]_sessVars

-----------------------------------------------------------------------------
(* Properties. *)

SessTypeOK ==
  /\ server \in {"down", "recovering", "up"}
  /\ repo \in {"none", "commit", "tag"}
  /\ tree \in [Files -> Version] /\ verified \in [Files -> Version]
  /\ marker \in Sessions \cup {NoSession}
  /\ \A s \in Sessions : cache[s].result \in Results \cup {"none"}
  /\ edits \in Version /\ sessCrashes \in 0..MaxSessCrashes
  /\ stuck \in BOOLEAN

\* Edits that no session watches over have passed the tests, as far as git knows the
\* files: whenever no marker is there, even in the middle of a tool or after a crash at
\* any point, the tracked files are the committed ones or those that were verified last,
\* unless git failed to roll back.  Of an untracked file nothing is promised.
Agree(t, u) == \A f \in Tracked : t[f] = u[f]
NoStrayEdits == marker = NoSession => Agree(tree, Committed) \/ Agree(tree, verified) \/ stuck

\* "nami_safe_point tag tracking the last verified-good commit": outside a session the
\* tree is the one that passed last.
VerifiedEditsSurvive == marker = NoSession /\ Idle /\ ~stuck => Agree(tree, verified)
=============================================================================
