------------------------------ MODULE TokenStore ------------------------------
(***************************************************************************)
(* The stored OAuth token of one identity (one storage key) and the        *)
(* autobrain processes that share it: auth/storage.py, auth/oauth.py,      *)
(* auth/service.py and the opening of a connection in mcp/transport.py.    *)
(*                                                                         *)
(* The token lives in the OS keychain or in the fallback file, and an      *)
(* index file says which.  Only refresh() excludes other processes, by the *)
(* rotation lock; save, get and delete go from one place to the next with  *)
(* a lock that is local to their process, so each place is a step.  A      *)
(* rewrite of a file (flock, read, write, replace) is one step.            *)
(*                                                                         *)
(* A token stands for its refresh token: the number under which the        *)
(* provider issued it.                                                     *)
(***************************************************************************)
EXTENDS Naturals

CONSTANTS
    Procs,      \* autobrain processes; one that ended may start again
    Nobody,     \* owner of a free rotation lock
    MaxTokens   \* bound on the tokens the provider issues (state space only)

ASSUME TokenAssumption ==
    /\ Nobody \notin Procs
    /\ MaxTokens \in Nat

VARIABLES
    available,  \* keychain_available: the backend's priority is positive
    keychain,   \* the keychain's entry
    fallback,   \* the entry of oauth-tokens.json
    index,      \* "storage" of the entry of oauth-index.json, "none" without
    issued,     \* provider: tokens issued so far
    spent,      \* provider: refresh tokens replaced by a newer one
    revoked,    \* provider: refresh tokens refused as invalid_grant
    lock,       \* owner of the flock "refresh:<key>"
    pc,         \* where each process is in its command
    token,      \* the token each process works with
    mishaps     \* history: what kept the store from following the provider

store    == <<keychain, fallback, index>>
provider == <<issued, spent, revoked>>
vars     == <<available, store, provider, lock, pc, token, mishaps>>

None   == 0
Tokens == 1..issued

\* The steps of save() and delete(), and the two ways a command can report.
Saving   == {"setting", "clearing", "falling", "indexing keychain", "indexing file"}
Deleting == {"deleting", "deleting keychain", "deleting fallback", "deleting index"}
Reports  == {"logged out", "reauthorize"}
Places   == {"idle", "connected", "waiting", "locked", "posting", "reviving"}
                \cup Saving \cup Deleting \cup Reports

\* "refused": the keychain refused a write; "lost": a token that replaced
\* another never reached the store; "torn": a save was cut short between the
\* token and the index, or wrote its token behind the back of a delete.
Mishaps == {"refused", "lost", "torn"}

Goto(p, place) == pc' = [pc EXCEPT ![p] = place]
End(p) ==           \* the command is over and its token forgotten
    /\ Goto(p, "idle")
    /\ token' = [token EXCEPT ![p] = None]
Release(p)     == lock' = IF lock = p THEN Nobody ELSE lock
Note(h)        == mishaps' = mishaps \cup h

\* Where get() finds the token when the keychain can be read.
Stored == IF available /\ keychain # None THEN keychain ELSE fallback

\* What get() may return: a keychain that refuses the read leaves the fallback.
Gets(t) ==
    \/ t = Stored
    \/ available /\ fallback # None /\ t = fallback

Init ==
    /\ available \in BOOLEAN
    /\ keychain = None /\ fallback = None /\ index = "none"
    /\ issued = 0 /\ spent = {} /\ revoked = {}
    /\ lock = Nobody
    /\ pc = [p \in Procs |-> "idle"]
    /\ token = [p \in Procs |-> None]
    /\ mishaps = {}

-----------------------------------------------------------------------------
(* save() *)

BeginSave(p, t) ==
    /\ token' = [token EXCEPT ![p] = t]
    /\ Goto(p, IF available THEN "setting" ELSE "falling")

\* A write of the token that comes too late for the delete() of another process.
Overlap(p) ==
    IF \E q \in Procs \ {p} : pc[q] \in {"deleting fallback", "deleting index"}
    THEN {"torn"} ELSE {}

SetKeychain(p) ==
    /\ pc[p] = "setting"
    /\ keychain' = token[p]
    /\ Note(Overlap(p))
    /\ Goto(p, "clearing")
    /\ UNCHANGED <<available, fallback, index, provider, lock, token>>

ClearFallback(p) ==
    /\ pc[p] = "clearing"
    /\ fallback' = None
    /\ Goto(p, "indexing keychain")
    /\ UNCHANGED <<available, keychain, index, provider, lock, token, mishaps>>

KeychainRefuses(p) ==
    /\ pc[p] = "setting"
    /\ Note({"refused"})
    /\ Goto(p, "falling")
    /\ UNCHANGED <<available, store, provider, lock, token>>

WriteFallback(p) ==
    /\ pc[p] = "falling"
    /\ fallback' = token[p]
    /\ Note(Overlap(p))
    /\ Goto(p, "indexing file")
    /\ UNCHANGED <<available, keychain, index, provider, lock, token>>

UpdateIndex(p) ==
    /\ pc[p] \in {"indexing keychain", "indexing file"}
    /\ index' = IF pc[p] = "indexing file" THEN "file" ELSE "keychain"
    /\ Release(p)
    /\ End(p)
    /\ UNCHANGED <<available, keychain, fallback, provider, mishaps>>

-----------------------------------------------------------------------------
(* delete() *)

\* Variant of BeginDelete with the test on the index inverted
BeginDeleteInverted(p) ==
    /\ pc[p] = "deleting"
    /\ Goto(p, IF available /\ index = "file"
               THEN "deleting keychain" ELSE "deleting fallback")
    /\ UNCHANGED <<available, store, provider, lock, token, mishaps>>

\* The index says whether the keychain has an entry to delete.
BeginDelete(p) ==
    /\ pc[p] = "deleting"
    /\ Goto(p, IF available /\ index # "file"
               THEN "deleting keychain" ELSE "deleting fallback")
    /\ UNCHANGED <<available, store, provider, lock, token, mishaps>>

DeleteKeychain(p) ==
    /\ pc[p] = "deleting keychain"
    /\ keychain' = None
    /\ Goto(p, "deleting fallback")
    /\ UNCHANGED <<available, fallback, index, provider, lock, token, mishaps>>

\* The keychain refuses, as many do when there is no entry: an error, and the
\* index stays.
DeleteRefused(p) ==
    /\ pc[p] = "deleting keychain"
    /\ Release(p)
    /\ End(p)
    /\ UNCHANGED <<available, store, provider, mishaps>>

DropFallback(p) ==
    /\ pc[p] = "deleting fallback"
    /\ fallback' = None
    /\ Goto(p, "deleting index")
    /\ UNCHANGED <<available, keychain, index, provider, lock, token, mishaps>>

\* delete() returns to logout(), or to a refresh() that raises.
DropIndex(p) ==
    /\ pc[p] = "deleting index"
    /\ index' = "none"
    /\ Release(p)
    /\ Goto(p, IF lock = p THEN "reauthorize" ELSE "logged out")
    /\ UNCHANGED <<available, keychain, fallback, provider, token, mishaps>>

Report(p) ==
    /\ pc[p] \in Reports
    /\ End(p)
    /\ UNCHANGED <<available, store, provider, lock, mishaps>>

-----------------------------------------------------------------------------
(* authorize(), logout() and opening a connection *)

\* The whole exchange with browser and provider ends in a save() that does not
\* take the rotation lock; an exchange that fails changes nothing.
Authorize(p) ==
    /\ pc[p] = "idle"
    /\ issued < MaxTokens
    /\ issued' = issued + 1
    /\ BeginSave(p, issued + 1)
    /\ UNCHANGED <<available, store, spent, revoked, lock, mishaps>>

Logout(p) ==
    /\ pc[p] = "idle"
    /\ index # "none"
    /\ Goto(p, "deleting")
    /\ UNCHANGED <<available, store, provider, lock, token, mishaps>>

\* token_for(), when the run is set up.
Connect(p) ==
    /\ pc[p] = "idle"
    /\ index # "none"
    /\ \E t \in Tokens :
          /\ Gets(t)
          /\ token' = [token EXCEPT ![p] = t]
    /\ Goto(p, "connected")
    /\ UNCHANGED <<available, store, provider, lock, mishaps>>

\* __aenter__, when the crawl begins: a token that has not expired is used.
UseToken(p) ==
    /\ pc[p] = "connected"
    /\ End(p)
    /\ UNCHANGED <<available, store, provider, lock, mishaps>>

\* One that has expired is refreshed: what is stored now, or what token_for
\* gave when nothing is stored any more.
NeedsRefresh(p) ==
    /\ pc[p] = "connected"
    /\ \E t \in Tokens \cup {None} :
          /\ Gets(t)
          /\ token' = [token EXCEPT ![p] = IF t = None THEN @ ELSE t]
    /\ Goto(p, "waiting")
    /\ UNCHANGED <<available, store, provider, lock, mishaps>>

-----------------------------------------------------------------------------
(* refresh() *)

Acquire(p) ==
    /\ pc[p] = "waiting"
    /\ lock = Nobody
    /\ lock' = p
    /\ Goto(p, "locked")
    /\ UNCHANGED <<available, store, provider, token, mishaps>>

\* Variants of ReadAgain: one posts the record it came with, one does not fall
\* back on that record
ReadNothing(p) ==
    /\ pc[p] = "locked"
    /\ Goto(p, "posting")
    /\ UNCHANGED <<available, store, provider, lock, token, mishaps>>

\* current = get() or record: the same refresh token is posted ("reviving" a
\* record that is not stored any more).
ReadAgain(p) ==
    /\ pc[p] = "locked"
    /\ \/ Gets(token[p]) /\ Goto(p, "posting")
       \/ Gets(None) /\ Goto(p, "reviving")
    /\ UNCHANGED <<available, store, provider, lock, token, mishaps>>

\* Variant of Coalesce that keeps the lock
CoalesceLocked(p) ==
    /\ pc[p] = "locked"
    /\ \E t \in Tokens \ {token[p]} : Gets(t)
    /\ End(p)
    /\ UNCHANGED <<available, store, provider, lock, mishaps>>

\* Another process has refreshed or authorized meanwhile: its token is used.
Coalesce(p) ==
    /\ pc[p] = "locked"
    /\ \E t \in Tokens \ {token[p]} : Gets(t)
    /\ Release(p)
    /\ End(p)
    /\ UNCHANGED <<available, store, provider, mishaps>>

Posting(p) == pc[p] \in {"posting", "reviving"}
Accepted(p) == token[p] \notin spent \cup revoked

\* A new refresh token: the one that was posted is spent.
PostRotates(p) ==
    /\ Posting(p) /\ Accepted(p)
    /\ issued < MaxTokens
    /\ issued' = issued + 1
    /\ spent' = spent \cup {token[p]}
    /\ BeginSave(p, issued + 1)
    /\ UNCHANGED <<available, store, revoked, lock, mishaps>>

\* A response without refresh token keeps the prior one.
PostKeeps(p) ==
    /\ Posting(p) /\ Accepted(p)
    /\ BeginSave(p, token[p])
    /\ UNCHANGED <<available, store, provider, lock, mishaps>>

\* Variant of PostInvalid that raises and leaves the token where it is
PostInvalidKept(p) ==
    /\ Posting(p)
    /\ revoked' = revoked \cup ({token[p]} \ spent)
    /\ Release(p)
    /\ Goto(p, "reauthorize")
    /\ UNCHANGED <<available, store, issued, spent, token, mishaps>>

\* invalid_grant, for a spent or a revoked token: delete() under the lock.
PostInvalid(p) ==
    /\ Posting(p)
    /\ revoked' = revoked \cup ({token[p]} \ spent)
    /\ Goto(p, "deleting")
    /\ UNCHANGED <<available, store, issued, spent, lock, token, mishaps>>

\* Any other failure, a rejected response included: the provider may have
\* replaced the token, and nobody has the new one.
PostFails(p) ==
    /\ Posting(p)
    /\ \/ UNCHANGED <<spent, mishaps>>
       \/ /\ Accepted(p)
          /\ spent' = spent \cup {token[p]}
          /\ Note({"lost"})
    /\ Release(p)
    /\ End(p)
    /\ UNCHANGED <<available, store, issued, revoked>>

\* The process dies, or a file or an unreadable keychain ends its command.
Abort(p) ==
    /\ pc[p] # "idle"
    /\ Note(IF pc[p] \in {"setting", "falling"} /\ lock = p THEN {"lost"}
            ELSE IF pc[p] \in {"clearing", "indexing keychain", "indexing file"}
            THEN {"torn"} ELSE {})
    /\ Release(p)
    /\ End(p)
    /\ UNCHANGED <<available, store, provider>>

-----------------------------------------------------------------------------
Save(p) ==
    \/ SetKeychain(p) \/ ClearFallback(p)
    \/ KeychainRefuses(p) \/ WriteFallback(p)
    \/ UpdateIndex(p)

Delete(p) ==
    \/ BeginDelete(p)
    \/ DeleteKeychain(p) \/ DeleteRefused(p)
    \/ DropFallback(p) \/ DropIndex(p)

Post(p) == PostRotates(p) \/ PostKeeps(p) \/ PostInvalid(p) \/ PostFails(p)

Refresh(p) == Acquire(p) \/ ReadAgain(p) \/ Coalesce(p) \/ Post(p)

Command(p) ==
    \/ Authorize(p) \/ Logout(p)
    \/ Connect(p) \/ UseToken(p) \/ NeedsRefresh(p)

Next ==
    \E p \in Procs :
        Command(p) \/ Save(p) \/ Delete(p) \/ Refresh(p) \/ Report(p) \/ Abort(p)

Spec == Init /\ [][Next]_vars

-----------------------------------------------------------------------------
(* Properties *)

\* Every variable keeps its type, and who posts or saves has a token to post
\* or to save.
TypeOK ==
    /\ available \in BOOLEAN
    /\ issued \in 0..MaxTokens
    /\ keychain \in Tokens \cup {None}
    /\ fallback \in Tokens \cup {None}
    /\ index \in {"none", "keychain", "file"}
    /\ spent \subseteq Tokens
    /\ revoked \subseteq Tokens
    /\ lock \in Procs \cup {Nobody}
    /\ pc \in [Procs -> Places]
    /\ token \in [Procs -> Tokens \cup {None}]
    /\ \A p \in Procs :
          pc[p] \in {"connected", "waiting", "locked", "posting", "reviving"} \cup Saving
             => token[p] # None
    /\ mishaps \subseteq Mishaps

\* Concurrent refreshes coalesce: a token that refresh() found in the store is
\* posted at most once, however many processes hold a copy of it, because the
\* loser of the rotation lock reads again.  A stored token is never one the
\* provider has replaced, outside the refresh that is replacing it.  Only a
\* new token lost on its way, or a keychain that refused a write and still
\* answers with its old entry, may lead to a replay.
NoReplay ==
    mishaps \cap {"refused", "lost"} = {} =>
        /\ \A p \in Procs : pc[p] = "posting" => token[p] \notin spent
        /\ lock = Nobody => Stored \notin spent

\* A stored token has an entry in the index, or a save is about to write it:
\* status and logout see every token there is, in spite of authorize and
\* refresh running beside them.  The exceptions are the mishaps: a save cut
\* short, a token written behind a delete, a keychain that refused.
NoOrphanToken ==
    mishaps \cap {"refused", "torn"} = {} =>
        (Stored # None /\ index = "none" =>
            \E p \in Procs : pc[p] \in {"clearing", "indexing keychain", "indexing file"})

\* invalid_grant is terminal: when refresh() asks for a new authorization the
\* dead token is not stored any more, whatever was saved meanwhile.
DeadGrantForgotten ==
    "refused" \notin mishaps =>
        \A p \in Procs : pc[p] = "reauthorize" => Stored # token[p]

\* One process at a time is between its second look at the store and the end
\* of its save or delete, and whoever holds the rotation lock is there: every
\* way out of refresh() gives the lock back.
OneRefresher ==
    /\ \A p \in Procs : pc[p] \in {"locked", "posting", "reviving"} => lock = p
    /\ lock # Nobody =>
          pc[lock] \in {"locked", "posting", "reviving"} \cup Saving \cup Deleting

=============================================================================
