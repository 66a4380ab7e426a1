--------------------------- MODULE Connectors_proofs ---------------------------
(***************************************************************************)
(* Safety of what a connector works with and of what it does: first of the *)
(* token store, for any number of processes and of tokens; then of a crawl *)
(* of Notion and of Slack, for any workspace, any number of tasks and any  *)
(* sequence of answers.                                                    *)
(***************************************************************************)
EXTENDS TokenStore, ConnectorCrawl, TLAPS, SequenceTheorems, FiniteSetTheorems,
        WellFoundedInduction

-----------------------------------------------------------------------------
(* The token store *)

\* Without a keychain nothing is ever in it; with one that refuses no write,
\* nothing is in the fallback file.
OnePlace ==
    /\ ~available =>
          /\ keychain = None
          /\ \A p \in Procs : pc[p] \notin {"setting", "clearing", "deleting keychain"}
    /\ available /\ "refused" \notin mishaps =>
          /\ fallback = None
          /\ \A p \in Procs : pc[p] # "falling"

\* A token that is about to be saved without the rotation lock comes from
\* authorize(): nobody else has it, in the store or in hand.
FreshGrant ==
    \A p \in Procs :
        pc[p] \in {"setting", "falling"} /\ lock # p =>
            /\ token[p] \notin {keychain, fallback}
            /\ \A q \in Procs \ {p} : token[q] # token[p]

\* No mishap of the kinds that let the store fall behind the provider.
UpToDate == mishaps \cap {"refused", "lost"} = {}

\* What is about to be posted or saved is not spent, and what is stored is
\* spent only while the refresh that spent it saves its successor.
UnspentInHand ==
    UpToDate =>
        \A p \in Procs :
            pc[p] \in {"posting", "setting", "falling"} => token[p] \notin spent

UnspentInStore ==
    UpToDate /\ Stored \in spent =>
        lock \in Procs /\ pc[lock] \in {"setting", "falling"}

IInv ==
    /\ TypeOK
    /\ OneRefresher
    /\ OnePlace
    /\ FreshGrant
    /\ UnspentInHand
    /\ UnspentInStore

\* A step of one process.
Step(p) ==
    Command(p) \/ Save(p) \/ Delete(p) \/ Refresh(p) \/ Report(p) \/ Abort(p)

-----------------------------------------------------------------------------
\* The next token of the provider is a token nobody has seen.
LEMMA NextTokenIsNew ==
    ASSUME TypeOK
    PROVE  /\ issued + 1 \notin spent
           /\ issued + 1 \notin {keychain, fallback}
           /\ \A q \in Procs : token[q] # issued + 1
<1>1. issued \in Nat
  BY TokenAssumption DEF TypeOK
<1>2. issued + 1 \notin Tokens \cup {None}
  BY <1>1 DEF Tokens, None
<1>3. \A q \in Procs : token[q] \in Tokens \cup {None}
  BY DEF TypeOK
<1> QED
  BY <1>2, <1>3 DEF TypeOK

\* Issuing it keeps the older ones.
LEMMA Issue ==
    ASSUME TypeOK, issued < MaxTokens, issued' = issued + 1
    PROVE  /\ issued' \in 0..MaxTokens
           /\ Tokens \subseteq Tokens'
           /\ issued + 1 \in Tokens'
           /\ issued + 1 # None
<1>1. issued \in Nat
  BY TokenAssumption DEF TypeOK
<1> QED
  BY <1>1, TokenAssumption DEF Tokens, None

LEMMA TokensAreSome == None \notin Tokens
  BY DEF Tokens, None

\* A step that issues a token and has it saved keeps the types.
LEMMA IssueAndSave ==
    ASSUME TypeOK, NEW p \in Procs, issued < MaxTokens, issued' = issued + 1,
           BeginSave(p, issued + 1), UNCHANGED <<available, store, revoked>>,
           spent' \subseteq Tokens, lock' = lock, mishaps' = mishaps
    PROVE  TypeOK'
<1> USE DEF TypeOK, store
<1>1. /\ issued' \in 0..MaxTokens
      /\ Tokens \subseteq Tokens'
      /\ issued + 1 \in Tokens'
      /\ issued + 1 # None
  BY Issue
<1>2. token' \in [Procs -> Tokens' \cup {None}]
  BY <1>1 DEF BeginSave
<1>3. pc' \in [Procs -> Places]
  BY DEF BeginSave, Goto, Places, Saving
<1>4. \A q \in Procs :
        pc'[q] \in {"connected", "waiting", "locked", "posting", "reviving"} \cup Saving
           => token'[q] # None
  BY <1>1 DEF BeginSave, Goto
<1>5. /\ keychain' \in Tokens' \cup {None}
      /\ fallback' \in Tokens' \cup {None}
      /\ spent' \subseteq Tokens'
      /\ revoked' \subseteq Tokens'
  BY <1>1
<1> QED
  BY <1>1, <1>2, <1>3, <1>4, <1>5

LEMMA InitInv == Init => IInv
  BY TokenAssumption
     DEF Init, IInv, TypeOK, OneRefresher, OnePlace, FreshGrant, UpToDate,
         UnspentInHand, UnspentInStore, Stored, Tokens, None, Places, Mishaps,
         Saving, Deleting, Reports

\* Every process keeps the types.
LEMMA StepType ==
    ASSUME TypeOK, NEW p \in Procs, Step(p)
    PROVE  TypeOK'
<1> USE TokenAssumption DEF TypeOK, Tokens, None, Goto, store, provider, Places, Saving, Deleting, Reports, Mishaps
<1>1. CASE SetKeychain(p)
  BY <1>1 DEF SetKeychain, Note, Overlap
<1>2. CASE ClearFallback(p)
  BY <1>2 DEF ClearFallback
<1>3. CASE KeychainRefuses(p)
  BY <1>3 DEF KeychainRefuses, Note
<1>4. CASE WriteFallback(p)
  BY <1>4 DEF WriteFallback, Note, Overlap
<1>5. CASE UpdateIndex(p)
  BY <1>5 DEF UpdateIndex, Release, End
<1>6. CASE BeginDelete(p)
  BY <1>6 DEF BeginDelete
<1>7. CASE DeleteKeychain(p)
  BY <1>7 DEF DeleteKeychain
<1>8. CASE DeleteRefused(p)
  BY <1>8 DEF DeleteRefused, Release, End
<1>9. CASE DropFallback(p)
  BY <1>9 DEF DropFallback
<1>10. CASE DropIndex(p)
  BY <1>10 DEF DropIndex, Release
<1>11. CASE Report(p)
  BY <1>11 DEF Report, End
<1>12. CASE Authorize(p)
  <2>1. UNCHANGED <<available, store, revoked>> /\ spent' \subseteq Tokens
    BY <1>12 DEF Authorize
  <2> QED
    BY <1>12, <2>1, IssueAndSave DEF Authorize
<1>13. CASE Logout(p)
  BY <1>13 DEF Logout
<1>14. CASE Connect(p)
  BY <1>14, TokensAreSome DEF Connect
<1>15. CASE UseToken(p)
  BY <1>15 DEF UseToken, End
<1>16. CASE NeedsRefresh(p)
  BY <1>16 DEF NeedsRefresh, Gets, Stored
<1>17. CASE Acquire(p)
  BY <1>17 DEF Acquire
<1>18. CASE ReadAgain(p)
  BY <1>18 DEF ReadAgain, Gets, Stored
<1>19. CASE Coalesce(p)
  BY <1>19 DEF Coalesce, Release, End
<1>20. CASE PostRotates(p)
  <2>1. UNCHANGED <<available, store, revoked>> /\ spent' \subseteq Tokens
    BY <1>20 DEF PostRotates, Posting
  <2> QED
    BY <1>20, <2>1, IssueAndSave DEF PostRotates
<1>21. CASE PostKeeps(p)
  BY <1>21 DEF PostKeeps, BeginSave, Posting, Accepted
<1>22. CASE PostInvalid(p)
  BY <1>22 DEF PostInvalid, Posting
<1>23. CASE PostFails(p)
  BY <1>23 DEF PostFails, Posting, Accepted, Note, Release, End
<1>24. CASE Abort(p)
  BY <1>24 DEF Abort, Note, Release, End
<1> QED
  BY <1>1, <1>2, <1>3, <1>4, <1>5, <1>6, <1>7, <1>8, <1>9, <1>10, <1>11, <1>12, <1>13, <1>14, <1>15, <1>16, <1>17, <1>18, <1>19, <1>20, <1>21, <1>22, <1>23, <1>24
     DEF Step, Command, Save, Delete, Refresh, Post

\* The rotation lock excludes other refreshes.
LEMMA StepOneRefresher ==
    ASSUME TypeOK, OneRefresher, NEW p \in Procs, Step(p)
    PROVE  OneRefresher'
<1> USE TokenAssumption DEF TypeOK, OneRefresher, None, Goto, store, provider, Saving, Deleting
<1>1. CASE SetKeychain(p)
  BY <1>1 DEF SetKeychain, Note, Overlap
<1>2. CASE ClearFallback(p)
  BY <1>2 DEF ClearFallback
<1>3. CASE KeychainRefuses(p)
  BY <1>3 DEF KeychainRefuses, Note
<1>4. CASE WriteFallback(p)
  BY <1>4 DEF WriteFallback, Note, Overlap
<1>5. CASE UpdateIndex(p)
  BY <1>5 DEF UpdateIndex, Release, End
<1>6. CASE BeginDelete(p)
  BY <1>6 DEF BeginDelete
<1>7. CASE DeleteKeychain(p)
  BY <1>7 DEF DeleteKeychain
<1>8. CASE DeleteRefused(p)
  BY <1>8 DEF DeleteRefused, Release, End
<1>9. CASE DropFallback(p)
  BY <1>9 DEF DropFallback
<1>10. CASE DropIndex(p)
  BY <1>10 DEF DropIndex, Release
<1>11. CASE Report(p)
  BY <1>11 DEF Report, Reports, End
<1>12. CASE Authorize(p)
  BY <1>12 DEF Authorize, BeginSave
<1>13. CASE Logout(p)
  BY <1>13 DEF Logout
<1>14. CASE Connect(p)
  BY <1>14 DEF Connect, Gets, Stored
<1>15. CASE UseToken(p)
  BY <1>15 DEF UseToken, End
<1>16. CASE NeedsRefresh(p)
  BY <1>16 DEF NeedsRefresh, Gets, Stored
<1>17. CASE Acquire(p)
  BY <1>17 DEF Acquire
<1>18. CASE ReadAgain(p)
  BY <1>18 DEF ReadAgain, Gets, Stored
<1>19. CASE Coalesce(p)
  BY <1>19 DEF Coalesce, Release, End
<1>20. CASE PostRotates(p)
  BY <1>20 DEF PostRotates, BeginSave, Posting, Accepted
<1>21. CASE PostKeeps(p)
  BY <1>21 DEF PostKeeps, BeginSave, Posting, Accepted
<1>22. CASE PostInvalid(p)
  BY <1>22 DEF PostInvalid, Posting
<1>23. CASE PostFails(p)
  BY <1>23 DEF PostFails, Posting, Accepted, Note, Release, End
<1>24. CASE Abort(p)
  BY <1>24 DEF Abort, Note, Release, End
<1> QED
  BY <1>1, <1>2, <1>3, <1>4, <1>5, <1>6, <1>7, <1>8, <1>9, <1>10, <1>11, <1>12, <1>13, <1>14, <1>15, <1>16, <1>17, <1>18, <1>19, <1>20, <1>21, <1>22, <1>23, <1>24
     DEF Step, Command, Save, Delete, Refresh, Post

\* The token stays in one place.
LEMMA StepOnePlace ==
    ASSUME TypeOK, OnePlace, NEW p \in Procs, Step(p)
    PROVE  OnePlace'
<1> USE TokenAssumption DEF TypeOK, OnePlace, None, Goto, store, provider
<1>1. CASE SetKeychain(p)
  BY <1>1 DEF SetKeychain, Note, Overlap
<1>2. CASE ClearFallback(p)
  BY <1>2 DEF ClearFallback
<1>3. CASE KeychainRefuses(p)
  BY <1>3 DEF KeychainRefuses, Note
<1>4. CASE WriteFallback(p)
  BY <1>4 DEF WriteFallback, Note, Overlap
<1>5. CASE UpdateIndex(p)
  BY <1>5 DEF UpdateIndex, Release, End
<1>6. CASE BeginDelete(p)
  BY <1>6 DEF BeginDelete
<1>7. CASE DeleteKeychain(p)
  BY <1>7 DEF DeleteKeychain
<1>8. CASE DeleteRefused(p)
  BY <1>8 DEF DeleteRefused, Release, End
<1>9. CASE DropFallback(p)
  BY <1>9 DEF DropFallback
<1>10. CASE DropIndex(p)
  BY <1>10 DEF DropIndex, Release
<1>11. CASE Report(p)
  BY <1>11 DEF Report, Reports, End
<1>12. CASE Authorize(p)
  BY <1>12 DEF Authorize, BeginSave
<1>13. CASE Logout(p)
  BY <1>13 DEF Logout
<1>14. CASE Connect(p)
  BY <1>14 DEF Connect, Gets, Stored
<1>15. CASE UseToken(p)
  BY <1>15 DEF UseToken, End
<1>16. CASE NeedsRefresh(p)
  BY <1>16 DEF NeedsRefresh, Gets, Stored
<1>17. CASE Acquire(p)
  BY <1>17 DEF Acquire
<1>18. CASE ReadAgain(p)
  BY <1>18 DEF ReadAgain, Gets, Stored
<1>19. CASE Coalesce(p)
  BY <1>19 DEF Coalesce, Release, End
<1>20. CASE PostRotates(p)
  BY <1>20 DEF PostRotates, BeginSave, Posting, Accepted
<1>21. CASE PostKeeps(p)
  BY <1>21 DEF PostKeeps, BeginSave, Posting, Accepted
<1>22. CASE PostInvalid(p)
  BY <1>22 DEF PostInvalid, Posting
<1>23. CASE PostFails(p)
  BY <1>23 DEF PostFails, Posting, Accepted, Note, Release, End
<1>24. CASE Abort(p)
  BY <1>24 DEF Abort, Note, Release, End
<1> QED
  BY <1>1, <1>2, <1>3, <1>4, <1>5, <1>6, <1>7, <1>8, <1>9, <1>10, <1>11, <1>12, <1>13, <1>14, <1>15, <1>16, <1>17, <1>18, <1>19, <1>20, <1>21, <1>22, <1>23, <1>24
     DEF Step, Command, Save, Delete, Refresh, Post

\* A fresh grant is in one hand.
LEMMA StepFreshGrant ==
    ASSUME TypeOK, OneRefresher, FreshGrant, NEW p \in Procs, Step(p)
    PROVE  FreshGrant'
<1> USE TokenAssumption DEF TypeOK, OneRefresher, FreshGrant, Tokens, None, Goto, store, provider, Saving, Deleting
<1>1. CASE SetKeychain(p)
  BY <1>1 DEF SetKeychain, Note, Overlap
<1>2. CASE ClearFallback(p)
  BY <1>2 DEF ClearFallback
<1>3. CASE KeychainRefuses(p)
  BY <1>3 DEF KeychainRefuses, Note
<1>4. CASE WriteFallback(p)
  BY <1>4 DEF WriteFallback, Note, Overlap
<1>5. CASE UpdateIndex(p)
  BY <1>5 DEF UpdateIndex, Release, End
<1>6. CASE BeginDelete(p)
  BY <1>6 DEF BeginDelete
<1>7. CASE DeleteKeychain(p)
  BY <1>7 DEF DeleteKeychain
<1>8. CASE DeleteRefused(p)
  BY <1>8 DEF DeleteRefused, Release, End
<1>9. CASE DropFallback(p)
  BY <1>9 DEF DropFallback
<1>10. CASE DropIndex(p)
  BY <1>10 DEF DropIndex, Release
<1>11. CASE Report(p)
  BY <1>11 DEF Report, Reports, End
<1>12. CASE Authorize(p)
  BY <1>12, NextTokenIsNew DEF Authorize, BeginSave
<1>13. CASE Logout(p)
  BY <1>13 DEF Logout
<1>14. CASE Connect(p)
  BY <1>14 DEF Connect, Gets, Stored
<1>15. CASE UseToken(p)
  BY <1>15 DEF UseToken, End
<1>16. CASE NeedsRefresh(p)
  <2>1. PICK t \in Tokens \cup {None} :
          /\ Gets(t)
          /\ token' = [token EXCEPT ![p] = IF t = None THEN @ ELSE t]
    BY <1>16 DEF NeedsRefresh
  <2>2. t \in {keychain, fallback}
    BY <2>1 DEF Gets, Stored
  <2>3. token'[p] \in {token[p], keychain, fallback}
    BY <2>1, <2>2
  <2>4. \A q \in Procs \ {p} : token'[q] = token[q] /\ pc'[q] = pc[q]
    BY <1>16, <2>1 DEF NeedsRefresh
  <2>5. pc'[p] = "waiting"
    BY <1>16 DEF NeedsRefresh
  <2>6. UNCHANGED <<keychain, fallback, lock>>
    BY <1>16 DEF NeedsRefresh
  <2> HIDE DEF TypeOK, OneRefresher
  <2> QED
    BY <2>3, <2>4, <2>5, <2>6
<1>17. CASE Acquire(p)
  BY <1>17 DEF Acquire
<1>18. CASE ReadAgain(p)
  BY <1>18 DEF ReadAgain, Gets, Stored
<1>19. CASE Coalesce(p)
  BY <1>19 DEF Coalesce, Release, End
<1>20. CASE PostRotates(p)
  BY <1>20, NextTokenIsNew DEF PostRotates, BeginSave, Posting
<1>21. CASE PostKeeps(p)
  BY <1>21 DEF PostKeeps, BeginSave, Posting, Accepted
<1>22. CASE PostInvalid(p)
  BY <1>22 DEF PostInvalid, Posting
<1>23. CASE PostFails(p)
  BY <1>23 DEF PostFails, Posting, Accepted, Note, Release, End
<1>24. CASE Abort(p)
  BY <1>24 DEF Abort, Note, Release, End
<1> QED
  BY <1>1, <1>2, <1>3, <1>4, <1>5, <1>6, <1>7, <1>8, <1>9, <1>10, <1>11, <1>12, <1>13, <1>14, <1>15, <1>16, <1>17, <1>18, <1>19, <1>20, <1>21, <1>22, <1>23, <1>24
     DEF Step, Command, Save, Delete, Refresh, Post

\* Spent tokens are not in hand.
LEMMA StepInHand ==
    ASSUME IInv, NEW p \in Procs, Step(p)
    PROVE  UnspentInHand'
<1> USE TokenAssumption DEF IInv, TypeOK, OneRefresher, OnePlace, FreshGrant, UnspentInHand, UnspentInStore, UpToDate, Stored, Tokens, None, Goto, store, provider, Saving, Deleting
<1>1. CASE SetKeychain(p)
  BY <1>1 DEF SetKeychain, Note, Overlap
<1>2. CASE ClearFallback(p)
  BY <1>2 DEF ClearFallback
<1>3. CASE KeychainRefuses(p)
  BY <1>3 DEF KeychainRefuses, Note
<1>4. CASE WriteFallback(p)
  BY <1>4 DEF WriteFallback, Note, Overlap
<1>5. CASE UpdateIndex(p)
  BY <1>5 DEF UpdateIndex, Release, End
<1>6. CASE BeginDelete(p)
  BY <1>6 DEF BeginDelete
<1>7. CASE DeleteKeychain(p)
  BY <1>7 DEF DeleteKeychain
<1>8. CASE DeleteRefused(p)
  BY <1>8 DEF DeleteRefused, Release, End
<1>9. CASE DropFallback(p)
  BY <1>9 DEF DropFallback
<1>10. CASE DropIndex(p)
  BY <1>10 DEF DropIndex, Release
<1>11. CASE Report(p)
  BY <1>11 DEF Report, Reports, End
<1>12. CASE Authorize(p)
  BY <1>12, NextTokenIsNew DEF Authorize, BeginSave
<1>13. CASE Logout(p)
  BY <1>13 DEF Logout
<1>14. CASE Connect(p)
  BY <1>14 DEF Connect, Gets, Stored
<1>15. CASE UseToken(p)
  BY <1>15 DEF UseToken, End
<1>16. CASE NeedsRefresh(p)
  BY <1>16 DEF NeedsRefresh, Gets, Stored
<1>17. CASE Acquire(p)
  BY <1>17 DEF Acquire
<1>18. CASE ReadAgain(p)
  BY <1>18 DEF ReadAgain, Gets, Stored
<1>19. CASE Coalesce(p)
  BY <1>19 DEF Coalesce, Release, End
<1>20. CASE PostRotates(p)
  <2>1. issued + 1 \notin spent /\ token[p] # issued + 1
    BY NextTokenIsNew
  <2>2. lock = p
    BY <1>20 DEF PostRotates, Posting
  <2>3. \A q \in Procs \ {p} :
          /\ pc[q] # "posting"
          /\ pc[q] \in {"setting", "falling"} => token[q] # token[p]
    BY <2>2
  <2> QED
    BY <1>20, <2>1, <2>3 DEF PostRotates, BeginSave
<1>21. CASE PostKeeps(p)
  BY <1>21 DEF PostKeeps, BeginSave, Posting, Accepted
<1>22. CASE PostInvalid(p)
  BY <1>22 DEF PostInvalid, Posting
<1>23. CASE PostFails(p)
  BY <1>23 DEF PostFails, Posting, Accepted, Note, Release, End
<1>24. CASE Abort(p)
  BY <1>24 DEF Abort, Note, Release, End
<1> QED
  BY <1>1, <1>2, <1>3, <1>4, <1>5, <1>6, <1>7, <1>8, <1>9, <1>10, <1>11, <1>12, <1>13, <1>14, <1>15, <1>16, <1>17, <1>18, <1>19, <1>20, <1>21, <1>22, <1>23, <1>24
     DEF Step, Command, Save, Delete, Refresh, Post

\* Spent tokens are not in the store.
LEMMA StepInStore ==
    ASSUME IInv, NEW p \in Procs, Step(p)
    PROVE  UnspentInStore'
<1> USE TokenAssumption DEF IInv, TypeOK, OneRefresher, OnePlace, FreshGrant, UnspentInHand, UnspentInStore, UpToDate, Stored, Tokens, None, Goto, store, provider, Saving, Deleting
<1>1. CASE SetKeychain(p)
  BY <1>1 DEF SetKeychain, Note, Overlap
<1>2. CASE ClearFallback(p)
  BY <1>2 DEF ClearFallback
<1>3. CASE KeychainRefuses(p)
  BY <1>3 DEF KeychainRefuses, Note
<1>4. CASE WriteFallback(p)
  BY <1>4 DEF WriteFallback, Note, Overlap
<1>5. CASE UpdateIndex(p)
  BY <1>5 DEF UpdateIndex, Release, End
<1>6. CASE BeginDelete(p)
  BY <1>6 DEF BeginDelete
<1>7. CASE DeleteKeychain(p)
  <2>1. available
    BY <1>7 DEF DeleteKeychain
  <2>2. UpToDate => fallback = None
    BY <2>1
  <2>3. UpToDate' => Stored' = None
    BY <1>7, <2>2 DEF DeleteKeychain
  <2>4. None \notin spent
    BY TokensAreSome
  <2> QED
    BY <1>7, <2>3, <2>4 DEF DeleteKeychain
<1>8. CASE DeleteRefused(p)
  BY <1>8 DEF DeleteRefused, Release, End
<1>9. CASE DropFallback(p)
  <2>1. Stored' \in {Stored, None}
    BY <1>9 DEF DropFallback
  <2>2. None \notin spent
    BY TokensAreSome
  <2> QED
    BY <1>9, <2>1, <2>2 DEF DropFallback
<1>10. CASE DropIndex(p)
  BY <1>10 DEF DropIndex, Release
<1>11. CASE Report(p)
  BY <1>11 DEF Report, Reports, End
<1>12. CASE Authorize(p)
  BY <1>12 DEF Authorize, BeginSave
<1>13. CASE Logout(p)
  BY <1>13 DEF Logout
<1>14. CASE Connect(p)
  BY <1>14 DEF Connect, Gets, Stored
<1>15. CASE UseToken(p)
  BY <1>15 DEF UseToken, End
<1>16. CASE NeedsRefresh(p)
  BY <1>16 DEF NeedsRefresh, Gets, Stored
<1>17. CASE Acquire(p)
  BY <1>17 DEF Acquire
<1>18. CASE ReadAgain(p)
  BY <1>18 DEF ReadAgain, Gets, Stored
<1>19. CASE Coalesce(p)
  BY <1>19 DEF Coalesce, Release, End
<1>20. CASE PostRotates(p)
  BY <1>20 DEF PostRotates, BeginSave, Posting, Accepted
<1>21. CASE PostKeeps(p)
  BY <1>21 DEF PostKeeps, BeginSave, Posting, Accepted
<1>22. CASE PostInvalid(p)
  BY <1>22 DEF PostInvalid, Posting
<1>23. CASE PostFails(p)
  BY <1>23 DEF PostFails, Posting, Accepted, Note, Release, End
<1>24. CASE Abort(p)
  BY <1>24 DEF Abort, Note, Release, End
<1> QED
  BY <1>1, <1>2, <1>3, <1>4, <1>5, <1>6, <1>7, <1>8, <1>9, <1>10, <1>11, <1>12, <1>13, <1>14, <1>15, <1>16, <1>17, <1>18, <1>19, <1>20, <1>21, <1>22, <1>23, <1>24
     DEF Step, Command, Save, Delete, Refresh, Post

LEMMA NextInv == IInv /\ [Next]_vars => IInv'
<1> SUFFICES ASSUME IInv, [Next]_vars PROVE IInv'
  OBVIOUS
<1>1. ASSUME NEW p \in Procs, Step(p) PROVE IInv'
  <2>1. TypeOK'
    BY <1>1, StepType DEF IInv
  <2>2. OneRefresher'
    BY <1>1, StepOneRefresher DEF IInv
  <2>3. OnePlace'
    BY <1>1, StepOnePlace DEF IInv
  <2>4. FreshGrant'
    BY <1>1, StepFreshGrant DEF IInv
  <2>5. UnspentInHand'
    BY <1>1, StepInHand
  <2>6. UnspentInStore'
    BY <1>1, StepInStore
  <2> QED
    BY <2>1, <2>2, <2>3, <2>4, <2>5, <2>6 DEF IInv
<1>2. CASE UNCHANGED vars
  BY <1>2
     DEF vars, store, provider, IInv, TypeOK, OneRefresher, OnePlace, FreshGrant,
         UpToDate, UnspentInHand, UnspentInStore, Stored, Tokens
<1> QED
  BY <1>1, <1>2 DEF Next, Step

\* The inductive invariant of the token store holds of every execution.
THEOREM Invariance == Spec => []IInv
<1>1. Init => IInv
  BY InitInv
<1>2. IInv /\ [Next]_vars => IInv'
  BY NextInv
<1> QED
  BY <1>1, <1>2, PTL DEF Spec

\* The types, for any number of processes.
THEOREM TypeCorrect == Spec => []TypeOK
<1>1. IInv => TypeOK
  BY DEF IInv
<1> QED
  BY <1>1, Invariance, PTL

\* One refresh at a time, and the lock is held by nobody else: whoever holds
\* it is inside refresh().
THEOREM RefreshesExclude == Spec => []OneRefresher
<1>1. IInv => OneRefresher
  BY DEF IInv
<1> QED
  BY <1>1, Invariance, PTL

\* No stored token is posted twice, whatever the number of processes that
\* refresh, authorize and log out.
THEOREM NoTokenIsReplayed == Spec => []NoReplay
<1>1. IInv => NoReplay
  BY TokenAssumption DEF IInv, NoReplay, UnspentInHand, UnspentInStore, UpToDate
<1> QED
  BY <1>1, Invariance, PTL
-----------------------------------------------------------------------------
(* Tokens that are forgotten, and tokens that must not be *)

\* A keychain that has refused no write is what the index names.
IndexIsKeychain ==
    available /\ "refused" \notin mishaps =>
        index # "file" /\ \A p \in Procs : pc[p] # "indexing file"

\* Tokens the provider accepts no more: no process saves one.
Dead == spent \cup revoked

DeadIsNotSaved ==
    \A p \in Procs : pc[p] \in {"setting", "falling"} => token[p] \notin Dead

\* The delete() of a refresh that was refused takes its token out of one place
\* after the other, and nobody puts it back.
DeadIsDropped ==
    "refused" \notin mishaps =>
        \A p \in Procs :
            /\ (lock = p /\ pc[p] \in Deleting) \/ pc[p] = "reauthorize" => token[p] \in Dead
            /\ lock = p /\ pc[p] = "deleting fallback" => keychain # token[p]
            /\ (lock = p /\ pc[p] = "deleting index") \/ pc[p] = "reauthorize" =>
                  Stored # token[p]

\* What a delete() has emptied stays empty until its end, or a save is torn.
EmptiedSoFar ==
    mishaps \cap {"refused", "torn"} = {} =>
        \A p \in Procs :
            /\ pc[p] \in {"deleting fallback", "deleting index"} => keychain = None
            /\ pc[p] = "deleting index" => fallback = None

ForgettingInv ==
    /\ IInv
    /\ IndexIsKeychain
    /\ DeadIsNotSaved
    /\ DeadIsDropped
    /\ EmptiedSoFar
    /\ NoOrphanToken

\* The next token of the provider is accepted, and nobody works with it.
LEMMA NextIsAlive ==
    ASSUME TypeOK
    PROVE  /\ issued + 1 \notin Dead
           /\ \A q \in Procs : token[q] # issued + 1
<1>1. issued \in Nat
  BY TokenAssumption DEF TypeOK
<1>2. issued + 1 \notin Tokens
  BY <1>1 DEF Tokens
<1> QED
  BY <1>2, NextTokenIsNew DEF TypeOK, Dead

LEMMA DeadIsSome ==
    ASSUME TypeOK
    PROVE  None \notin Dead
BY TokensAreSome DEF TypeOK, Dead

\* A keychain that refuses nothing is what the index keeps naming.
LEMMA StepIndex ==
    ASSUME TypeOK, OnePlace, IndexIsKeychain, NEW p \in Procs, Step(p)
    PROVE  IndexIsKeychain'
<1> USE TokenAssumption DEF TypeOK, OnePlace, IndexIsKeychain, None, Goto, store, provider
<1>1. CASE SetKeychain(p)
  BY <1>1 DEF SetKeychain, Note, Overlap
<1>2. CASE ClearFallback(p)
  BY <1>2 DEF ClearFallback
<1>3. CASE KeychainRefuses(p)
  BY <1>3 DEF KeychainRefuses, Note
<1>4. CASE WriteFallback(p)
  BY <1>4 DEF WriteFallback, Note, Overlap
<1>5. CASE UpdateIndex(p)
  BY <1>5 DEF UpdateIndex, Release, End
<1>6. CASE BeginDelete(p)
  BY <1>6 DEF BeginDelete
<1>7. CASE DeleteKeychain(p)
  BY <1>7 DEF DeleteKeychain
<1>8. CASE DeleteRefused(p)
  BY <1>8 DEF DeleteRefused, Release, End
<1>9. CASE DropFallback(p)
  BY <1>9 DEF DropFallback
<1>10. CASE DropIndex(p)
  BY <1>10 DEF DropIndex, Release
<1>11. CASE Report(p)
  BY <1>11 DEF Report, Reports, End
<1>12. CASE Authorize(p)
  BY <1>12, NextIsAlive DEF Authorize, BeginSave
<1>13. CASE Logout(p)
  BY <1>13 DEF Logout
<1>14. CASE Connect(p)
  BY <1>14 DEF Connect, Gets, Stored
<1>15. CASE UseToken(p)
  BY <1>15 DEF UseToken, End
<1>16. CASE NeedsRefresh(p)
  BY <1>16 DEF NeedsRefresh, Gets, Stored
<1>17. CASE Acquire(p)
  BY <1>17 DEF Acquire
<1>18. CASE ReadAgain(p)
  BY <1>18 DEF ReadAgain, Gets, Stored
<1>19. CASE Coalesce(p)
  BY <1>19 DEF Coalesce, Release, End
<1>20. CASE PostRotates(p)
  BY <1>20, NextIsAlive DEF PostRotates, BeginSave, Posting, Accepted
<1>21. CASE PostKeeps(p)
  BY <1>21 DEF PostKeeps, BeginSave, Posting, Accepted
<1>22. CASE PostInvalid(p)
  BY <1>22 DEF PostInvalid, Posting
<1>23. CASE PostFails(p)
  BY <1>23 DEF PostFails, Posting, Accepted, Note, Release, End
<1>24. CASE Abort(p)
  BY <1>24 DEF Abort, Note, Release, End
<1> QED
  BY <1>1, <1>2, <1>3, <1>4, <1>5, <1>6, <1>7, <1>8, <1>9, <1>10, <1>11, <1>12, <1>13, <1>14, <1>15, <1>16, <1>17, <1>18, <1>19, <1>20, <1>21, <1>22, <1>23, <1>24
     DEF Step, Command, Save, Delete, Refresh, Post

\* Only the holder of the lock has a token the provider may come to refuse.
LEMMA StepDeadNotSaved ==
    ASSUME TypeOK, OneRefresher, FreshGrant, DeadIsNotSaved, NEW p \in Procs, Step(p)
    PROVE  DeadIsNotSaved'
<1> USE TokenAssumption DEF TypeOK, OneRefresher, FreshGrant, DeadIsNotSaved, Dead, None, Goto, store, provider, Saving, Deleting
<1>1. CASE SetKeychain(p)
  BY <1>1 DEF SetKeychain, Note, Overlap
<1>2. CASE ClearFallback(p)
  BY <1>2 DEF ClearFallback
<1>3. CASE KeychainRefuses(p)
  BY <1>3 DEF KeychainRefuses, Note
<1>4. CASE WriteFallback(p)
  BY <1>4 DEF WriteFallback, Note, Overlap
<1>5. CASE UpdateIndex(p)
  BY <1>5 DEF UpdateIndex, Release, End
<1>6. CASE BeginDelete(p)
  BY <1>6 DEF BeginDelete
<1>7. CASE DeleteKeychain(p)
  BY <1>7 DEF DeleteKeychain
<1>8. CASE DeleteRefused(p)
  BY <1>8 DEF DeleteRefused, Release, End
<1>9. CASE DropFallback(p)
  BY <1>9 DEF DropFallback
<1>10. CASE DropIndex(p)
  BY <1>10 DEF DropIndex, Release
<1>11. CASE Report(p)
  BY <1>11 DEF Report, Reports, End
<1>12. CASE Authorize(p)
  BY <1>12, NextIsAlive DEF Authorize, BeginSave
<1>13. CASE Logout(p)
  BY <1>13 DEF Logout
<1>14. CASE Connect(p)
  BY <1>14 DEF Connect, Gets, Stored
<1>15. CASE UseToken(p)
  BY <1>15 DEF UseToken, End
<1>16. CASE NeedsRefresh(p)
  BY <1>16 DEF NeedsRefresh, Gets, Stored
<1>17. CASE Acquire(p)
  BY <1>17 DEF Acquire
<1>18. CASE ReadAgain(p)
  BY <1>18 DEF ReadAgain, Gets, Stored
<1>19. CASE Coalesce(p)
  BY <1>19 DEF Coalesce, Release, End
<1>20. CASE PostRotates(p)
  BY <1>20, NextIsAlive DEF PostRotates, BeginSave, Posting, Accepted
<1>21. CASE PostKeeps(p)
  BY <1>21 DEF PostKeeps, BeginSave, Posting, Accepted
<1>22. CASE PostInvalid(p)
  BY <1>22 DEF PostInvalid, Posting
<1>23. CASE PostFails(p)
  BY <1>23 DEF PostFails, Posting, Accepted, Note, Release, End
<1>24. CASE Abort(p)
  BY <1>24 DEF Abort, Note, Release, End
<1> QED
  BY <1>1, <1>2, <1>3, <1>4, <1>5, <1>6, <1>7, <1>8, <1>9, <1>10, <1>11, <1>12, <1>13, <1>14, <1>15, <1>16, <1>17, <1>18, <1>19, <1>20, <1>21, <1>22, <1>23, <1>24
     DEF Step, Command, Save, Delete, Refresh, Post

\* A refused token leaves the store place by place.
LEMMA StepDropped ==
    ASSUME ForgettingInv, NEW p \in Procs, Step(p)
    PROVE  DeadIsDropped'
<1> USE TokenAssumption DEF ForgettingInv, IInv, TypeOK, OneRefresher, OnePlace, IndexIsKeychain, DeadIsNotSaved, DeadIsDropped, Dead, Stored, Tokens, None, Goto, store, provider, Saving, Deleting
<1>1. CASE SetKeychain(p)
  BY <1>1 DEF SetKeychain, Note, Overlap
<1>2. CASE ClearFallback(p)
  BY <1>2 DEF ClearFallback
<1>3. CASE KeychainRefuses(p)
  BY <1>3 DEF KeychainRefuses, Note
<1>4. CASE WriteFallback(p)
  BY <1>4 DEF WriteFallback, Note, Overlap
<1>5. CASE UpdateIndex(p)
  BY <1>5 DEF UpdateIndex, Release, End
<1>6. CASE BeginDelete(p)
  <2>1. \A q \in Procs :
          \/ q # p /\ pc'[q] = pc[q]
          \/ /\ q = p /\ pc[p] = "deleting"
             /\ pc'[p] \in {"deleting keychain", "deleting fallback"}
             /\ pc'[p] = "deleting fallback" => ~available \/ index = "file"
    BY <1>6 DEF BeginDelete
  <2>2. UNCHANGED <<available, keychain, fallback, spent, revoked, lock, token, mishaps>>
    BY <1>6 DEF BeginDelete
  <2>3. "refused" \notin mishaps /\ pc'[p] = "deleting fallback" => keychain = None
    BY <2>1
  <2>4. None \notin Dead
    BY DeadIsSome
  <2> QED
    BY <2>1, <2>2, <2>3, <2>4
<1>7. CASE DeleteKeychain(p)
  <2>1. available /\ ("refused" \notin mishaps => fallback = None)
    BY <1>7 DEF DeleteKeychain
  <2>2. "refused" \notin mishaps => keychain' = None /\ Stored' = None
    BY <1>7, <2>1 DEF DeleteKeychain
  <2>3. \A q \in Procs :
          \/ q # p /\ pc'[q] = pc[q]
          \/ q = p /\ pc[p] = "deleting keychain" /\ pc'[p] = "deleting fallback"
    BY <1>7 DEF DeleteKeychain
  <2>4. None \notin Dead
    BY DeadIsSome
  <2>5. UNCHANGED <<spent, revoked, lock, token, mishaps>>
    BY <1>7 DEF DeleteKeychain
  <2> QED
    BY <2>2, <2>3, <2>4, <2>5
<1>8. CASE DeleteRefused(p)
  BY <1>8 DEF DeleteRefused, Release, End
<1>9. CASE DropFallback(p)
  <2>1. Stored' \in {Stored, None} /\ Stored' \in {keychain, None}
    BY <1>9 DEF DropFallback
  <2>2. \A q \in Procs :
          \/ q # p /\ pc'[q] = pc[q]
          \/ q = p /\ pc[p] = "deleting fallback" /\ pc'[p] = "deleting index"
    BY <1>9 DEF DropFallback
  <2>3. None \notin Dead
    BY DeadIsSome
  <2>4. UNCHANGED <<keychain, spent, revoked, lock, token, mishaps>>
    BY <1>9 DEF DropFallback
  <2> HIDE DEF Stored
  <2> QED
    BY <2>1, <2>2, <2>3, <2>4
<1>10. CASE DropIndex(p)
  BY <1>10 DEF DropIndex, Release
<1>11. CASE Report(p)
  BY <1>11 DEF Report, Reports, End
<1>12. CASE Authorize(p)
  BY <1>12, NextIsAlive DEF Authorize, BeginSave
<1>13. CASE Logout(p)
  BY <1>13 DEF Logout
<1>14. CASE Connect(p)
  BY <1>14 DEF Connect, Gets
<1>15. CASE UseToken(p)
  BY <1>15 DEF UseToken, End
<1>16. CASE NeedsRefresh(p)
  BY <1>16 DEF NeedsRefresh, Gets
<1>17. CASE Acquire(p)
  BY <1>17 DEF Acquire
<1>18. CASE ReadAgain(p)
  BY <1>18 DEF ReadAgain, Gets
<1>19. CASE Coalesce(p)
  BY <1>19 DEF Coalesce, Release, End
<1>20. CASE PostRotates(p)
  BY <1>20, NextIsAlive DEF PostRotates, BeginSave, Posting, Accepted
<1>21. CASE PostKeeps(p)
  BY <1>21 DEF PostKeeps, BeginSave, Posting, Accepted
<1>22. CASE PostInvalid(p)
  BY <1>22 DEF PostInvalid, Posting
<1>23. CASE PostFails(p)
  BY <1>23 DEF PostFails, Posting, Accepted, Note, Release, End
<1>24. CASE Abort(p)
  BY <1>24 DEF Abort, Note, Release, End
<1> QED
  BY <1>1, <1>2, <1>3, <1>4, <1>5, <1>6, <1>7, <1>8, <1>9, <1>10, <1>11, <1>12, <1>13, <1>14, <1>15, <1>16, <1>17, <1>18, <1>19, <1>20, <1>21, <1>22, <1>23, <1>24
     DEF Step, Command, Save, Delete, Refresh, Post

\* What a delete() has emptied stays empty.
LEMMA StepEmptied ==
    ASSUME ForgettingInv, NEW p \in Procs, Step(p)
    PROVE  EmptiedSoFar'
<1> USE TokenAssumption DEF ForgettingInv, IInv, TypeOK, OnePlace, IndexIsKeychain, EmptiedSoFar, None, Goto, store, provider, Deleting
<1>1. CASE SetKeychain(p)
  BY <1>1 DEF SetKeychain, Note, Overlap
<1>2. CASE ClearFallback(p)
  BY <1>2 DEF ClearFallback
<1>3. CASE KeychainRefuses(p)
  BY <1>3 DEF KeychainRefuses, Note
<1>4. CASE WriteFallback(p)
  BY <1>4 DEF WriteFallback, Note, Overlap
<1>5. CASE UpdateIndex(p)
  BY <1>5 DEF UpdateIndex, Release, End
<1>6. CASE BeginDelete(p)
  BY <1>6 DEF BeginDelete
<1>7. CASE DeleteKeychain(p)
  BY <1>7 DEF DeleteKeychain
<1>8. CASE DeleteRefused(p)
  BY <1>8 DEF DeleteRefused, Release, End
<1>9. CASE DropFallback(p)
  BY <1>9 DEF DropFallback
<1>10. CASE DropIndex(p)
  BY <1>10 DEF DropIndex, Release
<1>11. CASE Report(p)
  BY <1>11 DEF Report, Reports, End
<1>12. CASE Authorize(p)
  BY <1>12, NextIsAlive DEF Authorize, BeginSave
<1>13. CASE Logout(p)
  BY <1>13 DEF Logout
<1>14. CASE Connect(p)
  BY <1>14 DEF Connect, Gets, Stored
<1>15. CASE UseToken(p)
  BY <1>15 DEF UseToken, End
<1>16. CASE NeedsRefresh(p)
  BY <1>16 DEF NeedsRefresh, Gets, Stored
<1>17. CASE Acquire(p)
  BY <1>17 DEF Acquire
<1>18. CASE ReadAgain(p)
  BY <1>18 DEF ReadAgain, Gets, Stored
<1>19. CASE Coalesce(p)
  BY <1>19 DEF Coalesce, Release, End
<1>20. CASE PostRotates(p)
  BY <1>20, NextIsAlive DEF PostRotates, BeginSave, Posting, Accepted
<1>21. CASE PostKeeps(p)
  BY <1>21 DEF PostKeeps, BeginSave, Posting, Accepted
<1>22. CASE PostInvalid(p)
  BY <1>22 DEF PostInvalid, Posting
<1>23. CASE PostFails(p)
  BY <1>23 DEF PostFails, Posting, Accepted, Note, Release, End
<1>24. CASE Abort(p)
  BY <1>24 DEF Abort, Note, Release, End
<1> QED
  BY <1>1, <1>2, <1>3, <1>4, <1>5, <1>6, <1>7, <1>8, <1>9, <1>10, <1>11, <1>12, <1>13, <1>14, <1>15, <1>16, <1>17, <1>18, <1>19, <1>20, <1>21, <1>22, <1>23, <1>24
     DEF Step, Command, Save, Delete, Refresh, Post

\* A token stays known to the index, or to the save that will write it.
LEMMA StepOrphan ==
    ASSUME ForgettingInv, NEW p \in Procs, Step(p)
    PROVE  NoOrphanToken'
<1> USE TokenAssumption DEF ForgettingInv, IInv, TypeOK, OnePlace, IndexIsKeychain, EmptiedSoFar, NoOrphanToken, Stored, None, Goto, store, provider
<1>1. CASE SetKeychain(p)
  BY <1>1 DEF SetKeychain, Note, Overlap
<1>2. CASE ClearFallback(p)
  BY <1>2 DEF ClearFallback
<1>3. CASE KeychainRefuses(p)
  BY <1>3 DEF KeychainRefuses, Note
<1>4. CASE WriteFallback(p)
  BY <1>4 DEF WriteFallback, Note, Overlap
<1>5. CASE UpdateIndex(p)
  BY <1>5 DEF UpdateIndex, Release, End
<1>6. CASE BeginDelete(p)
  BY <1>6 DEF BeginDelete
<1>7. CASE DeleteKeychain(p)
  BY <1>7 DEF DeleteKeychain
<1>8. CASE DeleteRefused(p)
  BY <1>8 DEF DeleteRefused, Release, End
<1>9. CASE DropFallback(p)
  BY <1>9 DEF DropFallback
<1>10. CASE DropIndex(p)
  BY <1>10 DEF DropIndex, Release
<1>11. CASE Report(p)
  BY <1>11 DEF Report, Reports, End
<1>12. CASE Authorize(p)
  BY <1>12, NextIsAlive DEF Authorize, BeginSave
<1>13. CASE Logout(p)
  BY <1>13 DEF Logout
<1>14. CASE Connect(p)
  BY <1>14 DEF Connect, Gets
<1>15. CASE UseToken(p)
  BY <1>15 DEF UseToken, End
<1>16. CASE NeedsRefresh(p)
  BY <1>16 DEF NeedsRefresh, Gets
<1>17. CASE Acquire(p)
  BY <1>17 DEF Acquire
<1>18. CASE ReadAgain(p)
  BY <1>18 DEF ReadAgain, Gets
<1>19. CASE Coalesce(p)
  BY <1>19 DEF Coalesce, Release, End
<1>20. CASE PostRotates(p)
  BY <1>20, NextIsAlive DEF PostRotates, BeginSave, Posting, Accepted
<1>21. CASE PostKeeps(p)
  BY <1>21 DEF PostKeeps, BeginSave, Posting, Accepted
<1>22. CASE PostInvalid(p)
  BY <1>22 DEF PostInvalid, Posting
<1>23. CASE PostFails(p)
  BY <1>23 DEF PostFails, Posting, Accepted, Note, Release, End
<1>24. CASE Abort(p)
  BY <1>24 DEF Abort, Note, Release, End
<1> QED
  BY <1>1, <1>2, <1>3, <1>4, <1>5, <1>6, <1>7, <1>8, <1>9, <1>10, <1>11, <1>12, <1>13, <1>14, <1>15, <1>16, <1>17, <1>18, <1>19, <1>20, <1>21, <1>22, <1>23, <1>24
     DEF Step, Command, Save, Delete, Refresh, Post

LEMMA ForgettingNext == ForgettingInv /\ [Next]_vars => ForgettingInv'
<1> SUFFICES ASSUME ForgettingInv, [Next]_vars PROVE ForgettingInv'
  OBVIOUS
<1>1. IInv'
  BY NextInv DEF ForgettingInv
<1>2. ASSUME NEW p \in Procs, Step(p) PROVE ForgettingInv'
  <2>1. IndexIsKeychain'
    BY <1>2, StepIndex DEF ForgettingInv, IInv
  <2>2. DeadIsNotSaved'
    BY <1>2, StepDeadNotSaved DEF ForgettingInv, IInv
  <2>3. DeadIsDropped'
    BY <1>2, StepDropped
  <2>4. EmptiedSoFar'
    BY <1>2, StepEmptied
  <2>5. NoOrphanToken'
    BY <1>2, StepOrphan
  <2> QED
    BY <1>1, <2>1, <2>2, <2>3, <2>4, <2>5 DEF ForgettingInv
<1>3. CASE UNCHANGED vars
  BY <1>1, <1>3
     DEF vars, store, provider, ForgettingInv, IndexIsKeychain, DeadIsNotSaved, Dead,
         DeadIsDropped, EmptiedSoFar, NoOrphanToken, Stored
<1> QED
  BY <1>2, <1>3 DEF Next, Step

\* So does the one about what is forgotten.
THEOREM ForgettingInvariance == Spec => []ForgettingInv
<1>1. Init => ForgettingInv
  <2> SUFFICES ASSUME Init PROVE ForgettingInv
    OBVIOUS
  <2>1. IInv
    BY InitInv
  <2> QED
    BY <2>1, TokenAssumption
       DEF Init, Deleting, None, ForgettingInv, IndexIsKeychain, DeadIsNotSaved, DeadIsDropped,
           EmptiedSoFar, NoOrphanToken, Stored
<1>2. ForgettingInv /\ [Next]_vars => ForgettingInv'
  BY ForgettingNext
<1> QED
  BY <1>1, <1>2, PTL DEF Spec

\* Every stored token is in the index or about to be, whatever the number of
\* processes that save and delete side by side: logout and status miss none.
THEOREM NoTokenIsOrphaned == Spec => []NoOrphanToken
<1>1. ForgettingInv => NoOrphanToken
  BY DEF ForgettingInv
<1> QED
  BY <1>1, ForgettingInvariance, PTL

\* Whoever is told to authorize again finds the refused token gone from the
\* store, although other processes authorize, refresh and log out meanwhile.
THEOREM DeadGrantsAreForgotten == Spec => []DeadGrantForgotten
<1>1. ForgettingInv => DeadGrantForgotten
  BY DEF ForgettingInv, DeadIsDropped, DeadGrantForgotten
<1> QED
  BY <1>1, ForgettingInvariance, PTL

-----------------------------------------------------------------------------
(* What a claimed coverage of Notion rests on *)

EntityIds == UNION {ToSet(ids) : ids \in Results}
BlockIds  == UNION {ToSet(ids) : ids \in Unknowns}

NotionType ==
    /\ npc \in {"identity", "search", "entities", "blocks", "over", "raised"}
    /\ discovered \in Seq(EntityIds)
    /\ entity \in 1..(Len(discovered) + 1)
    /\ pending \in Seq(BlockIds)
    /\ documents \in Seq([id : EntityIds, text : Seq(BlockIds)])
    /\ told \in Seq([named : SUBSET BlockIds, cut : BOOLEAN])
    /\ Len(told) = Len(documents)
    /\ counters \in [{"discovered", "fetched", "denied", "truncated", "unsupported"} -> Nat]
    /\ npc \in {"identity", "search"} =>
          entity = 1 /\ documents = <<>> /\ counters.denied = 0
    /\ npc = "blocks" => entity <= Len(discovered) /\ documents # <<>>

\* The counter that Return looks at
Unharmed == counters.unsupported = 0

SearchedOut ==
    Unharmed /\ npc \in {"entities", "blocks", "over"} => cursor = none

\* The entities that have a document or are denied: those before the one at hand,
\* and it, too, while its blocks are read.
Handled == IF npc = "blocks" THEN Seen \cup {Current} ELSE Seen

OneDocumentEach ==
    npc # "raised" =>
        /\ IsFiniteSet(Handled)
        /\ Len(documents) + counters.denied = Cardinality(Handled)
        /\ \A d \in DOMAIN documents : documents[d].id \in Handled
        /\ \A d, e \in DOMAIN documents : documents[d].id = documents[e].id => d = e

\* What a document was told of it has, or has pending.
NamedIsRead ==
    Unharmed /\ npc # "raised" =>
        \A d \in DOMAIN documents :
            LET text == documents[d].text IN
            /\ ~told[d].cut
            /\ IsInjective(text)
            /\ IF npc = "blocks" /\ d = Len(documents)
               THEN ToSet(text) = visited /\ told[d].named = visited \cup ToSet(pending)
               ELSE ToSet(text) = told[d].named

ClaimIsCounted ==
    npc = "over" => entity > Len(discovered) /\ (completeness = "UNKNOWN" \/ Unharmed)

NotionInv == NotionType /\ SearchedOut /\ OneDocumentEach /\ NamedIsRead /\ ClaimIsCounted

\* A coverage that is recorded is that of a crawler that returned.
RecordIsReturned ==
    /\ source \in {slack, notion}
    /\ record # none =>
          record = "UNKNOWN" \/ (source = notion /\ npc = "over" /\ Unharmed)

-----------------------------------------------------------------------------
(* What the status OK and the marks of Slack rest on *)

TaskPlaces == {"idle", "history", "messages", "items", "reading", "thread", "over", "interrupted"}

SlackType ==
    /\ DOMAIN at = Tasks /\ DOMAIN sent = Tasks /\ DOMAIN retries = Tasks
    /\ DOMAIN page = Tasks
    /\ DOMAIN got = Channels /\ DOMAIN replies = Channels
    /\ DOMAIN cut = Channels /\ DOMAIN seen = Channels /\ DOMAIN docs = Channels
    /\ turn \in [Channels -> [message : Nat \ {0}, item : Nat \ {0}]]
    /\ ledger \in [Channels -> [Surfaces -> [Counters -> Nat]]]
    /\ partial \in BOOLEAN /\ interrupted \in BOOLEAN

\* Where the task of a channel is in its lists.
Placed(c) ==
    /\ at[c] \in TaskPlaces
    /\ got[c] \in Seq(Posted(c))
    /\ cut[c] \in BOOLEAN
    /\ at[c] \in {"idle", "history"} =>
          /\ docs[c] = {} /\ seen[c] = {} /\ ~cut[c]
          /\ turn[c] = [message |-> 1, item |-> 1]
    /\ at[c] = "idle" => page[c] = 1 /\ got[c] = <<>>
    /\ at[c] = "history" =>
          page[c] \in DOMAIN History[c] /\ got[c] = Joined(History[c], page[c] - 1)
    /\ at[c] = "messages" => turn[c].item = 1
    /\ at[c] \in {"items", "reading", "thread"} => turn[c].message \in DOMAIN got[c]
    /\ at[c] = "reading" => turn[c].item \in DOMAIN Message(c).items
    /\ at[c] = "thread" =>
          /\ turn[c].item > Len(Message(c).items)
          /\ Message(c).replies # <<>>
          /\ page[c] \in DOMAIN Message(c).replies
          /\ replies[c] = Joined(Message(c).replies, page[c] - 1)

\* The ledger tells that something of this kind was lost.
Lost(c, s) == ledger[c][s].truncated > 0

\* What is lost is told by a flag and counted where the marks look for it.
LossIsTold(c) ==
    /\ cut[c] => partial /\ Lost(c, "message")
    /\ Lost(c, "thread_reply") => partial
    /\ at[c] = "interrupted" => partial

\* A history that was not cut short is whole.
ReadToTheEnd(c) ==
    docs[c] # {} \/ at[c] \in {"messages", "items", "reading", "thread"} =>
        cut[c] \/ got[c] = Everything(c)

RepliesAreWhole(c, m) == \A r \in AllReplies(m) : Whole(c, r.id, "thread_reply")

MarkHolds(c, d) ==
    IF d.surface # "thread_reply" THEN d.partial = cut[c]
    ELSE IF d.partial THEN Lost(c, "thread_reply")
    ELSE \A m \in ToSet(got[c]) : m.id = d.root => RepliesAreWhole(c, m)

MarksHold(c) == \A d \in docs[c] : MarkHolds(c, d)

MessageIsWhole(c, m) ==
    /\ Whole(c, m.id, "message")
    /\ \A item \in Texts(m) : Whole(c, item.id, item.surface)
    /\ RepliesAreWhole(c, m)

\* As long as nothing was lost, what the task has passed is whole.
PassedIsWhole(c) ==
    ~partial =>
        /\ at[c] = "over" => turn[c].message > Len(got[c]) /\ got[c] = Everything(c)
        /\ \A i \in DOMAIN got[c] : i < turn[c].message => MessageIsWhole(c, got[c][i])
        /\ at[c] \in {"items", "reading", "thread"} =>
              /\ Whole(c, Message(c).id, "message")
              /\ \A j \in DOMAIN Message(c).items :
                    j < turn[c].item /\ Message(c).items[j].text =>
                        Whole(c, Message(c).items[j].id, Message(c).items[j].surface)
        /\ \A m \in Posted(c) : \A item \in Texts(m) :
              Key(item) \in seen[c] =>
                  \/ Whole(c, item.id, item.surface)
                  \/ at[c] = "reading" /\ Key(Item(c)) = Key(item)

ChannelInv(c) ==
    Placed(c) /\ LossIsTold(c) /\ ReadToTheEnd(c) /\ MarksHold(c) /\ PassedIsWhole(c)

\* The task of crawl(): every channel that may be read has a task.
Listed ==
    /\ at[Main] \in {"new", "listing", "crawling", "over"}
    /\ at[Main] \in {"new", "listing"} => \A c \in Channels : at[c] = "idle"
    /\ at[Main] = "new" => page[Main] = 1 /\ found = {}
    /\ at[Main] = "listing" =>
          /\ page[Main] \in DOMAIN Listing
          /\ found = UNION {Ids(Listing[i]) : i \in 1..(page[Main] - 1)}
    /\ at[Main] = "crawling" => \A c \in Channels : Readable(c) => at[c] # "idle"
    /\ interrupted => partial

\* Where status OK is given
OkIsClean ==
    result = "OK" =>
        ~partial /\ \A c \in Channels : Readable(c) => at[c] = "over"

SlackInv == SlackType /\ (\A c \in Channels : ChannelInv(c)) /\ Listed /\ OkIsClean

-----------------------------------------------------------------------------
(* Sequences and their elements *)

\* The elements of a sequence, one by one
LEMMA Elements ==
    \A s : \A x : x \in ToSet(s) <=> \E i \in DOMAIN s : s[i] = x
BY DEF ToSet

\* What a sequence has after one more element
LEMMA SetOfAppend ==
    ASSUME NEW S, NEW s \in Seq(S), NEW x \in S
    PROVE  /\ Append(s, x) \in Seq(S)
           /\ ToSet(Append(s, x)) = ToSet(s) \cup {x}
<1> DEFINE w == Append(s, x)
           len == Len(s)
<1>1. /\ w \in Seq(S) /\ DOMAIN w = 1..(len + 1) /\ DOMAIN s = 1..len /\ len \in Nat
      /\ w[len + 1] = x /\ \A i \in 1..len : w[i] = s[i]
  BY AppendProperties
<1> HIDE DEF w
<1>2. ToSet(w) = ToSet(s) \cup {x}
  BY <1>1 DEF ToSet
<1> QED BY <1>1, <1>2 DEF w

\* What two sequences have, joined
LEMMA SetOfConcat ==
    ASSUME NEW S, NEW s \in Seq(S), NEW t \in Seq(S)
    PROVE  /\ s \o t \in Seq(S)
           /\ ToSet(s \o t) = ToSet(s) \cup ToSet(t)
<1> DEFINE w == s \o t
           n == Len(s)
           k == Len(t)
<1>1. /\ w \in Seq(S) /\ DOMAIN w = 1..(n + k) /\ DOMAIN s = 1..n /\ DOMAIN t = 1..k
      /\ n \in Nat /\ k \in Nat
      /\ \A i \in 1..(n + k) : w[i] = IF i <= n THEN s[i] ELSE t[i - n]
  BY ConcatProperties
<1>2. ASSUME NEW i \in 1..k PROVE n + i \in 1..(n + k) /\ w[n + i] = t[i]
  <2>1. n + i \in 1..(n + k) /\ ~(n + i <= n) /\ (n + i) - n = i
    BY <1>1
  <2> QED BY <1>1, <2>1
<1>3. \A i \in 1..n : i \in 1..(n + k) /\ w[i] = s[i]
  BY <1>1
<1>4. \A i \in 1..(n + k) : i > n => i - n \in 1..k /\ w[i] = t[i - n]
  BY <1>1
<1> HIDE DEF w
<1>5. ToSet(w) = ToSet(s) \cup ToSet(t)
  <2>1. \A x \in ToSet(w) : x \in ToSet(s) \cup ToSet(t)
    <3> TAKE x \in ToSet(w)
    <3>1. PICK i \in 1..(n + k) : w[i] = x
      BY <1>1, Elements
    <3>2. CASE i <= n
      <4>1. i \in DOMAIN s /\ s[i] = x
        BY <1>1, <3>1, <3>2
      <4> QED BY <4>1, Elements
    <3>3. CASE ~(i <= n)
      <4>1. i - n \in DOMAIN t /\ t[i - n] = x
        BY <1>1, <1>4, <3>1, <3>3
      <4> QED BY <4>1, Elements
    <3> QED BY <3>2, <3>3
  <2>2. \A x \in ToSet(s) \cup ToSet(t) : x \in ToSet(w)
    <3>1. \A x \in ToSet(s) : x \in ToSet(w)
      BY <1>1, <1>3, Elements
    <3>2. \A x \in ToSet(t) : x \in ToSet(w)
      <4> TAKE x \in ToSet(t)
      <4>1. PICK i \in 1..k : t[i] = x
        BY <1>1, Elements
      <4>2. n + i \in DOMAIN w /\ w[n + i] = x
        BY <1>1, <1>2, <4>1
      <4> QED BY <4>2, Elements
    <3> QED BY <3>1, <3>2
  <2> QED BY <2>1, <2>2
<1> QED BY <1>1, <1>5 DEF w

\* What a sequence has besides its head
LEMMA SetOfTail ==
    ASSUME NEW S, NEW s \in Seq(S), s # <<>>
    PROVE  /\ Tail(s) \in Seq(S) /\ Head(s) \in S
           /\ ToSet(s) = {Head(s)} \cup ToSet(Tail(s))
<1> DEFINE w == Tail(s)
           n == Len(s)
<1>1. /\ n \in Nat \ {0} /\ DOMAIN s = 1..n /\ Head(s) = s[1] /\ Head(s) \in S
      /\ w \in Seq(S) /\ DOMAIN w = 1..(n - 1)
      /\ \A i \in 1..(n - 1) : w[i] = s[i + 1]
  BY HeadTailProperties, EmptySeq
<1> HIDE DEF w
<1>2. \A i \in 1..n : i # 1 => i - 1 \in 1..(n - 1) /\ w[i - 1] = s[i]
  BY <1>1
<1>3. \A i \in 1..(n - 1) : i + 1 \in 1..n
  BY <1>1
<1>4. ToSet(s) = {s[1]} \cup ToSet(w)
  <2>1. \A x \in ToSet(s) : x \in {s[1]} \cup ToSet(w)
    <3> TAKE x \in ToSet(s)
    <3>1. PICK i \in 1..n : s[i] = x
      BY <1>1, Elements
    <3>2. CASE i # 1
      <4>1. i - 1 \in DOMAIN w /\ w[i - 1] = x
        BY <1>1, <1>2, <3>1, <3>2
      <4> QED BY <4>1, Elements
    <3> QED BY <3>1, <3>2
  <2>2. \A x \in {s[1]} \cup ToSet(w) : x \in ToSet(s)
    <3>1. \A x \in ToSet(w) : x \in ToSet(s)
      <4> TAKE x \in ToSet(w)
      <4>1. PICK i \in 1..(n - 1) : w[i] = x
        BY <1>1, Elements
      <4>2. i + 1 \in DOMAIN s /\ s[i + 1] = x
        BY <1>1, <1>3, <4>1
      <4> QED BY <4>2, Elements
    <3>2. 1 \in DOMAIN s
      BY <1>1
    <3> QED BY <3>1, <3>2, Elements
  <2> QED BY <2>1, <2>2
<1> QED BY <1>1, <1>4 DEF w

\* A sequence without repetitions stays one when something new is appended.
LEMMA InjectiveAppend ==
    ASSUME NEW S, NEW s \in Seq(S), NEW x \in S, IsInjective(s), x \notin ToSet(s)
    PROVE  IsInjective(Append(s, x))
<1> DEFINE w == Append(s, x)
           len == Len(s)
<1>1. /\ DOMAIN w = 1..(len + 1) /\ DOMAIN s = 1..len /\ len \in Nat
      /\ w[len + 1] = x /\ \A i \in 1..len : w[i] = s[i]
  BY AppendProperties
<1> HIDE DEF w
<1>2. \A i \in 1..len : s[i] # x
  BY <1>1 DEF ToSet
<1>3. \A i \in 1..(len + 1) : i # len + 1 => i \in 1..len
  BY <1>1
<1>4. IsInjective(w)
  BY <1>1, <1>2, <1>3 DEF IsInjective
<1> QED BY <1>4 DEF w

-----------------------------------------------------------------------------
(* The invariant of the Notion crawler *)

Counts == {"discovered", "fetched", "denied", "truncated", "unsupported"}

\* A counter never goes down, and Return's tells of each loss.
LEMMA CountedUp ==
    ASSUME NotionType, NEW names, counters' = Counted(names)
    PROVE  /\ counters' \in [Counts -> Nat]
           /\ Unharmed' => Unharmed /\ "unsupported" \notin names
           /\ "denied" \notin names => counters'.denied = counters.denied
           /\ "denied" \in names => counters'.denied = counters.denied + 1
<1>1. counters \in [Counts -> Nat]
  BY DEF NotionType, Counts
<1>2. counters' = [k \in Counts |-> counters[k] + IF k \in names THEN 1 ELSE 0]
  BY <1>1 DEF Counted
<1>3. \A k \in Counts : counters[k] \in Nat /\ counters'[k] \in Nat
  BY <1>1, <1>2
<1>4. counters' \in [Counts -> Nat]
  BY <1>2, <1>3
<1>5. "denied" \in Counts /\ "unsupported" \in Counts
  BY DEF Counts
<1>6. Unharmed' => Unharmed /\ "unsupported" \notin names
  <2>1. counters'["unsupported"] =
           counters["unsupported"] + IF "unsupported" \in names THEN 1 ELSE 0
    BY <1>2, <1>5
  <2> QED BY <1>3, <1>5, <2>1 DEF Unharmed
<1>7. counters'["denied"] = counters["denied"] + IF "denied" \in names THEN 1 ELSE 0
  BY <1>2, <1>5
<1>8. counters["denied"] \in Nat
  BY <1>3, <1>5
<1> QED BY <1>4, <1>6, <1>7, <1>8

\* The next entity is at hand, and this one is seen.
LEMMA SeenMore ==
    ASSUME NotionType, entity <= Len(discovered),
           entity' = entity + 1, discovered' = discovered
    PROVE  Seen' = Seen \cup {Current} /\ entity' \in 1..(Len(discovered)' + 1)
<1>1. entity \in Nat \ {0} /\ Len(discovered) \in Nat
  BY DEF NotionType
<1>2. 1..(entity' - 1) = 1..(entity - 1) \cup {entity}
  BY <1>1
<1>3. Seen' = {discovered[i] : i \in 1..(entity' - 1)}
  BY DEF Seen
<1> QED BY <1>1, <1>2, <1>3 DEF Seen, Current

\* The answers are sequences of ids.
LEMMA AnswersAreLists ==
    /\ \A ids \in Results : ids \in Seq(EntityIds)
    /\ \A payload \in Payloads :
          /\ payload.unknown \in Seq(BlockIds) /\ payload.truncated \in BOOLEAN
          /\ ToSet(payload.unknown) \in SUBSET BlockIds
          /\ Omitted(payload) \in BOOLEAN
<1>1. ASSUME NEW ids \in Results PROVE ids \in Seq(EntityIds)
  <2>1. ids \in Seq(ToSet(ids)) /\ ToSet(ids) \subseteq EntityIds
    BY NotionAssumption DEF EntityIds
  <2> QED BY <2>1
<1>2. ASSUME NEW ids \in Unknowns
      PROVE  ids \in Seq(BlockIds) /\ ToSet(ids) \subseteq BlockIds
  <2>1. ids \in Seq(ToSet(ids)) /\ ToSet(ids) \subseteq BlockIds
    BY NotionAssumption DEF BlockIds
  <2> QED BY <2>1
<1>3. \A payload \in Payloads : payload.unknown \in Unknowns /\ payload.truncated \in BOOLEAN
  BY DEF Payloads
<1>4. \A payload \in Payloads : Omitted(payload) \in BOOLEAN
  BY <1>3 DEF Omitted
<1> QED BY <1>1, <1>2, <1>3, <1>4

\* A crawl of Notion starts with nothing.
LEMMA NotionStart == NotionInit => NotionInv
<1> SUFFICES ASSUME NotionInit PROVE NotionInv
  OBVIOUS
<1>1. discovered = <<>> /\ documents = <<>> /\ told = <<>> /\ pending = <<>>
      /\ entity = 1 /\ npc = "identity" /\ counters = NoCounts
  BY DEF NotionInit
<1>2. \A S : << >> \in Seq(S)
  BY EmptySeq
<1>3. Len(<<>>) = 0 /\ DOMAIN <<>> = {}
  BY EmptySeq
<1>4. NotionType
  <2>1. counters \in [Counts -> Nat] /\ counters.denied = 0
    BY <1>1 DEF NoCounts, Counts
  <2>2. entity \in 1..(Len(discovered) + 1)
    BY <1>1, <1>3
  <2> QED BY <1>1, <1>2, <1>3, <2>1, <2>2 DEF NotionType, Counts
<1>5. Seen = {} /\ Handled = {}
  BY <1>1 DEF Seen, Handled
<1>6. OneDocumentEach
  <2>1. Cardinality({}) = 0 /\ IsFiniteSet({})
    BY FS_EmptySet
  <2>2. Len(documents) + counters.denied = 0
    BY <1>1, <1>3 DEF NoCounts
  <2> QED BY <1>1, <1>3, <1>5, <2>1, <2>2 DEF OneDocumentEach
<1> QED BY <1>1, <1>3, <1>4, <1>6 DEF NotionInv, SearchedOut, NamedIsRead, ClaimIsCounted

\* The search leaves no document behind.
LEMMA SearchSteps ==
    ASSUME NotionInv, Identify \/ SearchPage \/ SearchCut
    PROVE  NotionInv'
<1>1. NotionType /\ entity = 1 /\ documents = <<>> /\ counters.denied = 0
      /\ UNCHANGED <<entity, documents, told, pending>>
      /\ npc' \in {"search", "entities"} /\ npc \in {"identity", "search"}
  BY DEF NotionInv, NotionType, Identify, SearchPage, SearchCut, blockVars
<1>2. /\ discovered' \in Seq(EntityIds)
      /\ counters' \in [Counts -> Nat] /\ counters'.denied = 0
      /\ Unharmed' /\ npc' = "entities" => cursor' = none
  <2>1. CASE Identify
    BY <1>1, <2>1 DEF Identify, NotionType, Counts
  <2>2. CASE SearchPage
    <3>1. PICK ids \in Results : \E next \in Cursors \cup {none} :
          /\ discovered' = discovered \o ids
          /\ cursor' = next
          /\ npc' = IF next = none \/ Repeated(next) THEN "entities" ELSE "search"
          /\ counters' = IF next # none /\ Repeated(next)
                         THEN Counted({"unsupported"}) ELSE counters
      BY <2>2 DEF SearchPage
    <3>2. PICK next \in Cursors \cup {none} :
          /\ discovered' = discovered \o ids
          /\ cursor' = next
          /\ npc' = IF next = none \/ Repeated(next) THEN "entities" ELSE "search"
          /\ counters' = IF next # none /\ Repeated(next)
                         THEN Counted({"unsupported"}) ELSE counters
      BY <3>1
    <3>3. discovered' \in Seq(EntityIds)
      BY <1>1, <3>2, SetOfConcat, AnswersAreLists DEF NotionType
    <3>4. CASE next # none /\ Repeated(next)
      <4>1. counters' = Counted({"unsupported"})
        BY <3>2, <3>4
      <4>2. counters' \in [Counts -> Nat] /\ counters'.denied = 0 /\ ~Unharmed'
        BY <1>1, <4>1, CountedUp
      <4> QED BY <3>3, <4>2
    <3>5. CASE ~(next # none /\ Repeated(next))
      <4>1. counters' = counters /\ (npc' = "entities" => next = none)
        BY <3>2, <3>5
      <4> QED BY <1>1, <3>2, <3>3, <4>1 DEF NotionType, Counts
    <3> QED BY <3>4, <3>5
  <2>3. CASE SearchCut
    <3>1. counters' = Counted({"unsupported"}) /\ discovered' = discovered
      BY <2>3 DEF SearchCut, searchVars
    <3>2. counters' \in [Counts -> Nat] /\ counters'.denied = 0 /\ ~Unharmed'
      BY <1>1, <3>1, CountedUp
    <3> QED BY <1>1, <3>1, <3>2 DEF NotionType
  <2> QED BY <2>1, <2>2, <2>3
<1>3. DOMAIN documents = {} /\ Len(documents) = 0 /\ Len(discovered') \in Nat
  BY <1>1, <1>2, EmptySeq
<1>4. NotionType'
  <2>1. entity' \in 1..(Len(discovered') + 1)
    BY <1>1, <1>3
  <2> QED BY <1>1, <1>2, <2>1 DEF NotionType, Counts
<1>5. Handled' = {}
  <2>1. Handled' = {discovered'[i] : i \in 1..(1 - 1)}
    BY <1>1 DEF Handled, Seen
  <2>2. 1..(1 - 1) = {}
    OBVIOUS
  <2> QED BY <2>1, <2>2
<1>6. OneDocumentEach'
  <2>1. Cardinality({}) = 0 /\ IsFiniteSet({})
    BY FS_EmptySet
  <2>2. Len(documents') + counters'.denied = 0
    BY <1>1, <1>2, <1>3
  <2> QED BY <1>1, <1>3, <1>5, <2>1, <2>2 DEF OneDocumentEach
<1> QED BY <1>1, <1>2, <1>3, <1>4, <1>6 DEF NotionInv, SearchedOut, NamedIsRead, ClaimIsCounted

\* An entity that was seen, denied or found whole is done; no other had its id.
LEMMA EntitySteps ==
    ASSUME NotionInv, SkipEntity \/ DenyEntity
    PROVE  NotionInv'
<1>1. /\ NotionType /\ npc = "entities" /\ npc' = npc
      /\ entity <= Len(discovered) /\ entity' = entity + 1
      /\ UNCHANGED <<discovered, cursor, documents, told, pending>>
  BY DEF NotionInv, SkipEntity, DenyEntity, searchVars, blockVars
<1>2. Seen' = Seen \cup {Current} /\ entity' \in 1..(Len(discovered)' + 1)
  BY <1>1, SeenMore
<1>3. Handled = Seen /\ Handled' = Seen \cup {Current}
  BY <1>1, <1>2 DEF Handled
<1>4. /\ counters' \in [Counts -> Nat]
      /\ Unharmed' => Unharmed
      /\ IF Current \in Seen THEN counters'.denied = counters.denied
         ELSE counters'.denied = counters.denied + 1
  <2>1. CASE SkipEntity
    BY <1>1, <2>1 DEF SkipEntity, Unharmed, NotionType, Counts
  <2>2. CASE DenyEntity
    BY <1>1, <2>2, CountedUp DEF DenyEntity
  <2> QED BY <2>1, <2>2
<1>5. NotionType'
  BY <1>1, <1>2, <1>4 DEF NotionType, Counts
<1>6. OneDocumentEach'
  <2>1. /\ IsFiniteSet(Seen)
        /\ Len(documents) + counters.denied = Cardinality(Seen)
        /\ \A d \in DOMAIN documents : documents[d].id \in Seen
        /\ \A d, e \in DOMAIN documents : documents[d].id = documents[e].id => d = e
    BY <1>1, <1>3 DEF NotionInv, OneDocumentEach
  <2>2. IsFiniteSet(Seen \cup {Current})
    BY <2>1, FS_AddElement
  <2>3. Len(documents) + counters'.denied = Cardinality(Seen \cup {Current})
    <3>1. Len(documents) \in Nat /\ counters.denied \in Nat
      BY <1>1 DEF NotionType
    <3>2. Cardinality(Seen \cup {Current}) =
             IF Current \in Seen THEN Cardinality(Seen) ELSE Cardinality(Seen) + 1
      BY <2>1, FS_AddElement
    <3>3. Cardinality(Seen) \in Nat
      BY <2>1, FS_CardinalityType
    <3> QED BY <1>4, <2>1, <3>1, <3>2, <3>3
  <2> QED BY <1>1, <1>3, <2>1, <2>2, <2>3 DEF OneDocumentEach
<1>7. NamedIsRead'
  BY <1>1, <1>4 DEF NotionInv, NamedIsRead
<1>8. SearchedOut' /\ ClaimIsCounted'
  BY <1>1, <1>4 DEF NotionInv, SearchedOut, ClaimIsCounted
<1> QED BY <1>5, <1>6, <1>7, <1>8 DEF NotionInv

\* An entity that is read has a document of its own.
LEMMA FetchStep ==
    ASSUME NotionInv, FetchEntity
    PROVE  NotionInv'
<1>1. PICK payload \in Payloads :
          /\ documents' = Append(documents, [id |-> Current, text |-> <<>>])
          /\ told' = Append(told, [named |-> ToSet(payload.unknown), cut |-> Omitted(payload)])
          /\ counters' = Counted({"discovered", "fetched"} \cup Cut(payload)
                         \cup IF payload.unknown # <<>> THEN {"truncated"} ELSE {})
          /\ IF payload.unknown = <<>>
             THEN entity' = entity + 1 /\ UNCHANGED npc
             ELSE npc' = "blocks" /\ UNCHANGED entity
          /\ pending' = payload.unknown
          /\ visited' = {}
  BY DEF FetchEntity
<1>2. /\ NotionType /\ npc = "entities" /\ entity <= Len(discovered) /\ Current \notin Seen
      /\ UNCHANGED <<discovered, cursor>>
  BY DEF NotionInv, FetchEntity, searchVars
<1> DEFINE doc == [id |-> Current, text |-> <<>>]
           say == [named |-> ToSet(payload.unknown), cut |-> Omitted(payload)]
           n == Len(documents)
<1>3. Current \in EntityIds /\ entity \in 1..Len(discovered)
  BY <1>2 DEF NotionType, Current
<1>4. /\ doc \in [id : EntityIds, text : Seq(BlockIds)]
      /\ say \in [named : SUBSET BlockIds, cut : BOOLEAN]
  BY <1>3, AnswersAreLists, EmptySeq
<1>5. /\ documents' \in Seq([id : EntityIds, text : Seq(BlockIds)])
      /\ n \in Nat /\ Len(documents') = n + 1 /\ documents'[n + 1] = doc
      /\ DOMAIN documents = 1..n /\ DOMAIN documents' = 1..(n + 1)
      /\ \A i \in 1..n : documents'[i] = documents[i]
  BY <1>1, <1>2, <1>4, AppendProperties DEF NotionType
<1>6. /\ told' \in Seq([named : SUBSET BlockIds, cut : BOOLEAN])
      /\ Len(told') = n + 1 /\ told'[n + 1] = say
      /\ \A i \in 1..n : told'[i] = told[i]
  BY <1>1, <1>2, <1>4, AppendProperties DEF NotionType
<1>7. /\ counters' \in [Counts -> Nat]
      /\ Unharmed' => Unharmed /\ ~Omitted(payload)
      /\ counters'.denied = counters.denied
  <2> DEFINE names == {"discovered", "fetched"} \cup Cut(payload)
                         \cup IF payload.unknown # <<>> THEN {"truncated"} ELSE {}
  <2>1. "denied" \notin names /\ (Omitted(payload) => "unsupported" \in names)
    BY DEF Cut
  <2> HIDE DEF names
  <2>2. counters' = Counted(names)
    BY <1>1 DEF names
  <2> QED BY <1>2, <2>1, <2>2, CountedUp
<1>8. Handled' = Seen \cup {Current} /\ Handled = Seen
  <2>1. CASE payload.unknown = <<>>
    <3>1. entity' = entity + 1 /\ npc' = "entities"
      BY <1>1, <1>2, <2>1
    <3> QED BY <1>2, <3>1, SeenMore DEF Handled
  <2>2. CASE payload.unknown # <<>>
    BY <1>1, <1>2, <2>2 DEF Handled, Seen, Current
  <2> QED BY <2>1, <2>2
<1>9. NotionType'
  <2>1. pending' \in Seq(BlockIds)
    BY <1>1, AnswersAreLists
  <2>2. documents' # <<>>
    BY <1>5, EmptySeq
  <2>3. entity' \in 1..(Len(discovered') + 1) /\ npc' \in {"entities", "blocks"}
        /\ (npc' = "blocks" => entity' <= Len(discovered'))
    BY <1>1, <1>2, <1>3 DEF NotionType
  <2> QED BY <1>2, <1>5, <1>6, <1>7, <2>1, <2>2, <2>3 DEF NotionType, Counts
<1>10. OneDocumentEach'
  <2>1. /\ IsFiniteSet(Seen)
        /\ n + counters.denied = Cardinality(Seen)
        /\ \A d \in 1..n : documents[d].id \in Seen
        /\ \A d, e \in 1..n : documents[d].id = documents[e].id => d = e
    BY <1>2, <1>5, <1>8 DEF NotionInv, OneDocumentEach
  <2>2. IsFiniteSet(Seen \cup {Current})
    BY <2>1, FS_AddElement
  <2>3. Len(documents') + counters'.denied = Cardinality(Seen \cup {Current})
    <3>1. counters.denied \in Nat
      BY <1>2 DEF NotionType
    <3>2. Cardinality(Seen \cup {Current}) = Cardinality(Seen) + 1
      BY <1>2, <2>1, FS_AddElement
    <3>3. n + counters.denied = Cardinality(Seen) /\ n \in Nat
          /\ Len(documents') = n + 1 /\ counters'.denied = counters.denied
      BY <1>5, <1>7, <2>1
    <3> DEFINE k == counters.denied
    <3> HIDE DEF n, k
    <3> QED BY <3>1, <3>2, <3>3 DEF k
  <2>4. \A d \in 1..(n + 1) : d # n + 1 => d \in 1..n
    BY <1>5
  <2>5. documents'[n + 1].id = Current
    BY <1>5
  <2>6. \A d \in DOMAIN documents' : documents'[d].id \in Seen \cup {Current}
    BY <1>5, <2>1, <2>4, <2>5
  <2>7. \A d, e \in DOMAIN documents' : documents'[d].id = documents'[e].id => d = e
    BY <1>2, <1>5, <2>1, <2>4, <2>5
  <2> QED BY <1>8, <2>2, <2>3, <2>6, <2>7 DEF OneDocumentEach
<1>11. NamedIsRead'
  <2> SUFFICES ASSUME Unharmed', NEW d \in DOMAIN documents'
               PROVE  /\ ~told'[d].cut
                      /\ IsInjective(documents'[d].text)
                      /\ IF npc' = "blocks" /\ d = Len(documents')
                         THEN /\ ToSet(documents'[d].text) = visited'
                              /\ told'[d].named = visited' \cup ToSet(pending')
                         ELSE ToSet(documents'[d].text) = told'[d].named
    BY DEF NamedIsRead
  <2>1. CASE d = n + 1
    <3>1. documents'[d].text = <<>> /\ told'[d] = say
      BY <1>5, <1>6, <2>1
    <3>2. ToSet(<<>>) = {} /\ IsInjective(<<>>)
      BY EmptySeq DEF ToSet, IsInjective
    <3>3. told'[d].named = ToSet(payload.unknown) /\ ~told'[d].cut
      BY <1>7, <3>1
    <3> QED BY <1>1, <1>2, <1>5, <2>1, <3>1, <3>2, <3>3
  <2>2. CASE d # n + 1
    <3>1. d \in 1..n /\ d # Len(documents')
      BY <1>5, <2>2
    <3>2. /\ ~told[d].cut
          /\ IsInjective(documents[d].text)
          /\ ToSet(documents[d].text) = told[d].named
      BY <1>2, <1>5, <1>7, <3>1 DEF NotionInv, NamedIsRead
    <3> QED BY <1>5, <1>6, <3>1, <3>2
  <2> QED BY <2>1, <2>2
<1>12. SearchedOut' /\ ClaimIsCounted'
  BY <1>1, <1>2, <1>7 DEF NotionInv, SearchedOut, ClaimIsCounted
<1> QED BY <1>9, <1>10, <1>11, <1>12 DEF NotionInv

\* A block that was visited or is refused: the text stays as it is.
LEMMA PassBlockSteps ==
    ASSUME NotionInv, SkipBlock \/ LoseBlock
    PROVE  NotionInv'
<1>1. /\ NotionType /\ npc = "blocks" /\ npc' = npc /\ pending # <<>>
      /\ pending' = Tail(pending)
      /\ UNCHANGED <<discovered, cursor, entity, documents, told>>
  BY DEF NotionInv, SkipBlock, LoseBlock, searchVars
<1>2. /\ counters' \in [Counts -> Nat] /\ counters'.denied = counters.denied
      /\ Unharmed' => SkipBlock /\ Unharmed
  <2>1. CASE SkipBlock
    BY <1>1, <2>1 DEF SkipBlock, Unharmed, NotionType, Counts
  <2>2. CASE LoseBlock
    <3>1. counters' = Counted({"unsupported"})
      BY <2>2 DEF LoseBlock
    <3> QED BY <1>1, <3>1, CountedUp
  <2> QED BY <2>1, <2>2
<1>3. /\ pending' \in Seq(BlockIds)
      /\ ToSet(pending) = {NextBlock} \cup ToSet(pending')
  BY <1>1, SetOfTail DEF NotionType, NextBlock
<1>4. NotionType'
  BY <1>1, <1>2, <1>3 DEF NotionType, Counts
<1>5. Handled' = Handled
  BY <1>1 DEF Handled, Seen, Current
<1>6. OneDocumentEach'
  BY <1>1, <1>2, <1>5 DEF NotionInv, OneDocumentEach
<1>7. NamedIsRead'
  <2>1. Unharmed' => NextBlock \in visited /\ visited' = visited
    BY <1>2 DEF SkipBlock, Visited
  <2> QED BY <1>1, <1>2, <1>3, <2>1 DEF NotionInv, NamedIsRead
<1>8. SearchedOut' /\ ClaimIsCounted'
  BY <1>1, <1>2 DEF NotionInv, SearchedOut, ClaimIsCounted
<1> QED BY <1>4, <1>6, <1>7, <1>8 DEF NotionInv

\* A block that is read is appended to the last document.
LEMMA FetchBlockStep ==
    ASSUME NotionInv, FetchBlock
    PROVE  NotionInv'
<1>1. PICK payload \in Payloads :
          LET d == Len(documents) IN
          /\ documents' = [documents EXCEPT ![d].text = Append(@, NextBlock)]
          /\ told' = [told EXCEPT ![d] = [named |-> @.named \cup ToSet(payload.unknown),
                                          cut |-> @.cut \/ Omitted(payload)]]
          /\ counters' = Counted(Cut(payload))
          /\ pending' = Tail(pending) \o payload.unknown
  BY DEF FetchBlock
<1>2. /\ NotionType /\ npc = "blocks" /\ npc' = npc /\ pending # <<>>
      /\ NextBlock \notin visited /\ visited' = visited \cup {NextBlock}
      /\ UNCHANGED <<discovered, cursor, entity>>
  BY DEF NotionInv, FetchBlock, searchVars, Visited
<1> DEFINE n == Len(documents)
           doc == [id |-> documents[n].id, text |-> Append(documents[n].text, NextBlock)]
           say == [named |-> told[n].named \cup ToSet(payload.unknown),
                   cut |-> told[n].cut \/ Omitted(payload)]
<1>3. /\ n \in Nat \ {0} /\ DOMAIN documents = 1..n /\ DOMAIN told = 1..n
      /\ documents[n] \in [id : EntityIds, text : Seq(BlockIds)]
      /\ told[n] \in [named : SUBSET BlockIds, cut : BOOLEAN]
  <2>1. /\ documents \in Seq([id : EntityIds, text : Seq(BlockIds)])
        /\ told \in Seq([named : SUBSET BlockIds, cut : BOOLEAN])
        /\ Len(told) = Len(documents) /\ documents # <<>>
    BY <1>2 DEF NotionType
  <2>2. n \in Nat \ {0} /\ DOMAIN documents = 1..n /\ DOMAIN told = 1..n
    BY <2>1, EmptySeq
  <2>3. n \in 1..n
    BY <2>2
  <2>4. documents[n] \in [id : EntityIds, text : Seq(BlockIds)]
    BY <2>1, <2>3, ElementOfSeq
  <2>5. told[n] \in [named : SUBSET BlockIds, cut : BOOLEAN]
    BY <2>1, <2>3, ElementOfSeq
  <2> QED BY <2>2, <2>4, <2>5
<1>4. /\ Tail(pending) \in Seq(BlockIds) /\ NextBlock \in BlockIds
      /\ ToSet(pending) = {NextBlock} \cup ToSet(Tail(pending))
  BY <1>2, SetOfTail DEF NotionType, NextBlock
<1>5. /\ pending' \in Seq(BlockIds)
      /\ ToSet(pending') = ToSet(Tail(pending)) \cup ToSet(payload.unknown)
  <2>1. payload.unknown \in Seq(BlockIds)
    BY AnswersAreLists
  <2>2. pending' = Tail(pending) \o payload.unknown
    BY <1>1
  <2> DEFINE u == payload.unknown
             w == Tail(pending)
  <2>3. u \in Seq(BlockIds) /\ w \in Seq(BlockIds) /\ pending' = w \o u
    BY <1>4, <2>1, <2>2
  <2> HIDE DEF u, w
  <2>4. pending' \in Seq(BlockIds) /\ ToSet(pending') = ToSet(w) \cup ToSet(u)
    BY <2>3, SetOfConcat
  <2> QED BY <2>4 DEF u, w
<1>6. /\ doc.text \in Seq(BlockIds)
      /\ ToSet(doc.text) = ToSet(documents[n].text) \cup {NextBlock}
  BY <1>3, <1>4, SetOfAppend
<1>7. /\ documents' \in Seq([id : EntityIds, text : Seq(BlockIds)])
      /\ Len(documents') = n /\ DOMAIN documents' = 1..n
      /\ documents'[n] = doc
      /\ \A d \in 1..n : d # n => documents'[d] = documents[d]
  <2>1. documents' = [documents EXCEPT ![n] = doc]
    <3>1. documents' = [documents EXCEPT ![n].text = Append(@, NextBlock)]
      BY <1>1
    <3>2. [documents[n] EXCEPT !.text = Append(@, NextBlock)] = doc
      <4>1. ASSUME NEW A, NEW B, NEW rec \in [id : A, text : B], NEW x
            PROVE  [rec EXCEPT !.text = x] = [id |-> rec.id, text |-> x]
        OBVIOUS
      <4> DEFINE rec == documents[n]
      <4>2. rec \in [id : EntityIds, text : Seq(BlockIds)]
        BY <1>3
      <4> HIDE DEF rec
      <4>3. [rec EXCEPT !.text = Append(rec.text, NextBlock)] =
               [id |-> rec.id, text |-> Append(rec.text, NextBlock)]
        BY <4>1, <4>2
      <4> QED BY <4>3 DEF rec
    <3> QED BY <3>1, <3>2
  <2>2. doc \in [id : EntityIds, text : Seq(BlockIds)]
    BY <1>3, <1>6
  <2>3. documents \in Seq([id : EntityIds, text : Seq(BlockIds)]) /\ n \in 1..n
    BY <1>2, <1>3 DEF NotionType
  <2> HIDE DEF doc
  <2>4. /\ documents' \in Seq([id : EntityIds, text : Seq(BlockIds)])
        /\ Len(documents') = n
        /\ \A d \in 1..n : documents'[d] = IF d = n THEN doc ELSE documents[d]
    BY <2>1, <2>2, <2>3, ExceptSeq
  <2>5. DOMAIN documents' = 1..n
    BY <2>4
  <2> QED BY <2>3, <2>4, <2>5
<1>8. /\ told' \in Seq([named : SUBSET BlockIds, cut : BOOLEAN])
      /\ Len(told') = n /\ told'[n] = say
      /\ \A d \in 1..n : d # n => told'[d] = told[d]
  <2>1. told' = [told EXCEPT ![n] = say]
    BY <1>1
  <2>2. say \in [named : SUBSET BlockIds, cut : BOOLEAN]
    BY <1>3, AnswersAreLists
  <2>3. told \in Seq([named : SUBSET BlockIds, cut : BOOLEAN]) /\ Len(told) = n /\ n \in 1..n
    BY <1>2, <1>3 DEF NotionType
  <2> HIDE DEF say
  <2>4. /\ told' \in Seq([named : SUBSET BlockIds, cut : BOOLEAN])
        /\ Len(told') = n
        /\ \A d \in 1..n : told'[d] = IF d = n THEN say ELSE told[d]
    BY <2>1, <2>2, <2>3, ExceptSeq
  <2> QED BY <2>3, <2>4
<1>9. /\ counters' \in [Counts -> Nat] /\ counters'.denied = counters.denied
      /\ Unharmed' => Unharmed /\ ~Omitted(payload)
  <2>1. "denied" \notin Cut(payload) /\ (Omitted(payload) => "unsupported" \in Cut(payload))
    BY DEF Cut
  <2> QED BY <1>1, <1>2, <2>1, CountedUp
<1>10. NotionType'
  <2>1. documents' # <<>>
    BY <1>3, <1>7, EmptySeq
  <2> QED BY <1>2, <1>5, <1>7, <1>8, <1>9, <2>1 DEF NotionType, Counts
<1>11. OneDocumentEach'
  <2>1. Handled' = Handled
    BY <1>2 DEF Handled, Seen, Current
  <2>2. \A d \in 1..n : documents'[d].id = documents[d].id
    <3>1. doc.id = documents[n].id
      OBVIOUS
    <3> HIDE DEF doc
    <3> QED BY <1>7, <3>1
  <2>3. /\ IsFiniteSet(Handled)
        /\ n + counters.denied = Cardinality(Handled)
        /\ \A d \in 1..n : documents[d].id \in Handled
        /\ \A d, e \in 1..n : documents[d].id = documents[e].id => d = e
    BY <1>2, <1>3 DEF NotionInv, OneDocumentEach
  <2>4. Len(documents') = n /\ DOMAIN documents' = 1..n /\ counters'.denied = counters.denied
    BY <1>7, <1>9
  <2> HIDE DEF n
  <2> QED BY <2>1, <2>2, <2>3, <2>4 DEF OneDocumentEach
<1>12. NamedIsRead'
  <2> SUFFICES ASSUME Unharmed', NEW d \in 1..n
               PROVE  /\ ~told'[d].cut
                      /\ IsInjective(documents'[d].text)
                      /\ IF d = n
                         THEN /\ ToSet(documents'[d].text) = visited'
                              /\ told'[d].named = visited' \cup ToSet(pending')
                         ELSE ToSet(documents'[d].text) = told'[d].named
    BY <1>2, <1>7 DEF NamedIsRead
  <2>1. /\ ~told[d].cut
        /\ IsInjective(documents[d].text)
        /\ IF d = n
           THEN ToSet(documents[d].text) = visited /\ told[d].named = visited \cup ToSet(pending)
           ELSE ToSet(documents[d].text) = told[d].named
    BY <1>2, <1>3, <1>9 DEF NotionInv, NamedIsRead
  <2>2. CASE d = n
    <3>1. IsInjective(doc.text)
      BY <1>2, <1>3, <1>4, <2>1, <2>2, InjectiveAppend
    <3>2. say.named = visited \cup ToSet(pending) \cup ToSet(payload.unknown) /\ ~say.cut
      BY <1>9, <2>1, <2>2
    <3> HIDE DEF doc, say
    <3> QED BY <1>2, <1>4, <1>5, <1>6, <1>7, <1>8, <2>1, <2>2, <3>1, <3>2
  <2>3. CASE d # n
    BY <1>7, <1>8, <2>1, <2>3
  <2> QED BY <2>2, <2>3
<1>13. SearchedOut' /\ ClaimIsCounted'
  BY <1>2, <1>9 DEF NotionInv, SearchedOut, ClaimIsCounted
<1> QED BY <1>10, <1>11, <1>12, <1>13 DEF NotionInv

\* An entity whose blocks are all read is handled.
LEMMA BlocksDoneStep ==
    ASSUME NotionInv, BlocksDone
    PROVE  NotionInv'
<1>1. /\ NotionType /\ npc = "blocks" /\ npc' = "entities" /\ pending = <<>>
      /\ entity <= Len(discovered) /\ entity' = entity + 1
      /\ UNCHANGED <<discovered, cursor, pending, documents, told, counters>>
  BY DEF NotionInv, NotionType, BlocksDone, searchVars
<1>2. Seen' = Seen \cup {Current} /\ entity' \in 1..(Len(discovered)' + 1)
  BY <1>1, SeenMore
<1>3. Handled' = Handled
  BY <1>1, <1>2 DEF Handled
<1>4. Unharmed' = Unharmed
  BY <1>1 DEF Unharmed
<1>5. NotionType'
  BY <1>1, <1>2 DEF NotionType
<1>6. OneDocumentEach'
  BY <1>1, <1>3 DEF NotionInv, OneDocumentEach
<1>7. NamedIsRead'
  <2>1. ToSet(pending) = {}
    BY <1>1, EmptySeq DEF ToSet
  <2> QED BY <1>1, <1>4, <2>1 DEF NotionInv, NamedIsRead
<1>8. SearchedOut' /\ ClaimIsCounted'
  BY <1>1, <1>4 DEF NotionInv, SearchedOut, ClaimIsCounted
<1> QED BY <1>5, <1>6, <1>7, <1>8 DEF NotionInv

\* The end of a crawl of Notion
LEMMA ReturnStep ==
    ASSUME NotionInv, Return
    PROVE  NotionInv'
<1>1. /\ NotionType /\ npc = "entities" /\ npc' = "over" /\ entity > Len(discovered)
      /\ counters.unsupported > 0 => completeness' = "UNKNOWN"
      /\ UNCHANGED <<discovered, cursor, entity, pending, documents, told, counters>>
  BY DEF NotionInv, Return, searchVars, blockVars
<1>2. completeness' = "UNKNOWN" \/ Unharmed
  <2> DEFINE k == counters.unsupported
  <2>1. k \in Nat
    BY <1>1 DEF NotionType
  <2>2. k > 0 => completeness' = "UNKNOWN"
    BY <1>1
  <2>3. k = 0 => Unharmed
    BY DEF Unharmed
  <2> HIDE DEF k
  <2> QED BY <2>1, <2>2, <2>3
<1>3. Handled' = Handled /\ Unharmed' = Unharmed
  BY <1>1 DEF Handled, Seen, Unharmed
<1>4. NotionType'
  BY <1>1 DEF NotionType
<1>5. OneDocumentEach'
  BY <1>1, <1>3 DEF NotionInv, OneDocumentEach
<1>6. NamedIsRead'
  BY <1>1, <1>3 DEF NotionInv, NamedIsRead
<1> QED BY <1>1, <1>2, <1>3, <1>4, <1>5, <1>6 DEF NotionInv, SearchedOut, ClaimIsCounted

\* Every step of Notion keeps the invariant.
LEMMA NotionSteps == NotionInv /\ [NotionNext]_notionVars => NotionInv'
<1> SUFFICES ASSUME NotionInv, [NotionNext]_notionVars PROVE NotionInv'
  OBVIOUS
<1>1. CASE UNCHANGED notionVars
  <2>1. UNCHANGED <<npc, cursor, discovered, entity, pending, visited, documents, counters,
                    told, completeness>>
    BY <1>1 DEF notionVars, searchVars, blockVars
  <2>2. Handled' = Handled /\ Unharmed' = Unharmed
    BY <2>1 DEF Handled, Seen, Current, Unharmed
  <2>3. NotionType' /\ SearchedOut' /\ ClaimIsCounted'
    BY <2>1, <2>2 DEF NotionInv, NotionType, SearchedOut, ClaimIsCounted
  <2>4. OneDocumentEach'
    BY <2>1, <2>2 DEF NotionInv, OneDocumentEach
  <2>5. NamedIsRead'
    BY <2>1, <2>2 DEF NotionInv, NamedIsRead
  <2> QED BY <2>3, <2>4, <2>5 DEF NotionInv
<1>2. CASE Raise
  <2>1. npc' = "raised" /\ UNCHANGED <<discovered, entity, pending, documents, counters, told>>
    BY <1>2 DEF Raise, searchVars, blockVars
  <2>2. NotionType'
    BY <2>1 DEF NotionInv, NotionType
  <2> QED BY <2>1, <2>2 DEF NotionInv, SearchedOut, OneDocumentEach, NamedIsRead, ClaimIsCounted
<1>3. CASE NotionWork
  BY <1>3, SearchSteps, EntitySteps, FetchStep, PassBlockSteps, FetchBlockStep,
     BlocksDoneStep, ReturnStep DEF NotionWork
<1> QED BY <1>1, <1>2, <1>3 DEF NotionNext

\* Why a claim other than UNKNOWN says that the crawl is whole
LEMMA UnharmedIsWhole ==
    NotionInv /\ npc = "over" /\ Unharmed => CrawlIsWhole
<1> SUFFICES ASSUME NotionInv, npc = "over", Unharmed PROVE CrawlIsWhole
  OBVIOUS
<1>1. SearchIsWhole
  BY DEF NotionInv, SearchedOut, SearchIsWhole
<1>2. \A d \in DOMAIN documents : DocumentIsWhole(d)
  BY DEF NotionInv, NamedIsRead, DocumentIsWhole
<1>3. Handled = Seen /\ Seen = ToSet(discovered)
  <2>1. /\ DOMAIN discovered = 1..Len(discovered) /\ Len(discovered) \in Nat
        /\ entity = Len(discovered) + 1
    BY DEF NotionInv, NotionType, ClaimIsCounted
  <2>2. 1..(entity - 1) = DOMAIN discovered
    BY <2>1
  <2> QED BY <2>2 DEF Handled, Seen, ToSet
<1>4. IsInjective([d \in DOMAIN documents |-> documents[d].id])
  BY DEF NotionInv, OneDocumentEach, IsInjective
<1>5. Len(documents) + counters.denied = Cardinality(ToSet(discovered))
  BY <1>3 DEF NotionInv, OneDocumentEach
<1> QED BY <1>1, <1>2, <1>4, <1>5 DEF CrawlIsWhole

ClaimInv == NotionInv /\ RecordIsReturned

\* The invariant of a recorded coverage holds at first.
LEMMA ClaimStart == RunInit => ClaimInv
BY NotionStart DEF RunInit, ClaimInv, RecordIsReturned

\* The invariant of a recorded coverage is kept by every step of the run.
LEMMA ClaimSteps == ClaimInv /\ [RunNext]_allVars => ClaimInv'
<1> SUFFICES ASSUME ClaimInv, [RunNext]_allVars PROVE ClaimInv'
  OBVIOUS
<1>1. CASE UNCHANGED notionVars /\ UNCHANGED <<source, record>>
  <2>1. NotionInv'
    BY <1>1, NotionSteps DEF ClaimInv
  <2>2. UNCHANGED <<npc, counters, record, source>>
    BY <1>1 DEF notionVars
  <2>3. RecordIsReturned'
    BY <2>2 DEF ClaimInv, RecordIsReturned, Unharmed
  <2> QED BY <2>1, <2>3 DEF ClaimInv
<1>2. CASE NotionStep
  <2>1. NotionInv'
    BY <1>2, NotionSteps DEF ClaimInv, NotionStep
  <2>2. npc # "over"
    BY <1>2 DEF NotionStep, NotionNext, NotionWork, Raise, Identify, SearchPage, SearchCut,
       SkipEntity, FetchEntity, DenyEntity, SkipBlock, FetchBlock, LoseBlock, BlocksDone, Return
  <2>3. UNCHANGED <<source, record>>
    BY <1>2 DEF NotionStep
  <2>4. RecordIsReturned'
    BY <2>2, <2>3 DEF ClaimInv, RecordIsReturned
  <2> QED BY <2>1, <2>4 DEF ClaimInv
<1>3. CASE Accept
  <2>1. /\ source' = source /\ UNCHANGED notionVars /\ Returned
        /\ source \in {slack, notion}
        /\ record' = IF source = slack THEN "UNKNOWN" ELSE completeness
    BY <1>3 DEF Accept, ClaimInv, RecordIsReturned
  <2>2. NotionInv'
    BY <2>1, NotionSteps DEF ClaimInv
  <2>3. UNCHANGED <<npc, counters>>
    BY <2>1 DEF notionVars
  <2>4. ASSUME source = slack PROVE RecordIsReturned'
    BY <2>1, <2>4 DEF ClaimInv, RecordIsReturned
  <2>5. ASSUME source = notion PROVE RecordIsReturned'
    <3>1. npc = "over"
      BY <2>1, <2>5, SourceAssumption DEF Returned
    <3>2. completeness = "UNKNOWN" \/ Unharmed
      BY <3>1 DEF ClaimInv, NotionInv, ClaimIsCounted
    <3> QED BY <2>1, <2>3, <2>5, <3>1, <3>2, SourceAssumption
        DEF ClaimInv, RecordIsReturned, Unharmed
  <2> QED BY <2>1, <2>2, <2>4, <2>5 DEF ClaimInv
<1> QED BY <1>1, <1>2, <1>3 DEF RunNext, SlackStep, allVars

\* Whatever the server answers and refuses: a run that records a coverage other than
\* UNKNOWN has it of a search that was read to its end and of entities that are one
\* whole document each, or counted as denied.
THEOREM ClaimsAreWhole == RunSpec => []ClaimedCoverageIsWhole
<1>1. ClaimInv => ClaimedCoverageIsWhole
  BY UnharmedIsWhole DEF ClaimInv, RecordIsReturned, ClaimedCoverageIsWhole
<1> QED BY <1>1, ClaimStart, ClaimSteps, PTL DEF RunSpec

-----------------------------------------------------------------------------
(* Pages, joined *)

\* A set of numbers that has 0, and with a number the next one, has them all.
LEMMA Induction ==
    ASSUME NEW S \in SUBSET Nat, 0 \in S, \A n \in S : n + 1 \in S
    PROVE  S = Nat
<1> DEFINE R == OpToRel(<, Nat)
           T == Nat \ S
<1>1. IsWellFoundedOn(R, Nat)
  BY NatLessThanWellFounded, Zenon
<1>2. \A x, y \in Nat : y < x => <<y, x>> \in R
  BY DEF OpToRel
<1> HIDE DEF R
<1>3. SUFFICES ASSUME T # {} PROVE FALSE
  OBVIOUS
<1>4. PICK x \in T : \A y \in T : ~(<<y, x>> \in R)
  BY <1>1, <1>3, WFMin
<1>5. x \in Nat /\ x # 0 /\ x - 1 \in Nat /\ x - 1 < x /\ (x - 1) + 1 = x
  OBVIOUS
<1>6. <<x - 1, x>> \in R
  BY <1>2, <1>5
<1>7. x - 1 \in S
  BY <1>4, <1>5, <1>6
<1>8. x \in S
  BY <1>5, <1>7
<1> QED BY <1>8

\* What Joined computes: for n pages what it computes for the pages before the last
\* of them, and that one.
IsJoin(join, pages) ==
    /\ join[0] = <<>>
    /\ \A i \in 1..Len(pages) : join[i] = join[i - 1] \o pages[i]

\* For every list of pages there is a function that joins them.
LEMMA JoinExists ==
    ASSUME NEW M, NEW pages \in Seq(Seq(M))
    PROVE  \E join \in [0..Len(pages) -> Seq(M)] : IsJoin(join, pages)
<1> DEFINE len == Len(pages)
           Up(join, n) == /\ join \in [0..n -> Seq(M)] /\ join[0] = <<>>
                          /\ \A i \in 1..n : join[i] = join[i - 1] \o pages[i]
           S == {n \in Nat : n <= len => \E join : Up(join, n)}
<1>1. len \in Nat /\ \A i \in 1..len : pages[i] \in Seq(M)
  OBVIOUS
<1>2. 0 \in S
  <2>1. Up([i \in 0..0 |-> << >>], 0)
    BY EmptySeq
  <2> QED BY <2>1
<1>3. ASSUME NEW n \in S PROVE n + 1 \in S
  <2>1. SUFFICES ASSUME n + 1 <= len PROVE \E join : Up(join, n + 1)
    <3>1. n + 1 \in Nat
      OBVIOUS
    <3> HIDE DEF Up
    <3> QED BY <3>1
  <2>2. n \in Nat /\ n <= len
    BY <2>1, <1>1
  <2>3. PICK join : Up(join, n)
    BY <2>2
  <2> DEFINE next == [i \in 0..(n + 1) |->
                        IF i = n + 1 THEN join[n] \o pages[n + 1] ELSE join[i]]
  <2>4. join[n] \in Seq(M) /\ pages[n + 1] \in Seq(M)
    BY <1>1, <2>1, <2>2, <2>3
  <2>5. join[n] \o pages[n + 1] \in Seq(M)
    BY <2>4, ConcatProperties
  <2>6. next \in [0..(n + 1) -> Seq(M)] /\ next[0] = <<>>
    BY <2>2, <2>3, <2>5
  <2>7. ASSUME NEW i \in 1..(n + 1) PROVE next[i] = next[i - 1] \o pages[i]
    <3>1. CASE i = n + 1
      BY <2>2, <3>1
    <3>2. CASE i # n + 1
      <4>1. i \in 1..n /\ i \in 0..(n + 1) /\ i - 1 \in 0..(n + 1) /\ i - 1 # n + 1
        BY <2>2, <3>2
      <4>2. next[i] = join[i] /\ next[i - 1] = join[i - 1]
        BY <3>2, <4>1
      <4> HIDE DEF next
      <4> QED BY <2>3, <4>1, <4>2
    <3> QED BY <3>1, <3>2
  <2> HIDE DEF next
  <2> QED BY <2>6, <2>7
<1>4. S = Nat
  <2> HIDE DEF S
  <2>1. S \in SUBSET Nat
    BY DEF S
  <2> QED BY <1>2, <1>3, <2>1, Induction
<1>5. \E join : Up(join, len)
  <2>1. \A n \in S : n <= len => \E join : Up(join, n)
    OBVIOUS
  <2> HIDE DEF S, Up
  <2> QED BY <1>1, <1>4, <2>1
<1> QED BY <1>5 DEF IsJoin

\* Joined is that function.
LEMMA JoinedPages ==
    ASSUME NEW M, NEW pages \in Seq(Seq(M))
    PROVE  /\ Joined(pages, 0) = <<>>
           /\ \A n \in 1..Len(pages) :
                 Joined(pages, n) = Joined(pages, n - 1) \o pages[n]
           /\ \A n \in 0..Len(pages) : Joined(pages, n) \in Seq(M)
<1> DEFINE len == Len(pages)
           Rec(join) == join = [i \in 0..len |->
                                  IF i = 0 THEN <<>> ELSE join[i - 1] \o pages[i]]
           join == CHOOSE f : Rec(f)
<1>1. \E f : Rec(f)
  <2>1. PICK f \in [0..len -> Seq(M)] : IsJoin(f, pages)
    BY JoinExists
  <2>2. Rec(f)
    <3> DEFINE body(i) == IF i = 0 THEN <<>> ELSE f[i - 1] \o pages[i]
    <3>1. f = [i \in 0..len |-> f[i]]
      BY <2>1
    <3>2. \A i \in 0..len : i = 0 \/ i \in 1..len
      OBVIOUS
    <3>3. \A i \in 0..len : f[i] = body(i)
      BY <2>1, <3>2 DEF IsJoin
    <3> HIDE DEF body
    <3>4. f = [i \in 0..len |-> body(i)]
      BY <3>1, <3>3
    <3> QED BY <3>4 DEF body
  <2> QED BY <2>2
<1>2. Rec(join)
  <2> HIDE DEF Rec
  <2> QED BY <1>1
<1>3. \A n : Joined(pages, n) = join[n]
  BY DEF Joined
<1>4. len \in Nat /\ \A i \in 1..len : pages[i] \in Seq(M)
  OBVIOUS
<1>5. join[0] = <<>> /\ \A i \in 1..len : join[i] = join[i - 1] \o pages[i]
  <2>1. \A f : f = [i \in 0..len |-> IF i = 0 THEN <<>> ELSE f[i - 1] \o pages[i]] =>
            f[0] = <<>> /\ \A i \in 1..len : f[i] = f[i - 1] \o pages[i]
    <3> TAKE f
    <3> HAVE f = [i \in 0..len |-> IF i = 0 THEN <<>> ELSE f[i - 1] \o pages[i]]
    <3>1. 0 \in 0..len /\ \A i \in 1..len : i \in 0..len /\ i # 0
      BY <1>4
    <3> QED BY <3>1, Zenon
  <2> HIDE DEF join
  <2> QED BY <1>2, <2>1
<1> HIDE DEF join
<1> DEFINE S == {n \in Nat : n <= len => join[n] \in Seq(M)}
<1>6. 0 \in S
  BY <1>5, EmptySeq
<1>7. ASSUME NEW n \in S PROVE n + 1 \in S
  <2>1. SUFFICES ASSUME n + 1 <= len PROVE join[n + 1] \in Seq(M)
    OBVIOUS
  <2>2. n \in Nat /\ n <= len /\ n + 1 \in 1..len /\ (n + 1) - 1 = n
    BY <1>4, <2>1
  <2>3. join[n] \in Seq(M) /\ pages[n + 1] \in Seq(M)
    BY <1>4, <2>2
  <2>4. join[n + 1] = join[n] \o pages[n + 1]
    BY <1>5, <2>2
  <2> QED BY <2>3, <2>4, ConcatProperties
<1>8. S = Nat
  <2>1. S \in SUBSET Nat
    OBVIOUS
  <2> HIDE DEF S
  <2> QED BY <1>6, <1>7, <2>1, Induction
<1>9. \A n \in 0..len : join[n] \in Seq(M)
  BY <1>4, <1>8
<1> QED BY <1>3, <1>5, <1>9

\* A paginated list is made of pages of its elements.
LEMMA PagesOfList ==
    ASSUME NEW M, NEW list, IsPaginated(list), \A i \in DOMAIN list : ToSet(list[i]) \subseteq M
    PROVE  /\ list \in Seq(Seq(M)) /\ list # <<>>
           /\ DOMAIN list = 1..Len(list) /\ Len(list) \in Nat \ {0}
           /\ \A n \in 1..Len(list) : Joined(list, n - 1) \o list[n] = Joined(list, n)
           /\ \A n \in 0..Len(list) : Joined(list, n) \in Seq(M)
           /\ Joined(list, 0) = <<>>
<1>1. /\ list \in Seq(ToSet(list)) /\ list # <<>>
      /\ \A i \in DOMAIN list : list[i] \in Seq(ToSet(list[i]))
  BY DEF IsPaginated
<1>2. DOMAIN list = 1..Len(list) /\ Len(list) \in Nat /\ Len(list) # 0
  BY <1>1, EmptySeq
<1>3. list \in Seq(Seq(M))
  <2>1. \A i \in 1..Len(list) : list[i] \in Seq(M)
    <3> TAKE i \in 1..Len(list)
    <3>1. list[i] \in Seq(ToSet(list[i])) /\ ToSet(list[i]) \subseteq M
      BY <1>1, <1>2
    <3> QED BY <3>1
  <2>2. list = [i \in 1..Len(list) |-> list[i]]
    BY <1>1, <1>2
  <2> QED BY <1>2, <2>1, <2>2, IsASeq
<1> QED BY <1>1, <1>2, <1>3, JoinedPages

-----------------------------------------------------------------------------
(* The workspace *)

\* A history is whole when its last page has been joined to the others.
LEMMA HistoryPages ==
    ASSUME NEW c \in Channels
    PROVE  /\ DOMAIN History[c] = 1..Len(History[c]) /\ Len(History[c]) \in Nat \ {0}
           /\ \A n \in DOMAIN History[c] :
                 /\ Joined(History[c], n - 1) \o History[c][n] = Joined(History[c], n)
                 /\ Joined(History[c], n) \in Seq(Posted(c))
           /\ Joined(History[c], 0) = <<>>
           /\ Everything(c) = Joined(History[c], Len(History[c]))
<1> DEFINE list == History[c]
<1>1. IsPaginated(list)
  BY WorkspaceAssumption
<1>2. \A i \in DOMAIN list : ToSet(list[i]) \subseteq Posted(c)
  BY DEF Posted
<1>3. Everything(c) = Joined(list, Len(list))
  BY DEF Everything
<1> HIDE DEF list
<1>4. /\ DOMAIN list = 1..Len(list) /\ Len(list) \in Nat \ {0}
      /\ \A n \in 1..Len(list) : Joined(list, n - 1) \o list[n] = Joined(list, n)
      /\ \A n \in 0..Len(list) : Joined(list, n) \in Seq(Posted(c))
      /\ Joined(list, 0) = <<>>
  BY <1>1, <1>2, PagesOfList
<1>5. \A n \in 1..Len(list) : n \in 0..Len(list)
  OBVIOUS
<1> QED BY <1>3, <1>4, <1>5 DEF list

\* So is a thread, and one without replies has none.
LEMMA ThreadPages ==
    ASSUME NEW c \in Channels, NEW m \in Posted(c), m.replies # <<>>
    PROVE  /\ DOMAIN m.replies = 1..Len(m.replies) /\ Len(m.replies) \in Nat \ {0}
           /\ \A n \in DOMAIN m.replies :
                 /\ Joined(m.replies, n - 1) \o m.replies[n] = Joined(m.replies, n)
                 /\ \E M : Joined(m.replies, n - 1) \in Seq(M) /\ Joined(m.replies, n) \in Seq(M)
           /\ Joined(m.replies, 0) = <<>>
<1> DEFINE list == m.replies
           M == UNION {ToSet(list[i]) : i \in DOMAIN list}
<1>1. IsPaginated(list)
  BY WorkspaceAssumption
<1>2. \A i \in DOMAIN list : ToSet(list[i]) \subseteq M
  OBVIOUS
<1> HIDE DEF list, M
<1>4. /\ DOMAIN list = 1..Len(list) /\ Len(list) \in Nat \ {0}
      /\ \A n \in 1..Len(list) : Joined(list, n - 1) \o list[n] = Joined(list, n)
      /\ \A n \in 0..Len(list) : Joined(list, n) \in Seq(M)
      /\ Joined(list, 0) = <<>>
  BY <1>1, <1>2, PagesOfList
<1>5. \A n \in 1..Len(list) : n - 1 \in 0..Len(list) /\ n \in 0..Len(list)
  BY <1>4
<1>6. \A n \in DOMAIN list :
         \E MM : Joined(list, n - 1) \in Seq(MM) /\ Joined(list, n) \in Seq(MM)
  BY <1>4, <1>5
<1> QED BY <1>4, <1>6 DEF list

\* A message that has no thread has no replies.
LEMMA NoReplies ==
    ASSUME NEW m, m.replies = <<>>
    PROVE  AllReplies(m) = {}
<1>1. << >> \in Seq(Seq({})) /\ Len(<<>>) = 0
  BY EmptySeq
<1>2. Joined(<<>>, 0) = <<>>
  BY <1>1, JoinedPages
<1>3. ToSet(<<>>) = {}
  BY EmptySeq DEF ToSet
<1> QED BY <1>1, <1>2, <1>3 DEF AllReplies

\* A message is known by its id, and an attachment has a kind and a type of its own.
LEMMA MessagesDiffer ==
    ASSUME NEW c \in Channels
    PROVE  /\ \A m \in Posted(c) :
                 /\ DOMAIN m.items = 1..Len(m.items) /\ Len(m.items) \in Nat
                 /\ \A j \in DOMAIN m.items :
                       /\ m.items[j].surface \in {"file", "canvas"}
                       /\ m.items[j].text \in BOOLEAN
           /\ \A m, n \in Posted(c) : m.id = n.id => m = n
           /\ \A m, n \in Posted(c) : \A x \in ToSet(m.items), y \in ToSet(n.items) :
                 Key(x) = Key(y) => x.text = y.text
<1>1. ASSUME NEW m \in Posted(c)
      PROVE  /\ DOMAIN m.items = 1..Len(m.items) /\ Len(m.items) \in Nat
             /\ \A j \in DOMAIN m.items :
                   /\ m.items[j].surface \in {"file", "canvas"}
                   /\ m.items[j].text \in BOOLEAN
  <2>1. /\ m.items \in Seq(ToSet(m.items))
        /\ \A item \in ToSet(m.items) :
              item.surface \in {"file", "canvas"} /\ item.text \in BOOLEAN
    BY WorkspaceAssumption
  <2>2. \A j \in DOMAIN m.items : m.items[j] \in ToSet(m.items)
    BY DEF ToSet
  <2>3. DOMAIN m.items = 1..Len(m.items) /\ Len(m.items) \in Nat
    BY <2>1
  <2> QED BY <2>1, <2>2, <2>3
<1> QED BY <1>1, WorkspaceAssumption

-----------------------------------------------------------------------------
(* What the steps of a channel have in common *)

\* What one more of some counters does to what the ledger tells
LEMMA Counting ==
    ASSUME SlackType, NEW c \in Channels, NEW s \in Surfaces, NEW kinds,
           Count(c, s, kinds)
    PROVE  /\ ledger' \in [Channels -> [Surfaces -> [Counters -> Nat]]]
           /\ \A d \in Channels : d # c => ledger'[d] = ledger[d]
           /\ \A x \in Surfaces : Lost(c, x) => Lost(c, x)'
           /\ "truncated" \in kinds => Lost(c, s)'
           /\ \A x \in Surfaces : x # s \/ "truncated" \notin kinds =>
                 (Lost(c, x)' <=> Lost(c, x))
<1> DEFINE counts == [k \in Counters |-> ledger[c][s][k] + IF k \in kinds THEN 1 ELSE 0]
<1>1. ledger \in [Channels -> [Surfaces -> [Counters -> Nat]]]
  BY DEF SlackType
<1>2. ledger' = [ledger EXCEPT ![c] = [@ EXCEPT ![s] = counts]]
  BY DEF Count
<1>3. counts \in [Counters -> Nat]
  <2>1. \A k \in Counters : ledger[c][s][k] \in Nat
    BY <1>1
  <2> QED BY <2>1
<1>4. ledger'[c] = [ledger[c] EXCEPT ![s] = counts]
      /\ \A d \in Channels : d # c => ledger'[d] = ledger[d]
  BY <1>1, <1>2
<1>5. ledger' \in [Channels -> [Surfaces -> [Counters -> Nat]]]
  <2> HIDE DEF counts
  <2> QED BY <1>1, <1>2, <1>3
<1>6. ledger'[c][s] = counts /\ \A x \in Surfaces : x # s => ledger'[c][x] = ledger[c][x]
  <2> HIDE DEF counts
  <2> QED BY <1>1, <1>4
<1>7. "truncated" \in Counters
  BY DEF Counters
<1>8. ledger'[c][s]["truncated"] =
         ledger[c][s]["truncated"] + IF "truncated" \in kinds THEN 1 ELSE 0
  BY <1>6, <1>7
<1>9. ledger[c][s]["truncated"] \in Nat
  BY <1>1, <1>7
<1>10. Lost(c, s) => Lost(c, s)'
  BY <1>8, <1>9 DEF Lost
<1>11. "truncated" \in kinds => Lost(c, s)'
  BY <1>8, <1>9 DEF Lost
<1>12. "truncated" \notin kinds => (Lost(c, s)' <=> Lost(c, s))
  BY <1>8, <1>9 DEF Lost
<1>13. \A x \in Surfaces : x # s => (Lost(c, x)' <=> Lost(c, x))
  BY <1>6 DEF Lost
<1> QED BY <1>4, <1>5, <1>10, <1>11, <1>12, <1>13

\* What the invariant says of a channel
Channel(c) == <<at[c], page[c], got[c], replies[c], turn[c], cut[c], seen[c], ledger[c], docs[c]>>

\* The step of another channel leaves it alone; only the flag is shared.
LEMMA ChannelUntouched ==
    ASSUME NEW c \in Channels, ChannelInv(c), Channel(c)' = Channel(c), partial => partial'
    PROVE  ChannelInv(c)'
<1>1. /\ at'[c] = at[c] /\ page'[c] = page[c] /\ got'[c] = got[c] /\ replies'[c] = replies[c]
      /\ turn'[c] = turn[c] /\ cut'[c] = cut[c] /\ seen'[c] = seen[c]
      /\ ledger'[c] = ledger[c] /\ docs'[c] = docs[c]
  BY DEF Channel
<1>2. Message(c)' = Message(c)
  BY <1>1 DEF Message
<1>3. Item(c)' = Item(c)
  BY <1>1, <1>2 DEF Item
<1>4. \A x : Lost(c, x)' <=> Lost(c, x)
  BY <1>1 DEF Lost
<1>5. \A x, y : Whole(c, x, y)' <=> Whole(c, x, y)
  BY <1>1 DEF Whole
<1>6. \A m : RepliesAreWhole(c, m)' <=> RepliesAreWhole(c, m)
  BY <1>5 DEF RepliesAreWhole
<1>7. \A m : MessageIsWhole(c, m)' <=> MessageIsWhole(c, m)
  BY <1>5, <1>6 DEF MessageIsWhole
<1>8. Placed(c)'
  BY <1>1, <1>2 DEF ChannelInv, Placed
<1>9. LossIsTold(c)' /\ ReadToTheEnd(c)'
  BY <1>1, <1>4 DEF ChannelInv, LossIsTold, ReadToTheEnd
<1>10. MarksHold(c)'
  BY <1>1, <1>4, <1>6 DEF ChannelInv, MarksHold, MarkHolds
<1>11. PassedIsWhole(c)'
  BY <1>1, <1>2, <1>3, <1>5, <1>7 DEF ChannelInv, PassedIsWhole
<1> QED BY <1>8, <1>9, <1>10, <1>11 DEF ChannelInv

\* Documents are only ever added.
LEMMA WholeForGood ==
    ASSUME NEW c, docs[c] \subseteq docs'[c]
    PROVE  /\ \A x, y : Whole(c, x, y) => Whole(c, x, y)'
           /\ \A m : RepliesAreWhole(c, m) => RepliesAreWhole(c, m)'
           /\ \A m : MessageIsWhole(c, m) => MessageIsWhole(c, m)'
<1>1. \A x, y : Whole(c, x, y) => Whole(c, x, y)'
  BY DEF Whole
<1>2. \A m : RepliesAreWhole(c, m) => RepliesAreWhole(c, m)'
  BY <1>1 DEF RepliesAreWhole
<1>3. \A m : MessageIsWhole(c, m) => MessageIsWhole(c, m)'
  BY <1>1, <1>2 DEF MessageIsWhole
<1> QED BY <1>1, <1>2, <1>3

\* A step of the task of channel c
ChannelStep(c) == Histories(c) \/ Interrupt(c) \/ Messages(c) \/ Attachments(c) \/ Threads(c)

\* Of f, at most the value for x changes.
Alone(f, g, x) == DOMAIN g = DOMAIN f /\ \A y \in DOMAIN f : y # x => g[y] = f[y]

\* EXCEPT changes at most one value.
LEMMA OnlyAt ==
    /\ \A f, x, v : Alone(f, [f EXCEPT ![x] = v], x)
    /\ \A f, x : Alone(f, f, x)
BY DEF Alone

\* What a step of channel c changes
Changes(c) ==
    /\ Alone(at, at', c) /\ Alone(sent, sent', c) /\ Alone(retries, retries', c)
    /\ Alone(page, page', c) /\ Alone(got, got', c) /\ Alone(replies, replies', c)
    /\ Alone(turn, turn', c) /\ Alone(cut, cut', c) /\ Alone(seen, seen', c)
    /\ Alone(ledger, ledger', c) /\ Alone(docs, docs', c)

\* What it leaves alone, and what it does to the flags
Apart(c) ==
    /\ \A d \in Channels : d # c => Channel(d)' = Channel(d)
    /\ at'[Main] = at[Main] /\ page'[Main] = page[Main] /\ found' = found
    /\ partial => partial'
    /\ interrupted' => interrupted \/ partial'
    /\ at'[c] # "idle"
    /\ result' \in {result, "RAISED"}

\* A step of a channel changes nothing of another one.
LEMMA OneChannel ==
    ASSUME NEW c \in Channels, ChannelStep(c)
    PROVE  Changes(c)
<1> DEFINE Only(f, g) == g = f \/ \E v : g = [f EXCEPT ![c] = v]
           Confined == /\ Only(at, at') /\ Only(sent, sent') /\ Only(retries, retries')
                       /\ Only(page, page') /\ Only(got, got') /\ Only(replies, replies')
                       /\ Only(turn, turn') /\ Only(cut, cut') /\ Only(seen, seen')
                       /\ Only(ledger, ledger') /\ Only(docs, docs')
<1>1. ASSUME Histories(c) PROVE Confined
  BY <1>1
  DEF Histories, HistoryPage, HistoryCut, HistoryDenied, HistoryLost, MoveTo,
         Answered, Count, NextMessage, NextItem, TakeReplies, bookVars, listVars
<1>2. ASSUME Interrupt(c) PROVE Confined
  BY <1>2
  DEF Interrupt, MoveTo, Answered, Count, NextMessage, NextItem, TakeReplies,
         bookVars, listVars
<1>3. ASSUME Messages(c) PROVE Confined
  BY <1>3
  DEF Messages, TakeMessage, SkipMessage, ChannelDone, MoveTo, Answered, Count,
         NextMessage, NextItem, TakeReplies, bookVars, listVars
<1>4. ASSUME Attachments(c) PROVE Confined
  BY <1>4
  DEF Attachments, MalformedItem, RepeatedItem, UnsupportedItem, OpenItem, ReadItem,
         LoseItem, MoveTo, Answered, Count, NextMessage, NextItem, TakeReplies,
         bookVars, listVars
<1>5. ASSUME Threads(c) PROVE Confined
  BY <1>5
  DEF Threads, NoThread, UnsupportedThread, OpenThread, ThreadPage, ThreadRead,
         ThreadCut, ThreadLost, MalformedReply, MoveTo, Answered, Count,
         NextMessage, NextItem, TakeReplies, bookVars, listVars
<1> HIDE DEF Only, Confined
<1>6. Confined
  BY <1>1, <1>2, <1>3, <1>4, <1>5 DEF ChannelStep
<1>7. ASSUME NEW f, NEW g, Only(f, g) PROVE Alone(f, g, c)
  <2>1. ASSUME NEW v, g = [f EXCEPT ![c] = v] PROVE Alone(f, g, c)
    BY <2>1, OnlyAt
  <2> QED BY <1>7, <2>1, OnlyAt DEF Only
<1> QED BY <1>6, <1>7 DEF Changes, Confined

\* What it leaves alone, and what it does to the flags
LEMMA StepApart ==
    ASSUME SlackType, NEW c \in Channels, ChannelStep(c)
    PROVE  Apart(c)
<1>1. Changes(c)
  BY OneChannel
<1>2. c \in Tasks /\ Main \in Tasks /\ Main # c /\ Channels \subseteq Tasks
  BY CrawlAssumption DEF Tasks
<1>3. \A d \in Channels : d # c => Channel(d)' = Channel(d)
  BY <1>1, <1>2 DEF Changes, Alone, SlackType, Channel
<1>4. at'[Main] = at[Main] /\ page'[Main] = page[Main]
  BY <1>1, <1>2 DEF Changes, Alone, SlackType
<1> DEFINE Flags == /\ found' = found
                    /\ partial => partial'
                    /\ interrupted' => interrupted \/ partial'
                    /\ result' \in {result, "RAISED"}
           Goes == \/ \E v \in TaskPlaces \ {"idle"} : at' = [at EXCEPT ![c] = v]
                   \/ at' = at /\ at[c] # "idle"
<1>5. ASSUME Histories(c) PROVE Flags /\ Goes
  <2>1. Flags
    <3>1. CASE HistoryCut(c)
      BY <3>1, Zenon DEF HistoryCut, listVars
    <3>2. CASE ~HistoryCut(c)
      BY <1>5, <3>2
      DEF SlackType, TaskPlaces, Histories, HistoryPage, HistoryDenied,
           HistoryLost, MoveTo, Count, NextMessage, TakeReplies, bookVars, listVars
    <3> QED BY <3>1, <3>2
  <2>2. Goes
    BY <1>5
    DEF SlackType, TaskPlaces, Histories, HistoryPage, HistoryCut, HistoryDenied,
         HistoryLost, MoveTo, Count, NextMessage, TakeReplies, bookVars, listVars
  <2> QED BY <2>1, <2>2
<1>6. ASSUME Interrupt(c) PROVE Flags /\ Goes
  BY <1>6
  DEF SlackType, TaskPlaces, Interrupt, MoveTo, Count, NextMessage, TakeReplies, bookVars,
       listVars
<1>7. ASSUME Messages(c) PROVE Flags /\ Goes
  BY <1>7
  DEF SlackType, TaskPlaces, Messages, TakeMessage, SkipMessage, ChannelDone, MoveTo,
       Count, NextMessage, TakeReplies, bookVars, listVars
<1>8. ASSUME Attachments(c) PROVE Flags /\ Goes
  BY <1>8
  DEF SlackType, TaskPlaces, Attachments, MalformedItem, RepeatedItem, UnsupportedItem,
       OpenItem, ReadItem, LoseItem, Pending, MoveTo, Count, NextMessage,
       TakeReplies, bookVars, listVars
<1>9. ASSUME Threads(c) PROVE Flags /\ Goes
  <2>1. Flags
    <3>1. CASE ThreadCut(c)
      BY <3>1, Zenon DEF ThreadCut, listVars
    <3>2. CASE ~ThreadCut(c)
      BY <1>9, <3>2
      DEF SlackType, TaskPlaces, Threads, NoThread, UnsupportedThread, OpenThread, ThreadPage,
           ThreadRead, ThreadLost, MalformedReply, ItemsDone, MoveTo,
           Count, NextMessage, TakeReplies, bookVars, listVars
    <3> QED BY <3>1, <3>2
  <2>2. Goes
    BY <1>9
    DEF SlackType, TaskPlaces, Threads, NoThread, UnsupportedThread, OpenThread, ThreadPage,
         ThreadRead, ThreadCut, ThreadLost, MalformedReply, ItemsDone, MoveTo,
         Count, NextMessage, TakeReplies, bookVars, listVars
  <2> QED BY <2>1, <2>2
<1>10. Flags /\ Goes
  <2> HIDE DEF Flags, Goes
  <2> QED BY <1>5, <1>6, <1>7, <1>8, <1>9 DEF ChannelStep
<1>11. at'[c] # "idle"
  BY <1>2, <1>10 DEF SlackType
<1> QED BY <1>3, <1>4, <1>10, <1>11 DEF Apart

\* What is counted of the replies of a thread
LEMMA CountingReplies ==
    ASSUME SlackType, NEW c \in Channels, NEW M, NEW messages \in Seq(M), NEW kinds,
           TakeReplies(c, messages, kinds)
    PROVE  /\ ledger' \in [Channels -> [Surfaces -> [Counters -> Nat]]]
           /\ \A x \in Surfaces : Lost(c, x) => Lost(c, x)'
           /\ "truncated" \in kinds => Lost(c, "thread_reply")'
           /\ \A x \in Surfaces : x # "thread_reply" \/ "truncated" \notin kinds =>
                 (Lost(c, x)' <=> Lost(c, x))
<1> DEFINE s == "thread_reply"
           others == RepliesIn(c, messages)
           more == Cardinality(others)
           plus(k) == (IF k \in {"discovered", "fetched"} THEN more ELSE 0)
                          + (IF k \in kinds THEN 1 ELSE 0)
           counts == [k \in Counters |->
                         ledger[c][s][k] + (IF k \in {"discovered", "fetched"} THEN more ELSE 0)
                             + (IF k \in kinds THEN 1 ELSE 0)]
<1>1. ledger \in [Channels -> [Surfaces -> [Counters -> Nat]]]
  BY DEF SlackType
<1>2. ledger' = [ledger EXCEPT ![c] = [@ EXCEPT !["thread_reply"] = counts]]
  BY DEF TakeReplies
<1>3. more \in Nat
  <2>1. others \subseteq 1..Len(messages) /\ Len(messages) \in Nat
    BY DEF RepliesIn
  <2>2. IsFiniteSet(1..Len(messages))
    BY <2>1, FS_Interval
  <2>3. IsFiniteSet(others)
    BY <2>1, <2>2, FS_Subset
  <2> QED BY <2>3, FS_CardinalityType
<1> HIDE DEF more
<1>4. s \in Surfaces /\ "truncated" \in Counters
  BY DEF Surfaces, Counters
<1>5. \A k \in Counters : ledger[c][s][k] \in Nat
  BY <1>1, <1>4
<1>6. counts \in [Counters -> Nat]
  BY <1>3, <1>5
<1>7. counts["truncated"] = ledger[c][s]["truncated"]
                               + IF "truncated" \in kinds THEN 1 ELSE 0
  BY <1>4, <1>5, <1>3
<1> HIDE DEF counts
<1>8. ledger' \in [Channels -> [Surfaces -> [Counters -> Nat]]]
  BY <1>1, <1>2, <1>6
<1>9. ledger'[c][s] = counts /\ \A x \in Surfaces : x # s => ledger'[c][x] = ledger[c][x]
  BY <1>1, <1>2, <1>4
<1>10. ledger[c][s]["truncated"] \in Nat
  BY <1>5, <1>4
<1>11. Lost(c, s) => Lost(c, s)'
  BY <1>7, <1>9, <1>10 DEF Lost
<1>12. "truncated" \in kinds => Lost(c, s)'
  BY <1>7, <1>9, <1>10 DEF Lost
<1>13. "truncated" \notin kinds => (Lost(c, s)' <=> Lost(c, s))
  BY <1>7, <1>9, <1>10 DEF Lost
<1>14. \A x \in Surfaces : x # s => (Lost(c, x)' <=> Lost(c, x))
  BY <1>9 DEF Lost
<1> QED BY <1>8, <1>11, <1>12, <1>13, <1>14

\* Where a task is among the messages of its channel
LEMMA AtHand ==
    ASSUME SlackType, NEW c \in Channels, Placed(c)
    PROVE  /\ DOMAIN got[c] = 1..Len(got[c]) /\ Len(got[c]) \in Nat
           /\ \A i \in DOMAIN got[c] : got[c][i] \in Posted(c)
           /\ turn[c] \in [message : Nat \ {0}, item : Nat \ {0}]
           /\ at[c] = "messages" /\ turn[c].message <= Len(got[c]) =>
                 turn[c].message \in DOMAIN got[c]
           /\ turn[c].message \in DOMAIN got[c] =>
                 /\ Message(c) \in Posted(c)
                 /\ DOMAIN Message(c).items = 1..Len(Message(c).items)
                 /\ Len(Message(c).items) \in Nat
                 /\ turn[c].item <= Len(Message(c).items) =>
                       turn[c].item \in DOMAIN Message(c).items
                 /\ turn[c].item \in DOMAIN Message(c).items =>
                       /\ Item(c) \in ToSet(Message(c).items)
                       /\ Item(c).surface \in {"file", "canvas"} /\ Item(c).text \in BOOLEAN
<1>1. DOMAIN got[c] = 1..Len(got[c]) /\ Len(got[c]) \in Nat
      /\ \A i \in DOMAIN got[c] : got[c][i] \in Posted(c)
  BY DEF Placed
<1>2. turn[c] \in [message : Nat \ {0}, item : Nat \ {0}]
  BY DEF SlackType
<1> DEFINE n == turn[c].message
           k == turn[c].item
<1>3. n \in Nat \ {0} /\ k \in Nat \ {0}
  BY <1>2
<1> HIDE DEF n, k
<1>4. n <= Len(got[c]) => n \in DOMAIN got[c]
  BY <1>1, <1>3
<1>5. ASSUME n \in DOMAIN got[c]
      PROVE  /\ Message(c) \in Posted(c)
             /\ DOMAIN Message(c).items = 1..Len(Message(c).items)
             /\ Len(Message(c).items) \in Nat
             /\ k <= Len(Message(c).items) => k \in DOMAIN Message(c).items
             /\ k \in DOMAIN Message(c).items =>
                   /\ Item(c) \in ToSet(Message(c).items)
                   /\ Item(c).surface \in {"file", "canvas"} /\ Item(c).text \in BOOLEAN
  <2>1. Message(c) \in Posted(c)
    BY <1>1, <1>5 DEF n, Message
  <2>2. /\ DOMAIN Message(c).items = 1..Len(Message(c).items)
        /\ Len(Message(c).items) \in Nat
        /\ \A j \in DOMAIN Message(c).items :
              /\ Message(c).items[j].surface \in {"file", "canvas"}
              /\ Message(c).items[j].text \in BOOLEAN
    BY <2>1, MessagesDiffer
  <2>3. Item(c) = Message(c).items[k]
    BY DEF Item, k
  <2>4. k <= Len(Message(c).items) => k \in DOMAIN Message(c).items
    BY <1>3, <2>2
  <2>5. k \in DOMAIN Message(c).items => Item(c) \in ToSet(Message(c).items)
    BY <2>3, Elements
  <2> QED BY <2>1, <2>2, <2>3, <2>4, <2>5
<1> QED BY <1>1, <1>2, <1>4, <1>5 DEF n, k

\* What a task has of the thread it reads
LEMMA ThreadAtHand ==
    ASSUME SlackType, NEW c \in Channels, Placed(c), at[c] = "thread"
    PROVE  /\ turn[c].message \in DOMAIN got[c] /\ Message(c) \in Posted(c)
           /\ page[c] \in 1..Len(Thread(c)) /\ Len(Thread(c)) \in Nat
           /\ replies[c] \o Thread(c)[page[c]] = Joined(Thread(c), page[c])
           /\ \E M : replies[c] \in Seq(M) /\ Joined(Thread(c), page[c]) \in Seq(M)
<1>1. /\ turn[c].message \in DOMAIN got[c] /\ Thread(c) # <<>>
      /\ page[c] \in DOMAIN Thread(c) /\ replies[c] = Joined(Thread(c), page[c] - 1)
  BY DEF Placed, Thread
<1>2. Message(c) \in Posted(c)
  BY <1>1, AtHand
<1> DEFINE m == Message(c)
<1>3. /\ DOMAIN m.replies = 1..Len(m.replies) /\ Len(m.replies) \in Nat \ {0}
      /\ \A n \in DOMAIN m.replies :
            /\ Joined(m.replies, n - 1) \o m.replies[n] = Joined(m.replies, n)
            /\ \E M : Joined(m.replies, n - 1) \in Seq(M) /\ Joined(m.replies, n) \in Seq(M)
  BY <1>1, <1>2, ThreadPages DEF Thread
<1> HIDE DEF m
<1> QED BY <1>1, <1>2, <1>3 DEF m, Thread

\* A step of a channel keeps the types.
LEMMA StepTyped ==
    ASSUME SlackType, NEW c \in Channels, Placed(c), ChannelStep(c)
    PROVE  SlackType'
<1>1. Changes(c) /\ c \in Tasks
  BY OneChannel DEF Tasks
<1>2. /\ DOMAIN at' = Tasks /\ DOMAIN sent' = Tasks /\ DOMAIN retries' = Tasks
      /\ DOMAIN page' = Tasks
      /\ DOMAIN got' = Channels /\ DOMAIN replies' = Channels
      /\ DOMAIN cut' = Channels /\ DOMAIN seen' = Channels /\ DOMAIN docs' = Channels
  BY <1>1 DEF Changes, Alone, SlackType
<1> DEFINE Turns == \/ turn' = turn
                    \/ turn' = [turn EXCEPT ![c] = [message |-> @.message + 1, item |-> 1]]
                    \/ turn' = [turn EXCEPT ![c].item = @ + 1]
           Ledgers == \/ ledger' = ledger
                      \/ \E s \in {"message", "thread_reply"} : \E k : Count(c, s, k)
                      \/ Item(c).surface \in Surfaces /\ \E k : Count(c, Item(c).surface, k)
                      \/ \E M : \E messages \in Seq(M) : \E k : TakeReplies(c, messages, k)
           Flags == partial' \in BOOLEAN /\ interrupted' \in BOOLEAN
<1>3. ASSUME Histories(c) PROVE Turns /\ Ledgers /\ Flags
  <2>1. Turns
    BY <1>3
    DEF Histories, HistoryPage, HistoryCut, HistoryDenied, HistoryLost, NextMessage,
        TakeReplies
  <2>2. Ledgers
    BY <1>3 DEF Histories, HistoryPage, HistoryCut, HistoryDenied, HistoryLost, bookVars
  <2>3. Flags
    BY <1>3
    DEF SlackType, Histories, HistoryPage, HistoryCut, HistoryDenied, HistoryLost,
        bookVars
  <2> QED BY <2>1, <2>2, <2>3
<1>4. ASSUME Interrupt(c) PROVE Turns /\ Ledgers /\ Flags
  <2>1. Turns
    BY <1>4
    DEF Interrupt, NextMessage, TakeReplies
  <2>2. Ledgers
    BY <1>4 DEF Interrupt, bookVars
  <2>3. Flags
    BY <1>4
    DEF SlackType, Interrupt, bookVars
  <2> QED BY <2>1, <2>2, <2>3
<1>5. ASSUME Messages(c) PROVE Turns /\ Ledgers /\ Flags
  <2>1. Turns
    BY <1>5
    DEF Messages, TakeMessage, SkipMessage, ChannelDone, NextMessage, TakeReplies
  <2>2. Ledgers
    BY <1>5 DEF Messages, TakeMessage, SkipMessage, ChannelDone, bookVars
  <2>3. Flags
    BY <1>5
    DEF SlackType, Messages, TakeMessage, SkipMessage, ChannelDone, bookVars
  <2> QED BY <2>1, <2>2, <2>3
<1>6. ASSUME Attachments(c) PROVE Turns /\ Ledgers /\ Flags
  <2>1. Turns
    BY <1>6
    DEF Attachments, MalformedItem, RepeatedItem, UnsupportedItem, OpenItem, ReadItem, LoseItem,
        NextItem
  <2>2. Ledgers
    <3>1. \E k : Count(c, Item(c).surface, k)
      BY <1>6
      DEF Attachments, MalformedItem, RepeatedItem, UnsupportedItem, OpenItem, ReadItem,
          LoseItem
    <3>2. turn[c].item \in DOMAIN Message(c).items /\ turn[c].message \in DOMAIN got[c]
      <4>1. Pending(c) \/ at[c] = "reading"
        BY <1>6
        DEF Attachments, MalformedItem, RepeatedItem, UnsupportedItem, OpenItem, ReadItem,
            LoseItem
      <4> QED BY <4>1, AtHand DEF Pending, Placed
    <3>3. Item(c).surface \in Surfaces
      BY <3>2, AtHand DEF Surfaces
    <3> QED BY <3>1, <3>3
  <2>3. Flags
    <3>1. interrupted' = interrupted /\ (partial' = partial \/ partial' \in BOOLEAN)
      BY <1>6
      DEF Attachments, MalformedItem, RepeatedItem, UnsupportedItem, OpenItem, ReadItem,
          LoseItem
    <3> QED BY <3>1 DEF SlackType
  <2> QED BY <2>1, <2>2, <2>3
<1>7. ASSUME Threads(c) PROVE Turns /\ Ledgers /\ Flags
  <2>1. Turns
    BY <1>7
    DEF Threads, NoThread, UnsupportedThread, OpenThread, ThreadPage, ThreadRead,
        ThreadCut, ThreadLost, MalformedReply, NextMessage, TakeReplies
  <2>2. Ledgers
    <3>1. CASE ThreadRead(c)
      <4>1. at[c] = "thread"
        BY <3>1 DEF ThreadRead
      <4>2. TakeReplies(c, Joined(Thread(c), page[c]), {})
        BY <3>1, <4>1, ThreadAtHand DEF ThreadRead
      <4> QED BY <4>1, <4>2, ThreadAtHand
    <3>2. CASE ThreadCut(c)
      <4>1. at[c] = "thread" /\ TakeReplies(c, replies[c], {"truncated"})
        BY <3>2 DEF ThreadCut
      <4> QED BY <4>1, ThreadAtHand
    <3>3. CASE ~ThreadRead(c) /\ ~ThreadCut(c)
      BY <1>7, <3>3
      DEF Threads, NoThread, UnsupportedThread, OpenThread, ThreadPage, ThreadLost,
          MalformedReply, bookVars
    <3> QED BY <3>1, <3>2, <3>3
  <2>3. Flags
    BY <1>7
    DEF SlackType, Threads, NoThread, UnsupportedThread, OpenThread, ThreadPage,
        ThreadRead, ThreadCut, ThreadLost, MalformedReply, bookVars
  <2> QED BY <2>1, <2>2, <2>3
<1>8. Turns /\ Ledgers /\ Flags
  <2> HIDE DEF Turns, Ledgers, Flags
  <2> QED BY <1>3, <1>4, <1>5, <1>6, <1>7 DEF ChannelStep
<1>9. turn' \in [Channels -> [message : Nat \ {0}, item : Nat \ {0}]]
  <2> DEFINE rec == turn[c]
  <2>1. rec \in [message : Nat \ {0}, item : Nat \ {0}]
    BY DEF SlackType
  <2>2. [message |-> rec.message + 1, item |-> 1] \in [message : Nat \ {0}, item : Nat \ {0}]
    <3> HIDE DEF rec
    <3> QED BY <2>1
  <2>3. [rec EXCEPT !.item = @ + 1] \in [message : Nat \ {0}, item : Nat \ {0}]
    <3> HIDE DEF rec
    <3> QED BY <2>1
  <2>4. \E v \in [message : Nat \ {0}, item : Nat \ {0}] :
            turn' = turn \/ turn' = [turn EXCEPT ![c] = v]
    BY <1>8, <2>1, <2>2, <2>3
  <2> QED BY <2>4 DEF SlackType
<1>10. ledger' \in [Channels -> [Surfaces -> [Counters -> Nat]]]
  <2>1. CASE ledger' = ledger
    BY <2>1 DEF SlackType
  <2>2. ASSUME NEW s \in Surfaces, NEW k, Count(c, s, k)
        PROVE  ledger' \in [Channels -> [Surfaces -> [Counters -> Nat]]]
    BY <2>2, Counting
  <2>3. ASSUME NEW M, NEW messages \in Seq(M), NEW k, TakeReplies(c, messages, k)
        PROVE  ledger' \in [Channels -> [Surfaces -> [Counters -> Nat]]]
    BY <2>3, CountingReplies
  <2>4. {"message", "thread_reply"} \subseteq Surfaces
    BY DEF Surfaces
  <2> QED BY <1>8, <2>1, <2>2, <2>3, <2>4
<1> QED BY <1>2, <1>8, <1>9, <1>10 DEF SlackType

-----------------------------------------------------------------------------
(* The invariant of a channel, kept by its task *)

\* The loop over the messages: the history stays what it is, documents and losses
\* are only added.
Passing(c) ==
    /\ \/ at[c] \in {"messages", "items", "reading", "thread"}
       \/ at'[c] \in Ended /\ docs'[c] = docs[c]
    /\ got'[c] = got[c] /\ cut'[c] = cut[c]
    /\ docs[c] \subseteq docs'[c]
    /\ partial => partial'
    /\ \A s \in Surfaces : Lost(c, s) => Lost(c, s)'
    /\ Lost(c, "thread_reply")' => Lost(c, "thread_reply") \/ partial'
    /\ at'[c] = "interrupted" => partial'
    /\ \A d \in docs'[c] : d \notin docs[c] => MarkHolds(c, d)'

\* Such a step keeps what the invariant says of losses, of the history and of marks.
LEMMA PassingKeeps ==
    ASSUME NEW c \in Channels, ChannelInv(c), Passing(c)
    PROVE  LossIsTold(c)' /\ ReadToTheEnd(c)' /\ MarksHold(c)'
<1>1. "message" \in Surfaces /\ "thread_reply" \in Surfaces
  BY DEF Surfaces
<1>2. LossIsTold(c)'
  BY <1>1 DEF Passing, ChannelInv, LossIsTold
<1>3. Everything(c)' = Everything(c)
  BY DEF Everything, Joined
<1>4. ReadToTheEnd(c)'
  BY <1>3 DEF Passing, ChannelInv, ReadToTheEnd, Ended
<1>5. ASSUME NEW d \in docs[c] PROVE MarkHolds(c, d)'
  <2>1. MarkHolds(c, d)
    BY DEF ChannelInv, MarksHold
  <2>2. \A m : RepliesAreWhole(c, m) => RepliesAreWhole(c, m)'
    BY WholeForGood DEF Passing
  <2>3. /\ got'[c] = got[c] /\ cut'[c] = cut[c]
        /\ Lost(c, "thread_reply") => Lost(c, "thread_reply")'
    BY <1>1 DEF Passing
  <2> QED BY <2>1, <2>2, <2>3 DEF MarkHolds
<1>6. MarksHold(c)'
  <2>1. \A d \in docs'[c] : MarkHolds(c, d)'
    BY <1>5 DEF Passing
  <2> QED BY <2>1 DEF MarksHold
<1> QED BY <1>2, <1>4, <1>6

\* Where something is lost, nothing more is promised.
LEMMA PartialPromisesNothing ==
    ASSUME NEW c, partial'
    PROVE  PassedIsWhole(c)'
BY DEF PassedIsWhole

\* The history of a channel
LEMMA HistoryKeeps ==
    ASSUME SlackType, NEW c \in Channels, ChannelInv(c), Histories(c)
    PROVE  ChannelInv(c)'
<1>1. /\ at[c] = "history" /\ docs[c] = {} /\ seen[c] = {}
      /\ ~cut[c] /\ cut[c] \in BOOLEAN
      /\ turn[c] = [message |-> 1, item |-> 1] /\ got[c] \in Seq(Posted(c))
      /\ page[c] \in DOMAIN History[c] /\ got[c] = Joined(History[c], page[c] - 1)
  <2>1. at[c] = "history"
    BY DEF Histories, HistoryPage, HistoryCut, HistoryDenied, HistoryLost
  <2> QED BY <2>1 DEF ChannelInv, Placed
<1>2. c \in Tasks /\ Channel(c) = Channel(c)
  BY DEF Tasks
<1>3. docs' = docs /\ seen' = seen /\ turn' = turn
  BY DEF Histories, HistoryPage, HistoryCut, HistoryDenied, HistoryLost, bookVars
<1>4. MarksHold(c)'
  BY <1>1, <1>3 DEF MarksHold
<1>5. "message" \in Surfaces /\ Posted(c)' = Posted(c)
  BY DEF Surfaces, Posted
<1>6. CASE HistoryPage(c)
  <2>1. /\ got'[c] = Joined(History[c], page[c]) /\ got'[c] \in Seq(Posted(c))
        /\ cut' = cut /\ partial' = partial /\ ledger' = ledger
    <3>1. got'[c] = got[c] \o History[c][page[c]]
      BY <1>6 DEF HistoryPage, SlackType
    <3> QED BY <1>1, <1>6, <3>1, HistoryPages DEF HistoryPage, bookVars
  <2>2. LossIsTold(c)'
    <3>1. at'[c] # "interrupted"
      BY <1>1, <1>2, <1>6 DEF HistoryPage, MoveTo, SlackType
    <3> QED BY <2>1, <3>1 DEF ChannelInv, LossIsTold, Lost
  <2>3. Everything(c)' = Everything(c)
    BY DEF Everything, Joined
  <2>4. page[c] \in 1..Len(History[c]) /\ Len(History[c]) \in Nat
        /\ Everything(c) = Joined(History[c], Len(History[c]))
    BY <1>1, HistoryPages
  <2>5. CASE page[c] < Len(History[c])
    <3>1. page'[c] = page[c] + 1 /\ at'[c] = "history"
      BY <1>1, <1>2, <1>6, <2>5 DEF HistoryPage, SlackType
    <3>2. page'[c] \in DOMAIN History[c] /\ page'[c] - 1 = page[c]
      BY <2>4, <2>5, <3>1, HistoryPages
    <3>3. Placed(c)'
      BY <1>1, <1>3, <1>5, <2>1, <3>1, <3>2 DEF Placed, TaskPlaces
    <3>4. ReadToTheEnd(c)'
      BY <1>1, <1>3, <3>1 DEF ReadToTheEnd
    <3>5. PassedIsWhole(c)'
      <4>1. turn'[c].message = 1 /\ at'[c] = "history" /\ seen'[c] = {}
        BY <1>1, <1>3, <3>1
      <4>2. \A i \in DOMAIN got'[c] : ~(i < 1)
        BY <2>1
      <4> QED BY <4>1, <4>2 DEF PassedIsWhole
    <3> QED BY <1>4, <2>2, <3>3, <3>4, <3>5 DEF ChannelInv
  <2>6. CASE ~(page[c] < Len(History[c]))
    <3>1. at'[c] = "messages" /\ page[c] = Len(History[c])
      BY <1>1, <1>2, <1>6, <2>4, <2>6 DEF HistoryPage, MoveTo, SlackType
    <3>2. Placed(c)'
      BY <1>1, <1>3, <1>5, <2>1, <3>1 DEF Placed, TaskPlaces
    <3>3. ReadToTheEnd(c)'
      BY <2>1, <2>3, <2>4, <3>1 DEF ReadToTheEnd
    <3>4. PassedIsWhole(c)'
      <4>1. turn'[c].message = 1 /\ at'[c] = "messages" /\ seen'[c] = {}
        BY <1>1, <1>3, <3>1
      <4>2. \A i \in DOMAIN got'[c] : ~(i < 1)
        BY <2>1
      <4> QED BY <4>1, <4>2 DEF PassedIsWhole
    <3> QED BY <1>4, <2>2, <3>2, <3>3, <3>4 DEF ChannelInv
  <2> QED BY <2>5, <2>6
<1>7. CASE HistoryCut(c)
  <2>1. at'[c] = "messages" /\ cut'[c] = TRUE /\ partial' /\ got' = got
    BY <1>2, <1>7 DEF HistoryCut, MoveTo, SlackType, listVars
  <2>2. Lost(c, "message")'
    <3>1. Count(c, "message", {"truncated"})
      BY <1>7 DEF HistoryCut
    <3> QED BY <3>1, <1>5, Counting
  <2>3. Placed(c)'
    <3>1. got'[c] \in Seq(Posted(c)')
      BY <1>1, <1>5, <2>1
    <3>2. turn'[c].item = 1
      BY <1>1, <1>3
    <3>3. cut'[c] \in BOOLEAN
      BY <2>1, Zenon
    <3> QED BY <2>1, <3>1, <3>2, <3>3 DEF Placed, TaskPlaces
  <2>4. LossIsTold(c)' /\ ReadToTheEnd(c)'
    BY <2>1, <2>2 DEF LossIsTold, ReadToTheEnd
  <2> QED BY <1>4, <2>1, <2>3, <2>4, PartialPromisesNothing DEF ChannelInv
<1>8. CASE HistoryDenied(c) \/ HistoryLost(c)
  <2>1. at'[c] = "over" /\ cut' = cut /\ partial' /\ got' = got
    BY <1>2, <1>8 DEF HistoryDenied, HistoryLost, MoveTo, SlackType, listVars
  <2>2. Placed(c)'
    BY <1>1, <1>5, <2>1 DEF Placed, TaskPlaces
  <2>3. LossIsTold(c)' /\ ReadToTheEnd(c)'
    BY <1>1, <1>3, <2>1 DEF LossIsTold, ReadToTheEnd
  <2> QED BY <1>4, <2>1, <2>2, <2>3, PartialPromisesNothing DEF ChannelInv
<1> QED BY <1>6, <1>7, <1>8 DEF Histories

\* A step that only counts a loss, or nothing, passes on.
LEMMA LosingPasses ==
    ASSUME SlackType, NEW c \in Channels, NEW s \in Surfaces, NEW k, Count(c, s, k),
           \/ at[c] \in {"messages", "items", "reading", "thread"}
           \/ at'[c] \in Ended,
           got' = got, cut' = cut, docs' = docs, partial'
    PROVE  Passing(c)
<1>1. \A x \in Surfaces : Lost(c, x) => Lost(c, x)'
  BY Counting
<1> QED BY <1>1 DEF Passing

\* A call that is interrupted
LEMMA InterruptKeeps ==
    ASSUME SlackType, NEW c \in Channels, ChannelInv(c), Interrupt(c)
    PROVE  ChannelInv(c)'
<1>1. /\ at'[c] = "interrupted" /\ partial' /\ got' = got /\ cut' = cut /\ docs' = docs
      /\ Count(c, "message", {"truncated"})
  BY DEF Interrupt, MoveTo, SlackType, listVars, Tasks
<1>2. Passing(c)
  BY <1>1, LosingPasses DEF Ended, Surfaces
<1>3. Placed(c)'
  <2>1. Posted(c)' = Posted(c)
    BY DEF Posted
  <2>2. got'[c] \in Seq(Posted(c)') /\ cut'[c] \in BOOLEAN
    BY <1>1, <2>1 DEF ChannelInv, Placed
  <2>3. at'[c] = "interrupted"
    BY <1>1
  <2> QED BY <2>2, <2>3 DEF Placed, TaskPlaces
<1> QED BY <1>1, <1>2, <1>3, PassingKeeps, PartialPromisesNothing DEF ChannelInv

\* Its messages
LEMMA MessagesKeep ==
    ASSUME SlackType, NEW c \in Channels, ChannelInv(c), Messages(c)
    PROVE  ChannelInv(c)'
<1>1. /\ at[c] = "messages" /\ turn[c].item = 1 /\ got' = got /\ cut' = cut /\ seen' = seen
      /\ got[c] \in Seq(Posted(c)) /\ cut[c] \in BOOLEAN
  <2>1. at[c] = "messages"
    BY DEF Messages, TakeMessage, SkipMessage, ChannelDone
  <2>2. got' = got /\ cut' = cut /\ seen' = seen
    BY DEF Messages, TakeMessage, SkipMessage, ChannelDone, bookVars, listVars
  <2> QED BY <2>1, <2>2 DEF ChannelInv, Placed
<1>2. c \in Tasks /\ "message" \in Surfaces /\ Posted(c)' = Posted(c)
      /\ Everything(c)' = Everything(c)
  BY DEF Tasks, Surfaces, Posted, Everything, Joined
<1>3. Placed(c)
  BY DEF ChannelInv
<1>4. CASE TakeMessage(c)
  <2> DEFINE new == Document(Message(c).id, "message", Message(c).id, cut[c])
  <2>1. /\ at'[c] = "items" /\ turn' = turn /\ partial' = partial
        /\ docs'[c] = docs[c] \cup {new}
    BY <1>2, <1>4 DEF TakeMessage, MoveTo, SlackType, listVars
  <2>2. new.surface = "message" /\ new.partial = cut[c] /\ new.id = Message(c).id
    BY DEF Document
  <2> HIDE DEF new
  <2>3. turn[c].message \in DOMAIN got[c]
    BY <1>1, <1>3, <1>4, AtHand DEF TakeMessage
  <2>4. Count(c, "message", {"discovered", "fetched"})
    BY <1>4 DEF TakeMessage
  <2>5. \A x \in Surfaces : Lost(c, x)' <=> Lost(c, x)
    BY <1>2, <2>4, Counting
  <2>6. ASSUME NEW d, d = new PROVE MarkHolds(c, d)'
    <3>1. d.surface # "thread_reply" /\ d.partial = cut'[c]
      BY <1>1, <2>2, <2>6
    <3> QED BY <3>1 DEF MarkHolds
  <2>7. Passing(c)
    BY <1>1, <2>1, <2>5, <2>6 DEF Passing, Surfaces
  <2>8. Placed(c)'
    BY <1>1, <1>2, <2>1, <2>3 DEF Placed, TaskPlaces
  <2>9. ASSUME ~partial' PROVE PassedIsWhole(c)'
    <3>1. ~partial /\ ~cut[c]
      BY <2>1, <2>9 DEF ChannelInv, LossIsTold
    <3>2. Message(c)' = Message(c)
      BY <1>1, <2>1 DEF Message
    <3>3. Whole(c, Message(c).id, "message")'
      BY <2>1, <2>2, <3>1, <3>2 DEF Whole
    <3>4. /\ \A x, y : Whole(c, x, y) => Whole(c, x, y)'
          /\ \A m : MessageIsWhole(c, m) => MessageIsWhole(c, m)'
      BY <2>1, WholeForGood
    <3>5. \A i \in DOMAIN got[c] : i < turn[c].message => MessageIsWhole(c, got[c][i])
      BY <3>1 DEF ChannelInv, PassedIsWhole
    <3>6. \A m \in Posted(c) : \A item \in Texts(m) :
             Key(item) \in seen[c] => Whole(c, item.id, item.surface)
      BY <1>1, <3>1 DEF ChannelInv, PassedIsWhole
    <3>7. \A j : j \in Nat \ {0} => ~(j < turn'[c].item)
      BY <1>1, <2>1
    <3>8. DOMAIN Message(c)'.items \subseteq Nat \ {0}
      BY <1>3, <2>3, <3>2, AtHand
    <3>9. \A j \in DOMAIN Message(c)'.items : ~(j < turn'[c].item)
      BY <3>7, <3>8
    <3>10. \A i \in DOMAIN got'[c] : i < turn'[c].message => MessageIsWhole(c, got[c][i])'
      BY <1>1, <2>1, <3>4, <3>5
    <3>11. \A m \in Posted(c)' : \A item \in Texts(m)' :
             Key(item) \in seen'[c] => Whole(c, item.id, item.surface)'
      BY <1>1, <1>2, <3>4, <3>6 DEF Texts
    <3> QED BY <2>1, <3>3, <3>9, <3>10, <3>11 DEF PassedIsWhole
  <2> QED BY <2>7, <2>8, <2>9, PassingKeeps, PartialPromisesNothing DEF ChannelInv
<1>5. CASE SkipMessage(c)
  <2>1. /\ at'[c] = "messages" /\ turn'[c].item = 1 /\ partial' /\ docs' = docs
        /\ Count(c, "message", {"discovered", "skipped", "truncated"})
    BY <1>2, <1>5 DEF SkipMessage, NextMessage, MoveTo, SlackType, listVars
  <2>2. Passing(c)
    BY <1>1, <1>2, <2>1, LosingPasses
  <2>3. Placed(c)'
    BY <1>1, <1>2, <2>1 DEF Placed, TaskPlaces
  <2> QED BY <2>1, <2>2, <2>3, PassingKeeps, PartialPromisesNothing DEF ChannelInv
<1>6. CASE ChannelDone(c)
  <2>1. /\ at'[c] = "over" /\ turn' = turn /\ partial' = partial /\ docs' = docs
        /\ ledger' = ledger /\ turn[c].message > Len(got[c])
    BY <1>2, <1>6 DEF ChannelDone, MoveTo, SlackType, bookVars
  <2>2. \A x \in Surfaces : Lost(c, x)' <=> Lost(c, x)
    BY <2>1 DEF Lost
  <2>3. Passing(c)
    BY <1>1, <2>1, <2>2 DEF Passing, Surfaces
  <2>4. Placed(c)'
    BY <1>1, <1>2, <2>1 DEF Placed, TaskPlaces
  <2>5. ASSUME ~partial' PROVE PassedIsWhole(c)'
    <3>1. ~partial /\ ~cut[c]
      BY <2>1, <2>5 DEF ChannelInv, LossIsTold
    <3>2. got[c] = Everything(c)
      BY <1>1, <3>1 DEF ChannelInv, ReadToTheEnd
    <3>3. \A m : MessageIsWhole(c, m) => MessageIsWhole(c, m)'
      BY <2>1, WholeForGood
    <3>4. \A x, y : Whole(c, x, y) => Whole(c, x, y)'
      BY <2>1, WholeForGood
    <3>5. \A i \in DOMAIN got[c] : i < turn[c].message => MessageIsWhole(c, got[c][i])
      BY <3>1 DEF ChannelInv, PassedIsWhole
    <3>6. \A m \in Posted(c) : \A item \in Texts(m) :
             Key(item) \in seen[c] => Whole(c, item.id, item.surface)
      BY <1>1, <3>1 DEF ChannelInv, PassedIsWhole
    <3>7. \A i \in DOMAIN got'[c] : i < turn'[c].message => MessageIsWhole(c, got[c][i])'
      BY <1>1, <2>1, <3>3, <3>5
    <3>8. \A m \in Posted(c)' : \A item \in Texts(m)' :
             Key(item) \in seen'[c] => Whole(c, item.id, item.surface)'
      BY <1>1, <1>2, <3>4, <3>6 DEF Texts
    <3>9. turn'[c].message > Len(got'[c]) /\ got'[c] = Everything(c)'
      BY <1>1, <1>2, <2>1, <3>2
    <3> QED BY <2>1, <3>7, <3>8, <3>9 DEF PassedIsWhole
  <2> QED BY <2>3, <2>4, <2>5, PassingKeeps, PartialPromisesNothing DEF ChannelInv
<1> QED BY <1>4, <1>5, <1>6 DEF Messages

\* The attachment at hand
LEMMA ItemAtHand ==
    ASSUME SlackType, NEW c \in Channels, Placed(c), Attachments(c)
    PROVE  /\ at[c] \in {"items", "reading"} /\ at'[c] \in {"items", "reading"}
           /\ at'[c] = "reading" => OpenItem(c)
           /\ got' = got /\ cut' = cut /\ got'[c] \in Seq(Posted(c)') /\ cut'[c] \in BOOLEAN
           /\ turn[c].message \in DOMAIN got[c]
           /\ Message(c) \in Posted(c) /\ Message(c)' = Message(c)
           /\ turn[c].item \in DOMAIN Message(c).items /\ turn[c].item \in Nat \ {0}
           /\ DOMAIN Message(c).items \subseteq Nat \ {0}
           /\ Item(c) \in ToSet(Message(c).items)
           /\ Item(c).surface \in {"file", "canvas"} /\ Item(c).text \in BOOLEAN
           /\ turn'[c].message = turn[c].message
           /\ IF OpenItem(c) THEN turn' = turn ELSE turn'[c].item = turn[c].item + 1
<1>1. c \in Tasks /\ turn[c] \in [message : Nat \ {0}, item : Nat \ {0}]
  BY DEF SlackType, Tasks
<1>2. at[c] = "reading" \/ Pending(c)
  BY DEF Attachments, MalformedItem, RepeatedItem, UnsupportedItem, OpenItem, ReadItem, LoseItem
<1>3. turn[c].message \in DOMAIN got[c]
  BY <1>2 DEF Pending, Placed
<1>4. turn[c].item \in DOMAIN Message(c).items
  BY <1>2, <1>3, AtHand DEF Pending, Placed
<1>5. got' = got /\ cut' = cut
  BY DEF Attachments, MalformedItem, RepeatedItem, UnsupportedItem, OpenItem, ReadItem, LoseItem,
         listVars
<1>6. got'[c] \in Seq(Posted(c)') /\ cut'[c] \in BOOLEAN
  <2>1. Posted(c)' = Posted(c)
    BY DEF Posted
  <2> QED BY <1>5, <2>1 DEF Placed
<1>7. at'[c] \in {"items", "reading"}
  BY <1>1, <1>2
  DEF Attachments, MalformedItem, RepeatedItem, UnsupportedItem, OpenItem, ReadItem, LoseItem,
      Pending, MoveTo, SlackType
<1>8. at'[c] = "reading" => OpenItem(c)
  BY <1>1
  DEF Attachments, MalformedItem, RepeatedItem, UnsupportedItem, ReadItem, LoseItem,
      Pending, MoveTo, SlackType
<1>9. ASSUME ~OpenItem(c) PROVE NextItem(c)
  BY <1>9
  DEF Attachments, MalformedItem, RepeatedItem, UnsupportedItem, ReadItem, LoseItem
<1>10. OpenItem(c) => turn' = turn
  BY DEF OpenItem
<1>11. ~OpenItem(c) => /\ turn'[c].item = turn[c].item + 1
                       /\ turn'[c].message = turn[c].message
  <2>1. SUFFICES ASSUME NextItem(c)
                 PROVE  /\ turn'[c].item = turn[c].item + 1
                        /\ turn'[c].message = turn[c].message
    BY <1>9
  <2> DEFINE rec == turn[c]
  <2>2. turn'[c] = [rec EXCEPT !.item = @ + 1]
    BY <2>1 DEF NextItem, SlackType
  <2> HIDE DEF rec
  <2>3. rec \in [message : Nat \ {0}, item : Nat \ {0}]
    BY <1>1 DEF rec
  <2>4. turn'[c].item = rec.item + 1 /\ turn'[c].message = rec.message
    BY <2>2, <2>3
  <2> QED BY <2>4 DEF rec
<1>12. turn'[c].message = turn[c].message
  BY <1>10, <1>11
<1>13. Message(c)' = Message(c)
  BY <1>5, <1>12 DEF Message
<1>14. DOMAIN Message(c).items \subseteq Nat \ {0}
  BY <1>3, AtHand
<1> QED
  BY <1>2, <1>3, <1>4, <1>5, <1>6, <1>7, <1>8, <1>10, <1>11, <1>12, <1>13, <1>14, AtHand
  DEF Pending

\* After an attachment the task is where the invariant has it.
LEMMA ItemPlaced ==
    ASSUME SlackType, NEW c \in Channels, Placed(c), Attachments(c)
    PROVE  Placed(c)'
<1>1. /\ at'[c] \in {"items", "reading"} /\ got'[c] \in Seq(Posted(c)') /\ cut'[c] \in BOOLEAN
      /\ turn'[c].message \in DOMAIN got'[c]
  BY ItemAtHand
<1>2. at'[c] = "reading" => turn'[c].item \in DOMAIN Message(c)'.items
  BY ItemAtHand
<1> QED BY <1>1, <1>2 DEF Placed, TaskPlaces

\* An attachment that is passed: it is a document, or it has no text.
LEMMA ItemPassed ==
    ASSUME SlackType, NEW c \in Channels, ChannelInv(c), Attachments(c), ~OpenItem(c),
           ~partial, docs[c] \subseteq docs'[c],
           \A x : x = Item(c) /\ x.text => Whole(c, x.id, x.surface)',
           \A x : Key(x) \in seen'[c] => Key(x) \in seen[c] \/ Key(x) = Key(Item(c))
    PROVE  PassedIsWhole(c)'
<1>1. Placed(c) /\ PassedIsWhole(c)
  BY DEF ChannelInv
<1>2. /\ at[c] \in {"items", "reading"} /\ at'[c] = "items" /\ got' = got
      /\ Message(c) \in Posted(c) /\ Message(c)' = Message(c)
      /\ turn[c].item \in Nat \ {0} /\ DOMAIN Message(c).items \subseteq Nat \ {0}
      /\ Item(c) \in ToSet(Message(c).items)
      /\ turn'[c].message = turn[c].message /\ turn'[c].item = turn[c].item + 1
  BY <1>1, ItemAtHand
<1>3. /\ \A x, y : Whole(c, x, y) => Whole(c, x, y)'
      /\ \A m : MessageIsWhole(c, m) => MessageIsWhole(c, m)'
  BY WholeForGood
<1>4. \A i \in DOMAIN got'[c] : i < turn'[c].message => MessageIsWhole(c, got[c][i])'
  <2>1. \A i \in DOMAIN got[c] : i < turn[c].message => MessageIsWhole(c, got[c][i])
    BY <1>1 DEF PassedIsWhole
  <2> QED BY <1>2, <1>3, <2>1
<1>5. Whole(c, Message(c).id, "message")'
  <2>1. Whole(c, Message(c).id, "message")
    BY <1>1, <1>2 DEF PassedIsWhole
  <2> DEFINE m == Message(c).id
  <2>2. \E x : x = m /\ Whole(c, x, "message")'
    <3> HIDE DEF m
    <3>1. Whole(c, m, "message")
      BY <2>1 DEF m
    <3> QED BY <1>3, <3>1
  <2> QED BY <1>2, <2>2
<1>6. ASSUME NEW j \in DOMAIN Message(c)'.items, j < turn'[c].item, Message(c)'.items[j].text
      PROVE  Whole(c, Message(c).items[j].id, Message(c).items[j].surface)'
  <2> DEFINE x == Message(c).items[j]
  <2>1. x.text /\ Message(c)'.items[j] = x
    BY <1>2, <1>6
  <2>2. ASSUME NEW y, y = x PROVE Whole(c, y.id, y.surface)'
    <3>1. CASE j < turn[c].item
      <4>1. Whole(c, x.id, x.surface)
        BY <1>1, <1>2, <1>6, <3>1 DEF PassedIsWhole
      <4>2. Whole(c, y.id, y.surface)
        BY <2>2, <4>1
      <4> QED BY <1>3, <4>2
    <3>2. CASE ~(j < turn[c].item)
      <4>1. j = turn[c].item
        <5> DEFINE k == turn[c].item
        <5>1. j \in Nat /\ k \in Nat /\ j < k + 1 /\ ~(j < k)
          BY <1>2, <1>6, <3>2
        <5> HIDE DEF k
        <5>2. j = k
          BY <5>1
        <5> QED BY <5>2 DEF k
      <4>2. x = Item(c)
        BY <4>1 DEF Item
      <4> QED BY <2>1, <2>2, <4>2
    <3> QED BY <3>1, <3>2
  <2>3. PICK y : y = x
    OBVIOUS
  <2> QED BY <2>1, <2>2, <2>3
<1>7. ASSUME NEW m \in Posted(c), NEW x \in Texts(m), Key(x) \in seen'[c]
      PROVE  Whole(c, x.id, x.surface)'
  <2>1. CASE Key(x) = Key(Item(c))
    <3>1. x \in ToSet(m.items) /\ x.text
      BY DEF Texts
    <3>2. Item(c).text
      BY <1>2, <2>1, <3>1, MessagesDiffer
    <3>3. x.id = Item(c).id /\ x.surface = Item(c).surface
      BY <2>1 DEF Key
    <3>4. ASSUME NEW y, y = Item(c) PROVE Whole(c, x.id, x.surface)'
      <4>1. Whole(c, y.id, y.surface)'
        BY <3>2, <3>4
      <4>2. x.id = y.id /\ x.surface = y.surface
        BY <3>3, <3>4
      <4> QED BY <4>1, <4>2
    <3> QED BY <3>4
  <2>2. CASE Key(x) # Key(Item(c))
    <3>1. Key(x) \in seen[c]
      BY <1>7, <2>2
    <3>2. Whole(c, x.id, x.surface)
      BY <1>1, <2>2, <3>1 DEF PassedIsWhole
    <3> QED BY <1>3, <3>2
  <2> QED BY <2>1, <2>2
<1>8. Posted(c)' = Posted(c)
  BY DEF Posted
<1>9. \A m \in Posted(c)' : \A x \in Texts(m)' : Key(x) \in seen'[c] => Whole(c, x.id, x.surface)'
  BY <1>7, <1>8 DEF Texts
<1> QED BY <1>2, <1>4, <1>5, <1>6, <1>9 DEF PassedIsWhole

\* Its attachments
LEMMA AttachmentsKeep ==
    ASSUME SlackType, NEW c \in Channels, ChannelInv(c), Attachments(c)
    PROVE  ChannelInv(c)'
<1>1. Placed(c) /\ PassedIsWhole(c) /\ LossIsTold(c) /\ ReadToTheEnd(c)
  BY DEF ChannelInv
<1>2. /\ at[c] \in {"items", "reading"} /\ got' = got /\ cut' = cut /\ cut[c] \in BOOLEAN
      /\ Message(c) \in Posted(c) /\ Message(c)' = Message(c)
      /\ Item(c) \in ToSet(Message(c).items)
      /\ Item(c).surface \in {"file", "canvas"} /\ Item(c).text \in BOOLEAN
      /\ at'[c] \in {"items", "reading"}
  BY <1>1, ItemAtHand DEF Placed
<1>3. c \in Tasks /\ Item(c).surface \in Surfaces /\ Item(c).surface # "thread_reply"
  BY <1>2 DEF Tasks, Surfaces
<1>4. Placed(c)'
  BY <1>1, ItemPlaced
<1>5. ASSUME NEW k, Count(c, Item(c).surface, k)
      PROVE  /\ \A x \in Surfaces : Lost(c, x) => Lost(c, x)'
             /\ Lost(c, "thread_reply")' => Lost(c, "thread_reply")
  <2>1. "thread_reply" \in Surfaces
    BY DEF Surfaces
  <2> QED BY <1>3, <1>5, <2>1, Counting
<1>6. CASE MalformedItem(c) \/ LoseItem(c)
  <2>1. partial' /\ docs' = docs /\ \E k : Count(c, Item(c).surface, k)
    BY <1>6 DEF MalformedItem, LoseItem
  <2>2. Passing(c)
    BY <1>2, <1>3, <2>1, LosingPasses
  <2> QED BY <1>4, <2>1, <2>2, PassingKeeps, PartialPromisesNothing DEF ChannelInv
<1>7. CASE RepeatedItem(c)
  <2>1. /\ at[c] = "items" /\ partial' = partial /\ docs' = docs /\ seen' = seen
        /\ Key(Item(c)) \in seen[c] /\ \E k : Count(c, Item(c).surface, k)
    BY <1>7 DEF RepeatedItem, Pending
  <2>2. Passing(c)
    BY <1>2, <1>5, <2>1 DEF Passing
  <2>3. ASSUME ~partial' PROVE PassedIsWhole(c)'
    <3>1. ASSUME NEW x, x = Item(c), x.text PROVE Whole(c, x.id, x.surface)'
      <4>1. x \in Texts(Message(c)) /\ Key(x) \in seen[c]
        BY <1>2, <2>1, <3>1 DEF Texts
      <4>2. Whole(c, x.id, x.surface)
        BY <1>1, <1>2, <2>1, <2>3, <4>1 DEF PassedIsWhole
      <4> QED BY <2>1, <4>2, WholeForGood
    <3>2. ~OpenItem(c)
      BY <2>1 DEF OpenItem
    <3> QED BY <2>1, <2>3, <3>1, <3>2, ItemPassed
  <2> QED BY <1>4, <2>2, <2>3, PassingKeeps, PartialPromisesNothing DEF ChannelInv
<1>8. CASE UnsupportedItem(c)
  <2>1. /\ at[c] = "items" /\ partial' = (partial \/ Item(c).text) /\ docs' = docs
        /\ seen' = [seen EXCEPT ![c] = @ \cup {Key(Item(c))}]
        /\ Key(Item(c)) \notin seen[c] /\ \E k : Count(c, Item(c).surface, k)
    BY <1>8 DEF UnsupportedItem, Pending
  <2>2. partial => partial'
    BY <2>1
  <2>3. Passing(c)
    BY <1>2, <1>5, <2>1, <2>2 DEF Passing
  <2>4. ASSUME ~partial' PROVE PassedIsWhole(c)'
    <3>1. ~partial /\ ~Item(c).text
      BY <2>1, <2>4
    <3>2. \A x : x = Item(c) /\ x.text => Whole(c, x.id, x.surface)'
      BY <3>1
    <3>3. \A x : Key(x) \in seen'[c] => Key(x) \in seen[c] \/ Key(x) = Key(Item(c))
      BY <2>1 DEF SlackType
    <3>4. ~OpenItem(c)
      BY <3>1 DEF OpenItem
    <3> QED BY <2>1, <3>1, <3>2, <3>3, <3>4, ItemPassed
  <2> QED BY <1>4, <2>3, <2>4, PassingKeeps, PartialPromisesNothing DEF ChannelInv
<1>9. CASE ReadItem(c)
  <2> DEFINE new == Document(Item(c).id, Item(c).surface, Message(c).id, cut[c])
  <2>1. /\ at[c] = "reading" /\ partial' = partial /\ seen' = seen
        /\ docs'[c] = docs[c] \cup {new} /\ \E k : Count(c, Item(c).surface, k)
    BY <1>9 DEF ReadItem, SlackType
  <2>2. /\ new.id = Item(c).id /\ new.surface = Item(c).surface /\ new.partial = cut[c]
    BY DEF Document
  <2> HIDE DEF new
  <2>3. ASSUME NEW d, d = new PROVE MarkHolds(c, d)'
    <3>1. d.surface # "thread_reply" /\ d.partial = cut'[c]
      BY <1>2, <1>3, <2>2, <2>3
    <3> QED BY <3>1 DEF MarkHolds
  <2>4. Passing(c)
    <3>1. docs[c] \subseteq docs'[c] /\ \A d \in docs'[c] : d \notin docs[c] => d = new
      BY <2>1
    <3> QED BY <1>2, <1>5, <2>1, <2>3, <3>1 DEF Passing
  <2>5. ASSUME ~partial' PROVE PassedIsWhole(c)'
    <3>1. ~partial /\ ~cut[c]
      BY <1>1, <2>1, <2>5 DEF LossIsTold
    <3>2. ASSUME NEW x, x = Item(c) PROVE Whole(c, x.id, x.surface)'
      <4>1. PICK d : d = new
        OBVIOUS
      <4>2. d \in docs'[c] /\ d.id = x.id /\ d.surface = x.surface /\ ~d.partial
        BY <2>1, <2>2, <3>1, <3>2, <4>1
      <4> QED BY <4>2 DEF Whole
    <3>3. ~OpenItem(c)
      BY <2>1 DEF OpenItem, Pending
    <3>4. docs[c] \subseteq docs'[c]
      BY <2>1
    <3> QED BY <2>1, <3>1, <3>2, <3>3, <3>4, ItemPassed
  <2> QED BY <1>4, <2>4, <2>5, PassingKeeps, PartialPromisesNothing DEF ChannelInv
<1>10. CASE OpenItem(c)
  <2>1. /\ at[c] = "items" /\ at'[c] = "reading" /\ partial' = partial /\ docs' = docs
        /\ turn' = turn /\ \E k : Count(c, Item(c).surface, k)
    BY <1>3, <1>10 DEF OpenItem, Pending, MoveTo, SlackType
  <2>2. seen'[c] = seen[c] \cup {Key(Item(c))}
    BY <1>10 DEF OpenItem, SlackType
  <2>3. Passing(c)
    BY <1>2, <1>5, <2>1 DEF Passing
  <2>4. ASSUME ~partial' PROVE PassedIsWhole(c)'
    <3>1. \A x, y : Whole(c, x, y)' <=> Whole(c, x, y)
      BY <2>1 DEF Whole
    <3>2. \A m : MessageIsWhole(c, m) => MessageIsWhole(c, m)'
      BY <2>1, WholeForGood
    <3>3. Item(c)' = Item(c)
      BY <1>2, <2>1 DEF Item
    <3>4. \A i \in DOMAIN got'[c] : i < turn'[c].message => MessageIsWhole(c, got[c][i])'
      <4>1. \A i \in DOMAIN got[c] : i < turn[c].message => MessageIsWhole(c, got[c][i])
        BY <1>1, <2>1, <2>4 DEF PassedIsWhole
      <4> QED BY <1>2, <2>1, <3>2, <4>1
    <3>5. /\ Whole(c, Message(c).id, "message")'
          /\ \A j \in DOMAIN Message(c)'.items : j < turn'[c].item /\ Message(c)'.items[j].text =>
                Whole(c, Message(c).items[j].id, Message(c).items[j].surface)'
      BY <1>1, <1>2, <2>1, <2>4 DEF PassedIsWhole, Whole
    <3>6. \A m \in Posted(c)' : \A x \in Texts(m)' :
              Key(x) \in seen'[c] => Whole(c, x.id, x.surface)' \/ Key(Item(c)') = Key(x)
      <4>1. \A m \in Posted(c) : \A x \in Texts(m) :
                Key(x) \in seen[c] => Whole(c, x.id, x.surface)
        BY <1>1, <2>1, <2>4 DEF PassedIsWhole
      <4> QED BY <2>2, <3>1, <3>3, <4>1 DEF Texts, Posted
    <3>7. \A m \in Posted(c)' : \A x \in Texts(m)' : Key(x) \in seen'[c] =>
              Whole(c, x.id, x.surface)' \/ (at'[c] = "reading" /\ Key(Item(c))' = Key(x)')
      BY <2>1, <3>6 DEF Key
    <3> QED BY <2>1, <3>4, <3>5, <3>7 DEF PassedIsWhole
  <2> QED BY <1>4, <2>3, <2>4, PassingKeeps, PartialPromisesNothing DEF ChannelInv
<1> QED BY <1>6, <1>7, <1>8, <1>9, <1>10 DEF Attachments

\* The message at hand, when its attachments are done
LEMMA DoneAtHand ==
    ASSUME SlackType, NEW c \in Channels, Placed(c), Threads(c)
    PROVE  /\ at[c] \in {"items", "thread"}
           /\ got' = got /\ cut' = cut /\ seen' = seen
           /\ got'[c] \in Seq(Posted(c)') /\ cut'[c] \in BOOLEAN
           /\ turn[c].message \in DOMAIN got[c] /\ Message(c) \in Posted(c)
           /\ turn[c].item > Len(Message(c).items)
<1>1. ItemsDone(c) \/ at[c] = "thread"
  BY DEF Threads, NoThread, UnsupportedThread, OpenThread, ThreadPage, ThreadRead, ThreadCut,
         ThreadLost, MalformedReply
<1>2. got' = got /\ cut' = cut /\ seen' = seen
  BY DEF Threads, NoThread, UnsupportedThread, OpenThread, ThreadPage, ThreadRead, ThreadCut,
         ThreadLost, MalformedReply, listVars, bookVars
<1>3. turn[c].message \in DOMAIN got[c] /\ turn[c].item > Len(Message(c).items)
  BY <1>1 DEF ItemsDone, Placed
<1>4. got'[c] \in Seq(Posted(c)') /\ cut'[c] \in BOOLEAN
  <2>1. Posted(c)' = Posted(c)
    BY DEF Posted
  <2> QED BY <1>2, <2>1 DEF Placed
<1> QED BY <1>1, <1>2, <1>3, <1>4, AtHand DEF ItemsDone

\* The step to the next message
LEMMA NextAtHand ==
    ASSUME SlackType, NEW c \in Channels, NextMessage(c)
    PROVE  /\ at'[c] = "messages"
           /\ turn'[c].message = turn[c].message + 1 /\ turn'[c].item = 1
<1>1. c \in Tasks
  BY DEF Tasks
<1>2. turn'[c] = [message |-> turn[c].message + 1, item |-> 1]
  BY DEF NextMessage, SlackType
<1> QED BY <1>1, <1>2 DEF NextMessage, MoveTo, SlackType

\* A message that is passed, with its attachments and its replies
LEMMA MessagePassed ==
    ASSUME SlackType, NEW c \in Channels, ChannelInv(c), Threads(c), NextMessage(c),
           ~partial, docs[c] \subseteq docs'[c],
           \A m : m = Message(c) => RepliesAreWhole(c, m)'
    PROVE  PassedIsWhole(c)'
<1>1. Placed(c) /\ PassedIsWhole(c)
  BY DEF ChannelInv
<1>2. /\ at[c] \in {"items", "thread"} /\ got' = got /\ seen' = seen
      /\ turn[c].message \in DOMAIN got[c] /\ Message(c) \in Posted(c)
      /\ turn[c].item > Len(Message(c).items)
  BY <1>1, DoneAtHand
<1>3. /\ at'[c] = "messages"
      /\ turn'[c].message = turn[c].message + 1 /\ turn'[c].item = 1
  BY NextAtHand
<1>4. /\ \A x, y : Whole(c, x, y) => Whole(c, x, y)'
      /\ \A m : MessageIsWhole(c, m) => MessageIsWhole(c, m)'
  BY WholeForGood
<1>5. ASSUME NEW m, m = Message(c) PROVE MessageIsWhole(c, m)'
  <2>1. Whole(c, m.id, "message")
    BY <1>1, <1>2, <1>5 DEF PassedIsWhole
  <2>2. ASSUME NEW x \in Texts(m) PROVE Whole(c, x.id, x.surface)
    <3>1. PICK j \in DOMAIN m.items : m.items[j] = x
      BY Elements DEF Texts
    <3>2. x.text
      BY DEF Texts
    <3>3. j < turn[c].item
      <4>1. DOMAIN m.items = 1..Len(m.items) /\ Len(m.items) \in Nat
            /\ turn[c].item \in Nat
        BY <1>1, <1>2, <1>5, AtHand
      <4> DEFINE k == turn[c].item
                 n == Len(m.items)
      <4>2. j \in 1..n /\ n \in Nat /\ k \in Nat /\ k > n
        BY <1>2, <1>5, <4>1
      <4> HIDE DEF k, n
      <4>3. j < k
        BY <4>2
      <4> QED BY <4>3 DEF k
    <3> QED BY <1>1, <1>2, <1>5, <3>1, <3>2, <3>3 DEF PassedIsWhole
  <2>3. RepliesAreWhole(c, m)'
    BY <1>5
  <2>4. \A x \in Texts(m)' : Whole(c, x.id, x.surface)'
    BY <1>4, <2>2 DEF Texts
  <2>5. Whole(c, m.id, "message")'
    BY <1>4, <2>1
  <2> QED BY <2>3, <2>4, <2>5 DEF MessageIsWhole
<1>6. ASSUME NEW i \in DOMAIN got[c], i < turn[c].message + 1
      PROVE  \E m : m = got[c][i] /\ MessageIsWhole(c, m)'
  <2>1. CASE i < turn[c].message
    <3>1. MessageIsWhole(c, got[c][i])
      BY <1>1, <2>1 DEF PassedIsWhole
    <3> DEFINE m == got[c][i]
    <3>2. MessageIsWhole(c, m)
      BY <3>1
    <3> HIDE DEF m
    <3>3. \E x : x = m /\ MessageIsWhole(c, x)
      BY <3>2
    <3>4. \E x : x = m /\ MessageIsWhole(c, x)'
      BY <1>4, <3>3
    <3> QED BY <3>4 DEF m
  <2>2. CASE ~(i < turn[c].message)
    <3>1. i = turn[c].message
      <4> DEFINE k == turn[c].message
      <4>1. i \in Nat /\ k \in Nat /\ i < k + 1 /\ ~(i < k)
        BY <1>1, <1>6, <2>2, AtHand
      <4> HIDE DEF k
      <4>2. i = k
        BY <4>1
      <4> QED BY <4>2 DEF k
    <3> QED BY <1>5, <3>1 DEF Message
  <2> QED BY <2>1, <2>2
<1>7. \A i \in DOMAIN got'[c] : i < turn'[c].message => MessageIsWhole(c, got[c][i])'
  BY <1>2, <1>3, <1>6
<1>8. \A m \in Posted(c)' : \A x \in Texts(m)' : Key(x) \in seen'[c] => Whole(c, x.id, x.surface)'
  <2>1. \A m \in Posted(c) : \A x \in Texts(m) :
            Key(x) \in seen[c] => Whole(c, x.id, x.surface)
    BY <1>1, <1>2 DEF PassedIsWhole
  <2> QED BY <1>2, <1>4, <2>1 DEF Texts, Posted
<1> QED BY <1>3, <1>7, <1>8 DEF PassedIsWhole

\* The documents of the replies
LEMMA RepliesTaken ==
    ASSUME SlackType, NEW c \in Channels, NEW messages, NEW k, TakeReplies(c, messages, k)
    PROVE  /\ docs[c] \subseteq docs'[c]
           /\ \A d \in docs'[c] : d \notin docs[c] =>
                 /\ d.surface = "thread_reply" /\ d.root = Message(c).id
                 /\ d.partial = Lost(c, "thread_reply")'
           /\ ~Lost(c, "thread_reply")' =>
                 \A i \in RepliesIn(c, messages) :
                    \A x : x = messages[i].id => Whole(c, x, "thread_reply")'
<1> DEFINE mark == ledger'[c]["thread_reply"]["truncated"] > 0
           root == Message(c).id
           new == {Document(messages[i].id, "thread_reply", root, mark) :
                      i \in RepliesIn(c, messages)}
<1>1. docs'[c] = docs[c] \cup new
  BY DEF TakeReplies, SlackType
<1>2. mark = Lost(c, "thread_reply")'
  BY DEF Lost
<1> HIDE DEF mark, root
<1>3. \A d \in new : d.surface = "thread_reply" /\ d.root = root /\ d.partial = mark
  BY DEF Document
<1>4. ASSUME NEW i \in RepliesIn(c, messages), NEW x, x = messages[i].id, ~mark
      PROVE  Whole(c, x, "thread_reply")'
  <2> DEFINE d == Document(messages[i].id, "thread_reply", root, mark)
  <2>1. d \in docs'[c] /\ d.id = x /\ d.surface = "thread_reply" /\ ~d.partial
    BY <1>1, <1>4 DEF Document
  <2> HIDE DEF d
  <2> QED BY <2>1 DEF Whole
<1> HIDE DEF new
<1> QED BY <1>1, <1>2, <1>3, <1>4 DEF root

\* Its threads
LEMMA ThreadsKeep ==
    ASSUME SlackType, NEW c \in Channels, ChannelInv(c), Threads(c)
    PROVE  ChannelInv(c)'
<1>1. Placed(c) /\ PassedIsWhole(c) /\ LossIsTold(c) /\ ReadToTheEnd(c)
  BY DEF ChannelInv
<1>2. /\ at[c] \in {"items", "thread"} /\ got' = got /\ cut' = cut /\ seen' = seen
      /\ got'[c] \in Seq(Posted(c)') /\ cut'[c] \in BOOLEAN
      /\ turn[c].message \in DOMAIN got[c] /\ Message(c) \in Posted(c)
      /\ turn[c].item > Len(Message(c).items)
  BY <1>1, DoneAtHand
<1>3. c \in Tasks /\ "thread_reply" \in Surfaces /\ "message" \in Surfaces
  BY DEF Tasks, Surfaces
<1>4. NextMessage(c) => at'[c] = "messages" /\ Placed(c)'
  <2>1. SUFFICES ASSUME NextMessage(c) PROVE at'[c] = "messages" /\ Placed(c)'
    OBVIOUS
  <2>2. at'[c] = "messages" /\ turn'[c].item = 1
    BY <2>1, NextAtHand
  <2> QED BY <1>2, <2>2 DEF Placed, TaskPlaces
<1>5. CASE UnsupportedThread(c) \/ ThreadLost(c)
  <2>1. /\ NextMessage(c) /\ partial' /\ docs' = docs
        /\ \E k : Count(c, "thread_reply", k)
    BY <1>5 DEF UnsupportedThread, ThreadLost
  <2>2. Passing(c)
    BY <1>2, <1>3, <2>1, LosingPasses
  <2> QED BY <1>4, <2>1, <2>2, PassingKeeps, PartialPromisesNothing DEF ChannelInv
<1>6. CASE NoThread(c)
  <2>1. /\ NextMessage(c) /\ partial' = partial /\ docs' = docs /\ ledger' = ledger
        /\ Message(c).replies = <<>>
    BY <1>6 DEF NoThread, bookVars
  <2>2. Passing(c)
    BY <1>2, <1>4, <2>1 DEF Passing, Lost
  <2>3. ASSUME ~partial' PROVE PassedIsWhole(c)'
    <3>1. ASSUME NEW m, m = Message(c) PROVE RepliesAreWhole(c, m)'
      <4>1. AllReplies(m) = {}
        BY <2>1, <3>1, NoReplies
      <4>2. AllReplies(m)' = {}
        BY <4>1 DEF AllReplies, Joined
      <4> QED BY <4>2 DEF RepliesAreWhole
    <3> QED BY <2>1, <2>3, <3>1, MessagePassed
  <2> QED BY <1>4, <2>1, <2>2, <2>3, PassingKeeps, PartialPromisesNothing DEF ChannelInv
<1>7. CASE MalformedReply(c)
  <2>1. Channel(c)' = Channel(c) /\ partial' = partial
    BY <1>7 DEF MalformedReply, Channel, listVars, bookVars
  <2> QED BY <2>1, ChannelUntouched
<1>8. CASE ThreadRead(c)
  <2>1. at[c] = "thread" /\ page[c] = Len(Thread(c)) /\ partial' = partial
    BY <1>8 DEF ThreadRead
  <2> DEFINE messages == Joined(Thread(c), Len(Thread(c)))
  <2>2. TakeReplies(c, messages, {}) /\ \E M : messages \in Seq(M)
    <3>1. replies[c] \o Thread(c)[page[c]] = messages /\ \E M : messages \in Seq(M)
      BY <1>1, <2>1, ThreadAtHand
    <3>2. TakeReplies(c, replies[c] \o Thread(c)[page[c]], {})
      BY <1>8 DEF ThreadRead
    <3> QED BY <3>1, <3>2
  <2>3. AllReplies(Message(c)) = {messages[i] : i \in RepliesIn(c, messages)}
    BY DEF AllReplies, RepliesIn, Thread, ToSet
  <2> HIDE DEF messages
  <2>4. /\ \A x \in Surfaces : Lost(c, x) => Lost(c, x)'
        /\ Lost(c, "thread_reply")' <=> Lost(c, "thread_reply")
    BY <1>3, <2>2, CountingReplies
  <2>5. /\ docs[c] \subseteq docs'[c]
        /\ \A d \in docs'[c] : d \notin docs[c] =>
              /\ d.surface = "thread_reply" /\ d.root = Message(c).id
              /\ d.partial = Lost(c, "thread_reply")'
        /\ ~Lost(c, "thread_reply")' =>
              \A i \in RepliesIn(c, messages) :
                 \A x : x = messages[i].id => Whole(c, x, "thread_reply")'
    BY <2>2, RepliesTaken
  <2>6. NextMessage(c)
    BY <2>2 DEF TakeReplies
  <2>7. ASSUME ~Lost(c, "thread_reply")', NEW m, m = Message(c) PROVE RepliesAreWhole(c, m)'
    <3>1. \A r \in AllReplies(m) : Whole(c, r.id, "thread_reply")'
      BY <2>3, <2>5, <2>7
    <3>2. AllReplies(m)' = AllReplies(m)
      BY DEF AllReplies, Joined
    <3> QED BY <3>1, <3>2 DEF RepliesAreWhole
  <2>8. ASSUME NEW d \in docs'[c], d \notin docs[c] PROVE MarkHolds(c, d)'
    <3>1. /\ d.surface = "thread_reply" /\ d.root = Message(c).id
          /\ d.partial = Lost(c, "thread_reply")'
      BY <2>5, <2>8
    <3>2. ASSUME ~Lost(c, "thread_reply")', NEW m \in ToSet(got'[c]), m.id = d.root
          PROVE  RepliesAreWhole(c, m)'
      <4>1. m \in Posted(c)
        <5>1. PICK i \in DOMAIN got[c] : got[c][i] = m
          BY <1>2, <3>2, Elements
        <5> QED BY <1>1, <5>1, AtHand
      <4>2. m = Message(c)
        BY <1>2, <3>1, <3>2, <4>1, MessagesDiffer
      <4> QED BY <2>7, <3>2, <4>2
    <3> QED BY <3>1, <3>2 DEF MarkHolds
  <2>9. Passing(c)
    BY <1>2, <1>4, <2>1, <2>4, <2>5, <2>6, <2>8 DEF Passing
  <2>10. ASSUME ~partial' PROVE PassedIsWhole(c)'
    <3>1. ~partial /\ ~Lost(c, "thread_reply")'
      BY <1>1, <2>1, <2>4, <2>10 DEF LossIsTold
    <3> QED BY <2>5, <2>6, <2>7, <3>1, MessagePassed
  <2> QED BY <1>4, <2>6, <2>9, <2>10, PassingKeeps, PartialPromisesNothing DEF ChannelInv
<1>9. CASE ThreadCut(c)
  <2>1. at[c] = "thread" /\ TakeReplies(c, replies[c], {"truncated"}) /\ partial'
    BY <1>9 DEF ThreadCut
  <2>2. \E M : replies[c] \in Seq(M)
    BY <1>1, <2>1, ThreadAtHand
  <2>3. Lost(c, "thread_reply")' /\ \A x \in Surfaces : Lost(c, x) => Lost(c, x)'
    BY <2>1, <2>2, CountingReplies
  <2>4. /\ docs[c] \subseteq docs'[c]
        /\ \A d \in docs'[c] : d \notin docs[c] =>
              /\ d.surface = "thread_reply"
              /\ d.partial = Lost(c, "thread_reply")'
    BY <2>1, RepliesTaken
  <2>5. NextMessage(c)
    BY <2>1 DEF TakeReplies
  <2>6. \A d \in docs'[c] : d \notin docs[c] => MarkHolds(c, d)'
    BY <2>3, <2>4 DEF MarkHolds
  <2>7. Passing(c)
    BY <1>2, <1>4, <2>1, <2>3, <2>4, <2>5, <2>6 DEF Passing
  <2> QED BY <1>4, <2>1, <2>5, <2>7, PassingKeeps, PartialPromisesNothing DEF ChannelInv
<1>10. CASE OpenThread(c) \/ ThreadPage(c)
  <2>1. /\ partial' = partial /\ docs' = docs /\ ledger' = ledger /\ turn' = turn
        /\ at'[c] = "thread"
    BY <1>3, <1>10 DEF OpenThread, ThreadPage, MoveTo, SlackType, bookVars
  <2>2. Passing(c)
    BY <1>2, <2>1 DEF Passing, Lost
  <2>3. Message(c)' = Message(c)
    BY <1>2, <2>1 DEF Message
  <2>4. /\ Message(c).replies # <<>>
        /\ page'[c] \in DOMAIN Message(c).replies
        /\ replies'[c] = Joined(Message(c).replies, page'[c] - 1)
    <3>1. CASE OpenThread(c)
      <4>1. Message(c).replies # <<>> /\ page'[c] = 1 /\ replies'[c] = <<>>
        BY <1>3, <3>1 DEF OpenThread, SlackType
      <4>2. /\ 1 \in DOMAIN Message(c).replies
            /\ Joined(Message(c).replies, 0) = <<>>
        <5>1. /\ DOMAIN Message(c).replies = 1..Len(Message(c).replies)
              /\ Len(Message(c).replies) \in Nat \ {0}
              /\ Joined(Message(c).replies, 0) = <<>>
          BY <1>2, <4>1, ThreadPages
        <5> QED BY <5>1
      <4>3. page'[c] - 1 = 0
        BY <4>1
      <4> QED BY <4>1, <4>2, <4>3
    <3>2. CASE ThreadPage(c)
      <4>1. /\ at[c] = "thread" /\ page[c] < Len(Thread(c)) /\ page'[c] = page[c] + 1
            /\ replies'[c] = replies[c] \o Thread(c)[page[c]]
        BY <1>3, <3>2 DEF ThreadPage, SlackType
      <4>2. /\ page[c] \in 1..Len(Thread(c)) /\ Len(Thread(c)) \in Nat
            /\ replies'[c] = Joined(Thread(c), page[c])
        BY <1>1, <4>1, ThreadAtHand
      <4>3. page'[c] \in 1..Len(Thread(c)) /\ page'[c] - 1 = page[c]
        BY <4>1, <4>2
      <4>4. Message(c).replies # <<>>
        BY <1>1, <4>1 DEF Placed
      <4> QED BY <1>2, <4>2, <4>3, <4>4, ThreadPages DEF Thread
    <3> QED BY <1>10, <3>1, <3>2
  <2>5. Placed(c)'
    <3>1. Joined(Message(c).replies, page[c] - 1)' = Joined(Message(c).replies, page'[c] - 1)
      BY <2>3 DEF Joined
    <3> QED BY <1>2, <2>1, <2>3, <2>4, <3>1 DEF Placed, TaskPlaces
  <2>6. ASSUME ~partial' PROVE PassedIsWhole(c)'
    <3>1. \A x, y : Whole(c, x, y)' <=> Whole(c, x, y)
      BY <2>1 DEF Whole
    <3>2. \A m : MessageIsWhole(c, m) => MessageIsWhole(c, m)'
      BY <2>1, WholeForGood
    <3>3. \A i \in DOMAIN got'[c] : i < turn'[c].message => MessageIsWhole(c, got[c][i])'
      <4>1. \A i \in DOMAIN got[c] : i < turn[c].message => MessageIsWhole(c, got[c][i])
        BY <1>1, <2>1, <2>6 DEF PassedIsWhole
      <4> QED BY <1>2, <2>1, <3>2, <4>1
    <3>4. /\ Whole(c, Message(c).id, "message")'
          /\ \A j \in DOMAIN Message(c)'.items : j < turn'[c].item /\ Message(c)'.items[j].text =>
                Whole(c, Message(c).items[j].id, Message(c).items[j].surface)'
      BY <1>1, <1>2, <2>1, <2>3, <2>6 DEF PassedIsWhole, Whole
    <3>5. \A m \in Posted(c)' : \A x \in Texts(m)' :
              Key(x) \in seen'[c] => Whole(c, x.id, x.surface)'
      <4>1. \A m \in Posted(c) : \A x \in Texts(m) :
                Key(x) \in seen[c] => Whole(c, x.id, x.surface)
        BY <1>1, <1>2, <2>1, <2>6 DEF PassedIsWhole
      <4> QED BY <1>2, <3>1, <4>1 DEF Texts, Posted
    <3> QED BY <2>1, <3>3, <3>4, <3>5 DEF PassedIsWhole
  <2> QED BY <2>2, <2>5, <2>6, PassingKeeps, PartialPromisesNothing DEF ChannelInv
<1> QED BY <1>5, <1>6, <1>7, <1>8, <1>9, <1>10 DEF Threads

-----------------------------------------------------------------------------
(* The invariant of the Slack crawler *)

\* A crawl of Slack starts with nothing.
LEMMA SlackStart == SlackInit => SlackInv
<1> SUFFICES ASSUME SlackInit PROVE SlackInv
  OBVIOUS
<1>1. Channels \subseteq Tasks /\ Main \in Tasks /\ Main \notin Channels
  BY CrawlAssumption DEF Tasks
<1>2. SlackType
  <2>1. /\ turn \in [Channels -> [message : Nat \ {0}, item : Nat \ {0}]]
        /\ ledger \in [Channels -> [Surfaces -> [Counters -> Nat]]]
    BY DEF SlackInit
  <2> QED BY <2>1 DEF SlackInit, SlackType
<1>3. ASSUME NEW c \in Channels PROVE ChannelInv(c)
  <2>1. /\ at[c] = "idle" /\ page[c] = 1 /\ got[c] = <<>> /\ replies[c] = <<>>
        /\ turn[c] = [message |-> 1, item |-> 1] /\ cut[c] = FALSE /\ seen[c] = {}
        /\ docs[c] = {}
    BY <1>1 DEF SlackInit
  <2>2. ~Lost(c, "thread_reply")
    BY DEF SlackInit, Lost, Surfaces, Counters
  <2>3. Placed(c)
    BY <2>1, EmptySeq DEF Placed, TaskPlaces
  <2>4. LossIsTold(c)
    BY <2>1, <2>2 DEF LossIsTold
  <2>5. ReadToTheEnd(c) /\ MarksHold(c)
    BY <2>1 DEF ReadToTheEnd, MarksHold
  <2>6. PassedIsWhole(c)
    <3>1. DOMAIN got[c] = {}
      BY <2>1, EmptySeq
    <3> QED BY <2>1, <3>1 DEF PassedIsWhole
  <2> QED BY <2>3, <2>4, <2>5, <2>6 DEF ChannelInv
<1>4. Listed
  BY <1>1 DEF SlackInit, Listed
<1>5. OkIsClean
  BY DEF SlackInit, OkIsClean
<1> QED BY <1>2, <1>3, <1>4, <1>5 DEF SlackInv

\* The task of a channel keeps the invariant of its channel.
LEMMA ChannelKept ==
    ASSUME SlackType, NEW c \in Channels, ChannelInv(c), ChannelStep(c)
    PROVE  ChannelInv(c)'
BY HistoryKeeps, InterruptKeeps, MessagesKeep, AttachmentsKeep, ThreadsKeep DEF ChannelStep

\* A task that is not started takes no step.
LEMMA StepAwake ==
    ASSUME NEW c, ChannelStep(c)
    PROVE  at[c] # "idle"
<1>1. Histories(c) => at[c] # "idle"
  BY DEF Histories, HistoryPage, HistoryCut, HistoryDenied, HistoryLost
<1>2. Interrupt(c) \/ Messages(c) => at[c] # "idle"
  BY DEF Interrupt, Messages, TakeMessage, SkipMessage, ChannelDone
<1>3. Attachments(c) => at[c] # "idle"
  BY DEF Attachments, MalformedItem, RepeatedItem, UnsupportedItem, OpenItem, ReadItem, LoseItem,
         Pending
<1>4. Threads(c) => at[c] # "idle"
  BY DEF Threads, NoThread, UnsupportedThread, OpenThread, ThreadPage, ThreadRead, ThreadCut,
         ThreadLost, MalformedReply, ItemsDone
<1> QED BY <1>1, <1>2, <1>3, <1>4 DEF ChannelStep

\* The task of a channel keeps the invariant of all.
LEMMA ChannelSteps ==
    ASSUME SlackInv, result = "NONE", NEW c \in Channels, ChannelStep(c)
    PROVE  SlackInv'
<1>1. SlackType /\ Listed /\ \A d \in Channels : ChannelInv(d)
  BY DEF SlackInv
<1>2. Apart(c)
  BY <1>1, StepApart
<1>3. SlackType'
  BY <1>1, StepTyped DEF ChannelInv
<1>4. ASSUME NEW d \in Channels PROVE ChannelInv(d)'
  <2>1. CASE d = c
    BY <1>1, <2>1, ChannelKept
  <2>2. CASE d # c
    BY <1>1, <1>2, <2>2, ChannelUntouched DEF Apart
  <2> QED BY <2>1, <2>2
<1>5. Listed'
  <2>1. at[c] # "idle" /\ at[Main] \notin {"new", "listing"}
    BY <1>1, StepAwake DEF Listed
  <2>2. \A d \in Channels : at[d] # "idle" => at'[d] # "idle"
    BY <1>2 DEF Apart, Channel
  <2>3. interrupted' => partial'
    BY <1>1, <1>2 DEF Listed, Apart
  <2>4. \A d : Readable(d)' <=> Readable(d)
    BY DEF Readable
  <2> QED BY <1>1, <1>2, <2>1, <2>2, <2>3, <2>4 DEF Listed, Apart
<1>6. OkIsClean'
  BY <1>2 DEF Apart, OkIsClean
<1> QED BY <1>3, <1>4, <1>5, <1>6 DEF SlackInv

\* A call that is sent, or answered with a delay
LEMMA CallSteps ==
    ASSUME SlackInv, result = "NONE", NEW t \in Tasks, Send(t) \/ Retry(t)
    PROVE  SlackInv'
<1>1. UNCHANGED <<at, listVars, turn, bookVars, result>>
  BY DEF Send, Retry
<1>2. SlackType'
  <2>1. DOMAIN sent' = DOMAIN sent /\ DOMAIN retries' = DOMAIN retries
    BY DEF Send, Retry
  <2> QED BY <1>1, <2>1 DEF SlackInv, SlackType, listVars, bookVars
<1>3. ASSUME NEW c \in Channels PROVE ChannelInv(c)'
  <2>1. Channel(c)' = Channel(c) /\ partial' = partial
    BY <1>1 DEF Channel, listVars, bookVars
  <2> QED BY <2>1, ChannelUntouched DEF SlackInv
<1>4. Listed'
  <2>1. \A d : Readable(d)' <=> Readable(d)
    BY DEF Readable
  <2>2. UNCHANGED <<at, page, found, partial, interrupted>>
    BY <1>1 DEF listVars, bookVars
  <2> QED BY <2>1, <2>2 DEF SlackInv, Listed
<1>5. OkIsClean'
  BY <1>1 DEF OkIsClean
<1> QED BY <1>2, <1>3, <1>4, <1>5 DEF SlackInv

\* The steps of crawl() that leave the channels alone
LEMMA CrawlSteps ==
    ASSUME SlackInv, result = "NONE", Begin \/ ListingFails \/ Finish \/ AbortCrawl
    PROVE  SlackInv'
<1>1. Channels \subseteq Tasks /\ Main \in Tasks /\ Main \notin Channels
  BY CrawlAssumption DEF Tasks
<1>2. SlackType /\ Listed /\ \A c \in Channels : ChannelInv(c)
  BY DEF SlackInv
<1>3. UNCHANGED <<listVars, turn, cut, seen, ledger, docs, interrupted>>
      /\ (partial => partial') /\ partial' \in BOOLEAN
  BY <1>2 DEF Begin, ListingFails, Finish, AbortCrawl, bookVars, SlackType
<1>4. DOMAIN at' = Tasks /\ DOMAIN sent' = Tasks /\ DOMAIN retries' = Tasks
  BY <1>2 DEF Begin, ListingFails, Finish, AbortCrawl, Answered, MoveTo, SlackType
<1>5. \A c \in Channels : at'[c] = at[c]
  BY <1>1, <1>2 DEF Begin, ListingFails, Finish, AbortCrawl, MoveTo, SlackType
<1>6. SlackType'
  BY <1>2, <1>3, <1>4 DEF SlackType, listVars
<1>7. ASSUME NEW c \in Channels PROVE ChannelInv(c)'
  <2>1. Channel(c)' = Channel(c)
    BY <1>3, <1>5 DEF Channel, listVars
  <2> QED BY <1>2, <1>3, <2>1, ChannelUntouched
<1>8. \A d : Readable(d)' <=> Readable(d)
  BY DEF Readable
<1>9. Listed'
  <2>1. \/ at'[Main] = at[Main]
        \/ at'[Main] = "over"
        \/ at[Main] = "new" /\ at'[Main] = "listing"
    BY <1>1, <1>2 DEF Begin, ListingFails, Finish, AbortCrawl, MoveTo, SlackType
  <2>2. UNCHANGED <<page, found, interrupted>>
    BY <1>3 DEF listVars
  <2>3. interrupted' => partial'
    BY <1>2, <1>3, <2>2 DEF Listed
  <2>4. CASE at'[Main] = at[Main]
    BY <1>2, <1>5, <1>8, <2>2, <2>3, <2>4 DEF Listed
  <2>5. CASE at'[Main] = "over"
    BY <2>3, <2>5 DEF Listed
  <2>6. CASE at[Main] = "new" /\ at'[Main] = "listing"
    <3>1. page'[Main] = 1 /\ found' = {} /\ \A c \in Channels : at'[c] = "idle"
      BY <1>2, <1>5, <2>2, <2>6 DEF Listed
    <3>2. 1 \in DOMAIN Listing
      <4>1. Listing \in Seq(ToSet(Listing)) /\ Listing # <<>>
        BY WorkspaceAssumption DEF IsPaginated
      <4> QED BY <4>1, EmptySeq
    <3>3. UNION {Ids(Listing[i]) : i \in 1..(1 - 1)} = {}
      OBVIOUS
    <3> QED BY <2>3, <2>6, <3>1, <3>2, <3>3 DEF Listed
  <2> QED BY <2>1, <2>4, <2>5, <2>6
<1>10. OkIsClean'
  <2>1. SUFFICES ASSUME result' = "OK"
                 PROVE  ~partial' /\ \A c \in Channels : Readable(c) => at'[c] = "over"
    BY <1>8 DEF OkIsClean
  <2>2. /\ Finish /\ ~partial' /\ ~partial
    BY <2>1 DEF Begin, ListingFails, Finish, AbortCrawl, bookVars
  <2>3. ASSUME NEW c \in Channels, Readable(c) PROVE at'[c] = "over"
    <3>1. at[c] \in Ended /\ at[c] # "interrupted"
      BY <1>2, <2>2, <2>3 DEF Finish, Listed, ChannelInv, LossIsTold
    <3> QED BY <1>5, <3>1 DEF Ended
  <2> QED BY <2>2, <2>3
<1> QED BY <1>6, <1>7, <1>9, <1>10 DEF SlackInv

\* The list of the channels, page by page; its last page starts the tasks.
LEMMA ListingSteps ==
    ASSUME SlackInv, result = "NONE", ListingPage
    PROVE  SlackInv'
<1>1. Channels \subseteq Tasks /\ Main \in Tasks /\ Main \notin Channels
  BY CrawlAssumption DEF Tasks
<1>2. SlackType /\ Listed /\ \A c \in Channels : ChannelInv(c)
  BY DEF SlackInv
<1>3. /\ at[Main] = "listing" /\ \A c \in Channels : at[c] = "idle"
      /\ page[Main] \in DOMAIN Listing
      /\ found = UNION {Ids(Listing[i]) : i \in 1..(page[Main] - 1)}
  BY <1>2 DEF ListingPage, Listed
<1>4. DOMAIN Listing = 1..Len(Listing) /\ Len(Listing) \in Nat
  <2>1. Listing \in Seq(ToSet(Listing))
    BY WorkspaceAssumption DEF IsPaginated
  <2> QED BY <2>1
<1>5. found' = UNION {Ids(Listing[i]) : i \in 1..page[Main]}
  <2> DEFINE n == page[Main]
  <2>1. n \in Nat \ {0}
    BY <1>3, <1>4
  <2>2. found' = found \cup Ids(Listing[n])
    BY DEF ListingPage
  <2>3. found = UNION {Ids(Listing[i]) : i \in 1..(n - 1)}
    BY <1>3
  <2> HIDE DEF n
  <2>4. 1..n = 1..(n - 1) \cup {n}
    BY <2>1
  <2>5. found' = UNION {Ids(Listing[i]) : i \in 1..n}
    BY <2>2, <2>3, <2>4
  <2> QED BY <2>5 DEF n
<1>6. /\ UNCHANGED <<got, replies, turn, cut, seen, ledger, docs, partial, interrupted, result>>
      /\ DOMAIN sent' = Tasks /\ DOMAIN retries' = Tasks
  BY <1>2 DEF ListingPage, Answered, bookVars, SlackType
<1>7. \A d : Readable(d)' <=> Readable(d)
  BY DEF Readable
<1>8. OkIsClean'
  BY <1>6 DEF OkIsClean
<1>9. interrupted' => partial'
  BY <1>2, <1>6 DEF Listed
<1>10. CASE page[Main] < Len(Listing)
  <2>1. at' = at /\ page' = [page EXCEPT ![Main] = page[Main] + 1]
    BY <1>10 DEF ListingPage
  <2>2. SlackType'
    BY <1>2, <1>6, <2>1 DEF SlackType
  <2>3. ASSUME NEW c \in Channels PROVE ChannelInv(c)'
    <3>1. page'[c] = page[c]
      BY <1>1, <1>2, <2>1 DEF SlackType
    <3>2. Channel(c)' = Channel(c)
      BY <1>6, <2>1, <3>1 DEF Channel
    <3> QED BY <1>2, <1>6, <3>2, ChannelUntouched
  <2>4. Listed'
    <3> DEFINE n == page[Main]
    <3>1. n \in Nat /\ n < Len(Listing)
      BY <1>3, <1>4, <1>10
    <3>2. page'[Main] = n + 1
      BY <1>1, <1>2, <2>1 DEF SlackType
    <3>3. found' = UNION {Ids(Listing[i]) : i \in 1..n}
      BY <1>5
    <3> HIDE DEF n
    <3>4. n + 1 \in DOMAIN Listing /\ (n + 1) - 1 = n
      BY <1>4, <3>1
    <3>5. page'[Main] \in DOMAIN Listing
          /\ found' = UNION {Ids(Listing[i]) : i \in 1..(page'[Main] - 1)}
      BY <3>2, <3>3, <3>4
    <3>6. at'[Main] = "listing" /\ \A c \in Channels : at'[c] = "idle"
      BY <1>3, <2>1
    <3> QED BY <1>9, <3>5, <3>6 DEF Listed
  <2> QED BY <1>8, <2>2, <2>3, <2>4 DEF SlackInv
<1>11. CASE ~(page[Main] < Len(Listing))
  <2>1. /\ page' = page
        /\ at' = [t \in Tasks |->
                    IF t = Main THEN "crawling"
                    ELSE IF t \in found' /\ Readable(t) THEN "history" ELSE "idle"]
    BY <1>11 DEF ListingPage
  <2>2. SlackType'
    BY <1>2, <1>6, <2>1 DEF SlackType
  <2>3. \A c \in Channels : at'[c] = IF c \in found' /\ Readable(c) THEN "history" ELSE "idle"
    BY <1>1, <2>1
  <2>4. ASSUME NEW c \in Channels PROVE ChannelInv(c)'
    <3>1. /\ docs'[c] = {} /\ seen'[c] = {} /\ cut'[c] \in BOOLEAN /\ ~cut'[c]
          /\ turn'[c] = [message |-> 1, item |-> 1]
          /\ page'[c] = 1 /\ got'[c] = <<>>
      BY <1>2, <1>3, <1>6, <2>1 DEF ChannelInv, Placed
    <3>2. /\ 1 \in DOMAIN History[c] /\ Joined(History[c], 1 - 1) = <<>>
          /\ Joined(History[c], page[c] - 1)' = Joined(History[c], page'[c] - 1)
      <4>1. /\ DOMAIN History[c] = 1..Len(History[c]) /\ Len(History[c]) \in Nat \ {0}
            /\ Joined(History[c], 0) = <<>>
        BY HistoryPages
      <4> QED BY <4>1 DEF Joined
    <3>3. at'[c] \in {"idle", "history"}
      BY <2>3
    <3>4. Placed(c)'
      BY <3>1, <3>2, <3>3, EmptySeq DEF Placed, TaskPlaces
    <3>5. LossIsTold(c)'
      BY <1>2, <1>6, <3>1, <3>3 DEF ChannelInv, LossIsTold, Lost
    <3>6. ReadToTheEnd(c)' /\ MarksHold(c)'
      BY <3>1, <3>3 DEF ReadToTheEnd, MarksHold
    <3>7. PassedIsWhole(c)'
      <4>1. DOMAIN got'[c] = {}
        BY <3>1, EmptySeq
      <4> QED BY <3>1, <3>3, <4>1 DEF PassedIsWhole
    <3> QED BY <3>4, <3>5, <3>6, <3>7 DEF ChannelInv
  <2>5. Listed'
    <3>1. at'[Main] = "crawling"
      BY <1>1, <2>1
    <3>2. ASSUME NEW c \in Channels, Readable(c) PROVE at'[c] # "idle"
      <4>1. PICK i \in DOMAIN Listing : c \in Ids(Listing[i])
        BY <3>2 DEF Readable, Ids
      <4>2. i \in 1..page[Main]
        <5> DEFINE n == page[Main]
        <5>1. n \in 1..Len(Listing) /\ ~(n < Len(Listing)) /\ i \in 1..Len(Listing)
          BY <1>3, <1>4, <1>11, <4>1
        <5> HIDE DEF n
        <5>2. i \in 1..n
          BY <1>4, <5>1
        <5> QED BY <5>2 DEF n
      <4>3. c \in found'
        BY <1>5, <4>1, <4>2
      <4> QED BY <2>3, <3>2, <4>3
    <3> QED BY <1>7, <1>9, <3>1, <3>2 DEF Listed
  <2> QED BY <1>8, <2>2, <2>4, <2>5 DEF SlackInv
<1> QED BY <1>10, <1>11

\* Every step of Slack keeps the invariant.
LEMMA SlackSteps == SlackInv /\ [SlackNext]_slackVars => SlackInv'
<1> SUFFICES ASSUME SlackInv, [SlackNext]_slackVars PROVE SlackInv'
  OBVIOUS
<1>1. CASE UNCHANGED slackVars
  <2>1. /\ UNCHANGED <<at, sent, retries, page, found, got, replies, turn, cut, seen, ledger,
                       docs, partial, interrupted, result>>
        /\ \A d : Readable(d)' <=> Readable(d)
    BY <1>1 DEF slackVars, listVars, bookVars, Readable
  <2>2. SlackType'
    BY <2>1 DEF SlackInv, SlackType
  <2>3. ASSUME NEW c \in Channels PROVE ChannelInv(c)'
    <3>1. Channel(c)' = Channel(c) /\ partial' = partial
      BY <2>1 DEF Channel
    <3> QED BY <3>1, ChannelUntouched DEF SlackInv
  <2>4. Listed' /\ OkIsClean'
    BY <2>1 DEF SlackInv, Listed, OkIsClean
  <2> QED BY <2>2, <2>3, <2>4 DEF SlackInv
<1>2. CASE SlackNext
  <2>1. result = "NONE"
    BY <1>2 DEF SlackNext, Crawl
  <2>2. \/ Begin \/ ListingFails \/ Finish \/ AbortCrawl
        \/ ListingPage
        \/ \E t \in Tasks : Send(t) \/ Retry(t)
        \/ \E c \in Channels : ChannelStep(c)
    BY <1>2 DEF SlackNext, Crawl, ChannelStep
  <2> QED BY <2>1, <2>2, CrawlSteps, ListingSteps, CallSteps, ChannelSteps
<1> QED BY <1>1, <1>2

\* In a run, too, the invariant of Slack always holds.
LEMMA SlackRuns == RunSpec => []SlackInv
<1>1. RunInit => SlackInv
  BY SlackStart DEF RunInit
<1>2. SlackInv /\ [RunNext]_allVars => SlackInv'
  <2>1. [RunNext]_allVars => [SlackNext]_slackVars
    BY DEF RunNext, SlackStep, NotionStep, Accept, allVars
  <2> QED BY <2>1, SlackSteps
<1> QED BY <1>1, <1>2, PTL DEF RunSpec

\* Whatever the server answers and refuses, and however the tasks of the channels
\* interleave: a crawl that ends with status OK was not interrupted, and every message,
\* text attachment and reply of every channel it may read is a document not marked
\* partial.
THEOREM OkIsWhole == RunSpec => []OkIsComplete
<1>1. SlackInv => OkIsComplete
  <2> SUFFICES ASSUME SlackInv, result = "OK"
               PROVE  /\ ~interrupted
                      /\ \A c \in Channels : Readable(c) =>
                            \A m \in ToSet(Everything(c)) : MessageIsWhole(c, m)
    BY DEF OkIsComplete, MessageIsWhole, RepliesAreWhole
  <2>1. ~partial /\ \A c \in Channels : Readable(c) => at[c] = "over"
    BY DEF SlackInv, OkIsClean
  <2>2. ~interrupted
    BY <2>1 DEF SlackInv, Listed
  <2>3. ASSUME NEW c \in Channels, Readable(c), NEW m \in ToSet(Everything(c))
        PROVE  MessageIsWhole(c, m)
    <3>1. SlackType /\ Placed(c) /\ PassedIsWhole(c) /\ at[c] = "over"
      BY <2>1, <2>3 DEF SlackInv, ChannelInv
    <3>2. /\ turn[c].message > Len(got[c]) /\ got[c] = Everything(c)
          /\ \A i \in DOMAIN got[c] : i < turn[c].message => MessageIsWhole(c, got[c][i])
      BY <2>1, <3>1 DEF PassedIsWhole
    <3>3. PICK i \in DOMAIN got[c] : got[c][i] = m
      BY <3>2, Elements
    <3>4. i < turn[c].message
      <4> DEFINE n == turn[c].message
                 k == Len(got[c])
      <4>1. i \in 1..k /\ k \in Nat /\ n \in Nat /\ n > k
        BY <3>1, <3>2, <3>3, AtHand
      <4> HIDE DEF n, k
      <4>2. i < n
        BY <4>1
      <4> QED BY <4>2 DEF n
    <3> QED BY <3>2, <3>3, <3>4
  <2> QED BY <2>2, <2>3
<1> QED BY <1>1, SlackRuns, PTL

\* At every moment of such a crawl: a document that is marked partial has a truncation
\* of its own channel's ledger behind it, and one that is not, in a channel that has
\* ended, comes from a list that was read to its end.
THEOREM MarksAreTrue == RunSpec => []PartialMarksAreTrue
<1>1. SlackInv => PartialMarksAreTrue
  <2> SUFFICES ASSUME SlackInv, NEW c \in Channels, NEW d \in docs[c]
               PROVE  /\ at[c] \in Ended /\ ~d.partial =>
                            IF d.surface = "thread_reply"
                            THEN \A m \in ToSet(got[c]) : m.id = d.root => RepliesAreWhole(c, m)
                            ELSE got[c] = Everything(c)
                      /\ d.partial =>
                            Lost(c, IF d.surface = "thread_reply" THEN "thread_reply"
                                    ELSE "message")
    BY DEF PartialMarksAreTrue, RepliesAreWhole, Lost
  <2>1. MarkHolds(c, d) /\ LossIsTold(c) /\ ReadToTheEnd(c)
    BY DEF SlackInv, ChannelInv, MarksHold
  <2>2. cut[c] \/ got[c] = Everything(c)
    BY <2>1 DEF ReadToTheEnd
  <2> QED BY <2>1, <2>2 DEF MarkHolds, LossIsTold
<1> QED BY <1>1, SlackRuns, PTL

-----------------------------------------------------------------------------
(* The types of a crawl, its retries and its pages *)

CrawlPlaces == {"new", "idle", "messages", "items", "crawling"} \cup Calls \cup Ended

\* The calls and the flags
CallsTyped ==
    /\ tools \subseteq Tools
    /\ found \subseteq Channels
    /\ at \in [Tasks -> CrawlPlaces]
    /\ sent \in [Tasks -> BOOLEAN]
    /\ retries \in [Tasks -> 0..MaxRetries]
    /\ cut \in [Channels -> BOOLEAN]
    /\ result \in {"NONE", "OK", "FAILED", "CAPABILITY_UNAVAILABLE", "ABORTED", "RAISED"}

\* The task of a channel goes no further than past its last message, and past the
\* last attachment of one.
Within(c) ==
    /\ turn[c].message \in 1..(Len(got[c]) + 1)
    /\ at[c] \in {"items", "reading"} => turn[c].item \in 1..(Len(Message(c).items) + 1)
    /\ \A d \in docs[c] : d.surface \in Surfaces

CrawlTyped == CallsTyped /\ \A c \in Channels : Within(c)

\* With the invariant of the crawl that is the type invariant.
LEMMA CrawlTypedIsTypeOK == SlackInv /\ CrawlTyped => SlackTypeOK
<1> SUFFICES ASSUME SlackInv, CrawlTyped PROVE SlackTypeOK
  OBVIOUS
<1>1. /\ SlackType /\ Listed /\ CallsTyped
      /\ \A c \in Channels : Placed(c) /\ Within(c)
  BY DEF SlackInv, ChannelInv, CrawlTyped
<1>2. ASSUME NEW t \in Tasks, at[t] \in {"listing", "history", "thread"}
      PROVE  page[t] \in DOMAIN List(t)
  <2>1. CASE t = Main
    <3>1. at[t] = "listing" /\ page[t] \in DOMAIN Listing
      BY <1>1, <1>2, <2>1 DEF Listed
    <3>2. List(t) = Listing
      BY <3>1 DEF List
    <3> QED BY <3>1, <3>2
  <2>2. CASE t \in Channels
    <3>1. at[t] = "history" \/ at[t] = "thread"
      BY <1>1, <1>2, <2>2 DEF Placed, TaskPlaces
    <3>2. CASE at[t] = "history"
      <4>1. List(t) = History[t] /\ page[t] \in DOMAIN History[t]
        BY <1>1, <2>2, <3>2 DEF List, Placed
      <4> QED BY <4>1
    <3>3. CASE at[t] = "thread"
      <4>1. List(t) = Message(t).replies /\ page[t] \in DOMAIN Message(t).replies
        BY <1>1, <2>2, <3>3 DEF List, Placed
      <4> QED BY <4>1
    <3> QED BY <3>1, <3>2, <3>3
  <2> QED BY <2>1, <2>2 DEF Tasks
<1> QED BY <1>1, <1>2 DEF SlackTypeOK, SlackType, CallsTyped, Within, CrawlPlaces

\* An answer ends the retries of a call.
LEMMA AnswerTyped ==
    ASSUME CallsTyped, NEW t, Answered(t)
    PROVE  sent' \in [Tasks -> BOOLEAN] /\ retries' \in [Tasks -> 0..MaxRetries]
<1>1. 0 \in 0..MaxRetries
  BY CrawlAssumption
<1>2. sent' = [sent EXCEPT ![t] = FALSE] /\ retries' = [retries EXCEPT ![t] = 0]
  BY DEF Answered
<1>3. sent' \in [Tasks -> BOOLEAN]
  BY <1>2 DEF CallsTyped
<1>4. retries' \in [Tasks -> 0..MaxRetries]
  BY <1>1, <1>2 DEF CallsTyped
<1> QED BY <1>3, <1>4

\* A step of a channel keeps the types of the calls.
LEMMA StepCallsTyped ==
    ASSUME CallsTyped, NEW c \in Channels, ChannelStep(c)
    PROVE  CallsTyped'
<1> DEFINE Goes == at' = at \/ \E v \in CrawlPlaces : at' = [at EXCEPT ![c] = v]
           Calling == \/ UNCHANGED <<sent, retries>>
                      \/ Answered(c)
           Cuts == cut' = cut \/ cut' = [cut EXCEPT ![c] = TRUE]
           Rest == tools' = tools /\ found' = found /\ result' \in {result, "RAISED"}
           Typed == Goes /\ Calling /\ Cuts /\ Rest
<1>1. ASSUME Histories(c) PROVE Typed
  BY <1>1 DEF Histories, HistoryPage, HistoryCut, HistoryDenied, HistoryLost, MoveTo, CrawlPlaces, Calls,
     Ended, listVars, bookVars
<1>2. ASSUME Interrupt(c) PROVE Typed
  BY <1>2 DEF Interrupt, MoveTo, CrawlPlaces, Ended, listVars
<1>3. ASSUME Messages(c) PROVE Typed
  BY <1>3 DEF Messages, TakeMessage, SkipMessage, ChannelDone, NextMessage, MoveTo, CrawlPlaces, Ended,
     listVars, bookVars
<1>4. ASSUME Attachments(c) PROVE Typed
  BY <1>4 DEF Attachments, MalformedItem, RepeatedItem, UnsupportedItem, OpenItem, ReadItem,
     LoseItem, MoveTo, CrawlPlaces, Calls, listVars
<1>5. ASSUME Threads(c) PROVE Typed
  BY <1>5 DEF Threads, NoThread, UnsupportedThread, OpenThread, ThreadPage, ThreadRead, ThreadCut,
     ThreadLost, MalformedReply, TakeReplies, NextMessage, MoveTo, CrawlPlaces, Calls, listVars, bookVars
<1>6. Typed
  <2> HIDE DEF Typed
  <2> QED BY <1>1, <1>2, <1>3, <1>4, <1>5 DEF ChannelStep
<1>7. at' \in [Tasks -> CrawlPlaces]
  BY <1>6 DEF CallsTyped
<1>8. sent' \in [Tasks -> BOOLEAN] /\ retries' \in [Tasks -> 0..MaxRetries]
  BY <1>6, AnswerTyped DEF CallsTyped
<1>9. cut' \in [Channels -> BOOLEAN]
  BY <1>6 DEF CallsTyped
<1> QED BY <1>6, <1>7, <1>8, <1>9 DEF CallsTyped

\* The task of a channel stays within its lists.
LEMMA StepWithin ==
    ASSUME SlackType, NEW c \in Channels, ChannelInv(c), Within(c), ChannelStep(c)
    PROVE  Within(c)'
<1>1. Placed(c) /\ c \in Tasks /\ {"message", "thread_reply", "file", "canvas"} \subseteq Surfaces
  BY DEF ChannelInv, Tasks, Surfaces
<1>2. /\ turn[c].message \in Nat \ {0} /\ turn[c].item \in Nat \ {0}
      /\ Len(got[c]) \in Nat /\ DOMAIN got[c] = 1..Len(got[c])
  BY <1>1, AtHand
<1>3. CASE Histories(c)
  <2>1. turn' = turn /\ docs' = docs /\ at'[c] \notin {"items", "reading"} /\ turn[c].message = 1
    <3>1. at[c] = "history" /\ turn' = turn /\ docs' = docs
      BY <1>3 DEF Histories, HistoryPage, HistoryCut, HistoryDenied, HistoryLost, bookVars
    <3>2. at'[c] \notin {"items", "reading"}
      BY <1>1, <1>3, <3>1 DEF Histories, HistoryPage, HistoryCut, HistoryDenied, HistoryLost, MoveTo,
         SlackType
    <3> QED BY <1>1, <3>1, <3>2 DEF Placed
  <2>2. Len(got'[c]) \in Nat
    <3>1. ChannelInv(c)'
      BY <1>3, HistoryKeeps
    <3>2. got'[c] \in Seq(Posted(c)')
      BY <3>1 DEF ChannelInv, Placed
    <3> QED BY <3>2
  <2> QED BY <2>1, <2>2 DEF Within
<1>4. CASE Interrupt(c)
  <2>1. turn' = turn /\ docs' = docs /\ got' = got /\ at'[c] = "interrupted"
    BY <1>1, <1>4 DEF Interrupt, MoveTo, SlackType, listVars
  <2> QED BY <2>1 DEF Within
<1>5. CASE Messages(c)
  <2>1. at[c] = "messages" /\ turn[c].item = 1 /\ got' = got
    <3>1. at[c] = "messages" /\ got' = got
      BY <1>5 DEF Messages, TakeMessage, SkipMessage, ChannelDone, listVars
    <3> QED BY <1>1, <3>1 DEF Placed
  <2>2. CASE TakeMessage(c)
    <3> DEFINE new == Document(Message(c).id, "message", Message(c).id, cut[c])
    <3>1. turn' = turn /\ docs'[c] = docs[c] \cup {new} /\ turn[c].message <= Len(got[c])
      BY <2>2 DEF TakeMessage, SlackType
    <3>2. new.surface \in Surfaces
      BY <1>1 DEF Document
    <3> HIDE DEF new
    <3>3. Message(c)' = Message(c)
      BY <2>1, <3>1 DEF Message
    <3>4. Len(Message(c).items) \in Nat
      BY <1>1, <2>1, <3>1, AtHand
    <3> QED BY <2>1, <3>1, <3>2, <3>3, <3>4 DEF Within
  <2>3. CASE SkipMessage(c)
    <3>1. NextMessage(c) /\ docs' = docs /\ turn[c].message <= Len(got[c])
      BY <2>3 DEF SkipMessage
    <3>2. at'[c] = "messages" /\ turn'[c].message = turn[c].message + 1
      BY <3>1, NextAtHand
    <3> QED BY <1>2, <2>1, <3>1, <3>2 DEF Within
  <2>4. CASE ChannelDone(c)
    <3>1. turn' = turn /\ docs' = docs /\ at'[c] = "over"
      BY <1>1, <2>4 DEF ChannelDone, MoveTo, SlackType, bookVars
    <3> QED BY <2>1, <3>1 DEF Within
  <2> QED BY <1>5, <2>2, <2>3, <2>4 DEF Messages
<1>6. CASE Attachments(c)
  <2>1. /\ got' = got /\ Message(c)' = Message(c) /\ turn'[c].message = turn[c].message
        /\ turn[c].item \in DOMAIN Message(c).items
        /\ turn'[c].item = turn[c].item \/ turn'[c].item = turn[c].item + 1
        /\ Item(c).surface \in Surfaces
    BY <1>1, <1>6, ItemAtHand
  <2>2. turn[c].item \in 1..Len(Message(c).items) /\ Len(Message(c).items) \in Nat
    BY <1>1, <1>6, <2>1, ItemAtHand, AtHand
  <2> DEFINE new == Document(Item(c).id, Item(c).surface, Message(c).id, cut[c])
  <2>3. docs'[c] \subseteq docs[c] \cup {new}
    BY <1>6 DEF Attachments, MalformedItem, RepeatedItem, UnsupportedItem, OpenItem, ReadItem,
       LoseItem, SlackType
  <2>4. new.surface \in Surfaces
    BY <2>1 DEF Document
  <2> HIDE DEF new
  <2>5. turn'[c].item \in 1..(Len(Message(c).items) + 1)
    BY <1>2, <2>1, <2>2
  <2> QED BY <2>1, <2>3, <2>4, <2>5 DEF Within
<1>7. CASE Threads(c)
  <2>1. got' = got /\ turn[c].message \in DOMAIN got[c]
    BY <1>1, <1>7, DoneAtHand
  <2>2. \A d \in docs'[c] : d.surface \in Surfaces
    <3>1. docs' = docs \/ \E messages, k : TakeReplies(c, messages, k)
      BY <1>7 DEF Threads, NoThread, UnsupportedThread, OpenThread, ThreadPage, ThreadRead,
         ThreadCut, ThreadLost, MalformedReply, bookVars
    <3>2. ASSUME NEW messages, NEW k, TakeReplies(c, messages, k)
          PROVE  \A d \in docs'[c] : d \in docs[c] \/ d.surface = "thread_reply"
      BY <3>2, RepliesTaken
    <3> QED BY <1>1, <3>1, <3>2 DEF Within
  <2>3. \/ NextMessage(c)
        \/ turn' = turn /\ at'[c] = "thread"
    BY <1>1, <1>7
    DEF Threads, NoThread, UnsupportedThread, OpenThread, ThreadPage, ThreadRead, ThreadCut,
        ThreadLost, MalformedReply, TakeReplies, MoveTo, SlackType
  <2>4. CASE NextMessage(c)
    <3>1. at'[c] = "messages" /\ turn'[c].message = turn[c].message + 1
      BY <2>4, NextAtHand
    <3> QED BY <1>2, <2>1, <2>2, <3>1 DEF Within
  <2>5. CASE turn' = turn /\ at'[c] = "thread"
    BY <2>1, <2>2, <2>5 DEF Within
  <2> QED BY <2>3, <2>4, <2>5
<1> QED BY <1>3, <1>4, <1>5, <1>6, <1>7 DEF ChannelStep

\* Where a channel is left alone, it stays within its lists.
LEMMA WithinUntouched ==
    ASSUME NEW c, Within(c), Channel(c)' = Channel(c)
    PROVE  Within(c)'
<1>1. /\ at'[c] = at[c] /\ got'[c] = got[c] /\ turn'[c] = turn[c] /\ docs'[c] = docs[c]
  BY DEF Channel
<1>2. Message(c)' = Message(c)
  BY <1>1 DEF Message
<1> QED BY <1>1, <1>2 DEF Within

\* Every step of Slack keeps the types.
LEMMA CrawlTypedKept == SlackInv /\ CrawlTyped /\ [SlackNext]_slackVars => CrawlTyped'
<1> SUFFICES ASSUME SlackInv, CrawlTyped, [SlackNext]_slackVars PROVE CrawlTyped'
  OBVIOUS
<1>1. /\ SlackType /\ Listed /\ CallsTyped
      /\ \A c \in Channels : ChannelInv(c) /\ Within(c)
  BY DEF SlackInv, CrawlTyped
<1>2. Channels \subseteq Tasks /\ Main \in Tasks /\ Main \notin Channels
  BY CrawlAssumption DEF Tasks
<1>3. CASE UNCHANGED slackVars
  <2>1. CallsTyped'
    BY <1>1, <1>3 DEF CallsTyped, slackVars, listVars, bookVars
  <2>2. \A c \in Channels : Channel(c)' = Channel(c)
    BY <1>3 DEF Channel, slackVars, listVars, bookVars
  <2> QED BY <1>1, <2>1, <2>2, WithinUntouched DEF CrawlTyped
<1>4. ASSUME NEW c \in Channels, ChannelStep(c) PROVE CrawlTyped'
  <2>1. CallsTyped' /\ Within(c)'
    BY <1>1, <1>4, StepCallsTyped, StepWithin
  <2>2. \A d \in Channels : d # c => Channel(d)' = Channel(d)
    BY <1>1, <1>4, StepApart DEF Apart
  <2>3. ASSUME NEW d \in Channels PROVE Within(d)'
    BY <1>1, <2>1, <2>2, WithinUntouched
  <2> QED BY <2>1, <2>3 DEF CrawlTyped
<1>5. ASSUME NEW t \in Tasks, Send(t) \/ Retry(t) PROVE CrawlTyped'
  <2>1. CallsTyped'
    <3>1. UNCHANGED <<tools, found, at, cut, result>>
      BY <1>5 DEF Send, Retry, listVars, bookVars
    <3>2. sent' = [sent EXCEPT ![t] = TRUE] \/ sent' = [sent EXCEPT ![t] = FALSE]
      BY <1>5 DEF Send, Retry
    <3>3. retries' \in [Tasks -> 0..MaxRetries]
      <4>1. CASE Send(t)
        BY <1>1, <4>1 DEF Send, CallsTyped
      <4>2. CASE Retry(t)
        <5>1. retries[t] \in 0..MaxRetries /\ retries[t] < MaxRetries
          BY <1>1, <4>2 DEF Retry, CallsTyped
        <5>2. retries[t] + 1 \in 0..MaxRetries
          BY <5>1, CrawlAssumption
        <5>3. retries' = [retries EXCEPT ![t] = retries[t] + 1]
          BY <4>2 DEF Retry
        <5> QED BY <1>1, <5>2, <5>3 DEF CallsTyped
      <4> QED BY <1>5, <4>1, <4>2
    <3> QED BY <1>1, <3>1, <3>2, <3>3 DEF CallsTyped
  <2>2. \A c \in Channels : Channel(c)' = Channel(c)
    BY <1>5 DEF Send, Retry, Channel, listVars, bookVars
  <2> QED BY <1>1, <2>1, <2>2, WithinUntouched DEF CrawlTyped
<1>6. ASSUME Begin \/ ListingFails \/ Finish \/ AbortCrawl PROVE CrawlTyped'
  <2>1. CallsTyped'
    <3>1. /\ UNCHANGED <<tools, found, cut>>
          /\ result' \in {result, "OK", "FAILED", "CAPABILITY_UNAVAILABLE", "ABORTED"}
      BY <1>6 DEF Begin, ListingFails, Finish, AbortCrawl, listVars, bookVars
    <3>2. at' = at \/ \E v \in CrawlPlaces : at' = [at EXCEPT ![Main] = v]
      BY <1>6 DEF Begin, ListingFails, Finish, AbortCrawl, MoveTo, CrawlPlaces, Calls, Ended
    <3>3. UNCHANGED <<sent, retries>> \/ Answered(Main)
      BY <1>6 DEF Begin, ListingFails, Finish, AbortCrawl
    <3>4. sent' \in [Tasks -> BOOLEAN] /\ retries' \in [Tasks -> 0..MaxRetries]
      BY <1>1, <3>3, AnswerTyped DEF CallsTyped
    <3>5. at' \in [Tasks -> CrawlPlaces]
      BY <1>1, <3>2 DEF CallsTyped
    <3> QED BY <1>1, <3>1, <3>4, <3>5 DEF CallsTyped
  <2>2. UNCHANGED <<listVars, turn, cut, seen, ledger, docs>>
    BY <1>6 DEF Begin, ListingFails, Finish, AbortCrawl, bookVars
  <2>3. \A c \in Channels : at'[c] = at[c]
    BY <1>1, <1>2, <1>6 DEF Begin, ListingFails, Finish, AbortCrawl, MoveTo, SlackType
  <2>4. \A c \in Channels : Channel(c)' = Channel(c)
    BY <2>2, <2>3 DEF Channel, listVars
  <2> QED BY <1>1, <2>1, <2>4, WithinUntouched DEF CrawlTyped
<1>7. ASSUME ListingPage PROVE CrawlTyped'
  <2>1. UNCHANGED <<tools, got, turn, cut, docs, result>> /\ Answered(Main)
    BY <1>7 DEF ListingPage, bookVars
  <2>2. found' \subseteq Channels
    <3>1. page[Main] \in DOMAIN Listing
      BY <1>1, <1>7 DEF ListingPage, Listed
    <3>2. Ids(Listing[page[Main]]) \subseteq Channels
      BY <3>1, WorkspaceAssumption
    <3> QED BY <1>1, <1>7, <3>2 DEF ListingPage, CallsTyped
  <2>3. at' \in [Tasks -> CrawlPlaces] /\ \A c \in Channels : at'[c] \notin {"items", "reading"}
    <3>1. CASE at' = at
      <4>1. \A c \in Channels : at[c] = "idle"
        BY <1>1, <1>7 DEF ListingPage, Listed
      <4> QED BY <1>1, <3>1, <4>1 DEF CallsTyped
    <3>2. CASE at' = [t \in Tasks |->
                        IF t = Main THEN "crawling"
                        ELSE IF t \in found' /\ Readable(t) THEN "history" ELSE "idle"]
      BY <1>2, <3>2 DEF CrawlPlaces, Calls
    <3> QED BY <1>7, <3>1, <3>2 DEF ListingPage
  <2>4. sent' \in [Tasks -> BOOLEAN] /\ retries' \in [Tasks -> 0..MaxRetries]
    BY <1>1, <2>1, AnswerTyped
  <2>5. CallsTyped'
    BY <1>1, <2>1, <2>2, <2>3, <2>4 DEF CallsTyped
  <2>6. ASSUME NEW c \in Channels PROVE Within(c)'
    BY <1>1, <2>1, <2>3 DEF Within
  <2> QED BY <2>5, <2>6 DEF CrawlTyped
<1>8. CASE SlackNext
  <2>1. \/ Begin \/ ListingFails \/ Finish \/ AbortCrawl
        \/ ListingPage
        \/ \E t \in Tasks : Send(t) \/ Retry(t)
        \/ \E c \in Channels : ChannelStep(c)
    BY <1>8 DEF SlackNext, Crawl, ChannelStep
  <2> QED BY <1>4, <1>5, <1>6, <1>7, <2>1
<1> QED BY <1>3, <1>8

\* Every variable of a crawl of Slack keeps its type; no call is retried more often
\* than max_retries, and no page beyond the last of its list is asked for, however
\* the tasks interleave and whatever is refused.
THEOREM CrawlTypeCorrect == RunSpec => []SlackTypeOK
<1>1. RunInit => CrawlTyped
  <2> SUFFICES ASSUME RunInit PROVE CrawlTyped
    OBVIOUS
  <2>1. SlackInit
    BY DEF RunInit
  <2>2. CallsTyped
    BY <2>1, ToolAssumption, CrawlAssumption DEF SlackInit, CallsTyped, CrawlPlaces
  <2>3. ASSUME NEW c \in Channels PROVE Within(c)
    <3>1. /\ at[c] = "idle" /\ got[c] = <<>> /\ turn[c] = [message |-> 1, item |-> 1]
          /\ docs[c] = {}
      BY <2>1, CrawlAssumption DEF SlackInit, Tasks
    <3>2. Len(got[c]) = 0
      BY <3>1, EmptySeq
    <3> QED BY <3>1, <3>2 DEF Within
  <2> QED BY <2>2, <2>3 DEF CrawlTyped
<1>2. SlackInv /\ CrawlTyped /\ [RunNext]_allVars => CrawlTyped'
  <2>1. [RunNext]_allVars => [SlackNext]_slackVars
    BY DEF RunNext, SlackStep, NotionStep, Accept, allVars
  <2> QED BY <2>1, CrawlTypedKept
<1>3. RunSpec => [](SlackInv /\ CrawlTyped)
  BY <1>1, <1>2, SlackRuns, PTL DEF RunSpec
<1> QED BY <1>3, CrawlTypedIsTypeOK, PTL

=============================================================================
