---------------------------- MODULE ResVaultKeys ----------------------------
(***************************************************************************)
(* The key pairs of the ResVault wallet, a browser extension: GlobalContext *)
(* and the pages Home, SignUp, Login, Dashboard and Contract               *)
(* (src/ecosystem/tools/resvault/src).                                     *)
(*                                                                         *)
(* The popup keeps the pairs in React state; chrome.storage keeps them     *)
(* encrypted under the password.  A storage area serves its requests in    *)
(* the order they were made: a get sees what was set before it was made,   *)
(* and its callback runs later, after whatever the user does meanwhile.    *)
(* A callback also sees the React state of the render it was created in    *)
(* (its closure).  Closing the popup loses React state and callbacks.      *)
(*                                                                         *)
(* A key pair is a number (0: none), its owner address is the same number; *)
(* the pairs generated are 1, 2, ...                                       *)
(***************************************************************************)
EXTENDS Integers, Sequences, SequencesExt, FiniteSets, Bags

CONSTANTS Passwords,
          Uploads,     \* contents of key pair files (sequences of pairs)
          MaxKeys,     \* bound on the pairs generated
          MaxCalls     \* bound on the storage requests under way

NoPassword == "none"
Indices == 0..(MaxKeys * 2 + 2)

VARIABLES
    stored,        \* encryptedKeyPairs in sync storage: password and pairs
    store,         \* store in sync storage: password (its hash) and pair
    localPassword, localIndex,               \* local storage
    keyPairs, selected, publicKey, owner,    \* React state of the context
    authenticated, storedPassword,
    page,          \* the page shown when not authenticated, or "closed"
    calls,         \* callbacks of sync storage still to run
    generated,     \* how many pairs were generated
    kept,          \* history: the bag of pairs the user has and did not delete
    overlapped     \* history: two changes were under way at once

storage == <<stored, store, localPassword, localIndex>>
shown == <<keyPairs, selected, publicKey, owner>>
session == <<authenticated, storedPassword, page>>
vars == <<storage, shown, session, calls, generated, kept, overlapped>>

Nothing == [pw |-> NoPassword, keys |-> <<>>]
NoStore == [pw |-> NoPassword, key |-> 0]

Init == /\ stored = Nothing /\ store = NoStore
        /\ localPassword = NoPassword /\ localIndex = 1
        /\ keyPairs = <<>> /\ selected = 1 /\ publicKey = 0 /\ owner = 0
        /\ authenticated = FALSE /\ storedPassword = NoPassword /\ page = "closed"
        /\ calls = <<>> /\ generated = 0 /\ kept = EmptyBag /\ overlapped = FALSE

(* The bag of the elements of a sequence.                                  *)
BagOf(pairs) == [k \in ToSet(pairs) |-> Cardinality({i \in DOMAIN pairs : pairs[i] = k})]

(* loadKeyPairsFromStorage: what cannot be decrypted counts as no pairs.   *)
loadKeyPairs(password) == IF stored.pw = password THEN stored.keys ELSE <<>>

(* The history ends when two changes overlap.                              *)
Keep(bag) == kept' = IF overlapped THEN EmptyBag ELSE bag

(* The end of generateKeyPair, deleteKeyPair and appendKeyPairs: the pairs *)
(* are saved, pair i is selected and written to store.                     *)
SaveKeyPairs(pairs, i) ==
    /\ stored' = [pw |-> storedPassword, keys |-> pairs]
    /\ keyPairs' = pairs
    /\ localIndex' = i

Select(pairs, i) == /\ selected' = i
                    /\ publicKey' = pairs[i]
                    /\ owner' = pairs[i]
                    /\ store' = [pw |-> storedPassword, key |-> pairs[i]]

(***************************************************************************)
(* The pages without a login.                                              *)
(***************************************************************************)

(* Home: an account whose password is not remembered has to log in.        *)
StartPage == IF store # NoStore /\ localPassword = NoPassword THEN "login" ELSE "home"

(* The effects that run when the popup opens.                              *)
OpenPopup ==
    /\ page = "closed"
    /\ storedPassword' = localPassword
    /\ page' = StartPage
    /\ LET pairs == IF localPassword = NoPassword THEN <<>> ELSE loadKeyPairs(localPassword)
           i == IF localIndex \in DOMAIN pairs THEN localIndex ELSE 1
       IN IF pairs = <<>>
          THEN /\ authenticated' = FALSE
               /\ UNCHANGED shown
          ELSE /\ authenticated' = TRUE
               /\ keyPairs' = pairs /\ selected' = i
               /\ publicKey' = pairs[i] /\ owner' = pairs[i]
    /\ UNCHANGED <<storage, calls, generated, kept, overlapped>>

ClosePopup ==
    /\ page # "closed"
    /\ page' = "closed" /\ authenticated' = FALSE /\ storedPassword' = NoPassword
    /\ keyPairs' = <<>> /\ selected' = 1 /\ publicKey' = 0 /\ owner' = 0
    /\ calls' = <<>>
    /\ UNCHANGED <<storage, generated, kept, overlapped>>

(* Storage answers long before a user has filled in a form: on these pages *)
(* no request is under way.                                                *)
Idle(p) == /\ ~authenticated
           /\ page = p
           /\ calls = <<>>

handleSignup == /\ Idle("home")
                /\ page' = "signup"
                /\ UNCHANGED <<storage, shown, authenticated, storedPassword, calls,
                               generated, kept, overlapped>>

(* createAccount and the effect of SignUp that calls generateKeyPair.      *)
createAccount(password) ==
    /\ Idle("signup")
    /\ generated < MaxKeys
    /\ localPassword' = password
    /\ storedPassword' = password
    /\ generated' = generated + 1
    /\ calls' = Append(calls, [op |-> "generate", pairs |-> loadKeyPairs(password),
                               key |-> generated + 1, old |-> 0, at |-> "signup"])
    /\ UNCHANGED <<stored, store, localIndex, shown, authenticated, page, kept, overlapped>>

\* Mutant: the pair of store is shown without looking it up.
loginKeepsFirst(password) ==
    /\ Idle("login")
    /\ store # NoStore /\ store.pw = password
    /\ stored.pw = password
    /\ keyPairs' = stored.keys
    /\ selected' = 1 /\ publicKey' = store.key
    /\ localPassword' = password /\ storedPassword' = password
    /\ authenticated' = TRUE
    /\ UNCHANGED <<stored, store, localIndex, owner, page, calls, generated, kept, overlapped>>

\* Mutant: a pair that is not in the list is not defaulted to the first one.
loginUnmatched(password) ==
    /\ Idle("login")
    /\ store # NoStore /\ store.pw = password
    /\ keyPairs' = stored.keys
    /\ selected' = IF store.key \in ToSet(stored.keys) THEN 1 ELSE -1
    /\ publicKey' = store.key
    /\ localPassword' = password /\ storedPassword' = password
    /\ authenticated' = TRUE
    /\ UNCHANGED <<stored, store, localIndex, owner, page, calls, generated, kept, overlapped>>

(* loginAccount with the right password; a wrong one only opens a modal.   *)
(* ownerAddress is not set.                                                *)
loginAccount(password) ==
    /\ Idle("login")
    /\ store # NoStore /\ store.pw = password
    /\ stored.pw = password
    /\ keyPairs' = stored.keys
    /\ LET found == {j \in DOMAIN stored.keys : stored.keys[j] = store.key}
           i == IF found = {} THEN 1 ELSE CHOOSE j \in found : \A k \in found : j <= k
       IN selected' = i /\ publicKey' = stored.keys[i]
    /\ localPassword' = password /\ storedPassword' = password
    /\ authenticated' = TRUE
    /\ UNCHANGED <<stored, store, localIndex, owner, page, calls, generated, kept, overlapped>>

removeAccount ==
    /\ Idle("login")
    /\ stored' = Nothing /\ store' = NoStore
    /\ localPassword' = NoPassword /\ localIndex' = 1
    /\ page' = "home"
    /\ kept' = EmptyBag
    /\ UNCHANGED <<shown, authenticated, storedPassword, calls, generated, overlapped>>

(***************************************************************************)
(* Dashboard and Contract.  The buttons call storage and return; another   *)
(* click may come before the callback.                                     *)
(***************************************************************************)
Click == /\ authenticated
         /\ Len(calls) < MaxCalls
         /\ overlapped' = (overlapped \/ calls # <<>>)

back == /\ authenticated
        /\ localPassword' = NoPassword
        /\ authenticated' = FALSE
        /\ page' = "login"
        /\ UNCHANGED <<stored, store, localIndex, shown, storedPassword, calls,
                       generated, kept, overlapped>>

switchKeyPair(i) ==
    /\ authenticated
    /\ i \in DOMAIN keyPairs
    /\ Select(keyPairs, i)
    /\ localIndex' = i
    /\ UNCHANGED <<stored, localPassword, keyPairs, session, calls, generated, kept, overlapped>>

handleGenerateKeyPair ==
    /\ Click
    /\ generated < MaxKeys
    /\ generated' = generated + 1
    /\ calls' = Append(calls, [op |-> "generate", pairs |-> loadKeyPairs(storedPassword),
                               key |-> generated + 1, old |-> Len(keyPairs), at |-> "main"])
    /\ UNCHANGED <<storage, shown, session, kept>>

handleDeleteKeyPair ==
    /\ Click
    /\ Len(keyPairs) > 1
    /\ calls' = Append(calls, [op |-> "delete", pairs |-> loadKeyPairs(storedPassword),
                               index |-> selected, closure |-> keyPairs])
    /\ UNCHANGED <<storage, shown, session, generated, kept>>

handleKeyPairFileUpload(file) ==
    /\ Click
    /\ calls' = Append(calls, [op |-> "append", pairs |-> loadKeyPairs(storedPassword),
                               file |-> file])
    /\ UNCHANGED <<storage, shown, session, generated, kept>>

(***************************************************************************)
(* The callbacks.                                                          *)
(***************************************************************************)
Due(op) == calls # <<>> /\ Head(calls).op = op

\* Mutant: the new pair is appended to the list shown, not to the one loaded.
generateFromContext ==
    /\ Due("generate")
    /\ LET c == Head(calls)
           pairs == Append(c.pairs, c.key)
       IN /\ stored' = [pw |-> storedPassword, keys |-> pairs]
          /\ localIndex' = Len(pairs)
          /\ keyPairs' = Append(keyPairs, c.key)
          /\ Select(pairs, Len(pairs))
          /\ calls' = Append(Tail(calls), [op |-> "generated", old |-> c.old, at |-> c.at])
          /\ Keep(kept (+) BagOf(<<c.key>>))
    /\ authenticated' = TRUE
    /\ UNCHANGED <<localPassword, storedPassword, page, generated, overlapped>>

generateKeyPair ==
    /\ Due("generate")
    /\ LET c == Head(calls)
           pairs == Append(c.pairs, c.key)
       IN /\ SaveKeyPairs(pairs, Len(pairs))
          /\ Select(pairs, Len(pairs))
          /\ calls' = Append(Tail(calls), [op |-> "generated", old |-> c.old, at |-> c.at])
          /\ Keep(kept (+) BagOf(<<c.key>>))
    /\ authenticated' = TRUE
    /\ UNCHANGED <<localPassword, storedPassword, page, generated, overlapped>>

(* Its own callback, once store is written: Dashboard selects the index    *)
(* keyPairs.length - 1 of its closure.                                     *)
keyPairGenerated ==
    /\ Due("generated")
    /\ selected' = IF Head(calls).at = "main" THEN Head(calls).old ELSE selected
    /\ calls' = Tail(calls)
    /\ UNCHANGED <<storage, keyPairs, publicKey, owner, session, generated, kept, overlapped>>

(* deleteKeyPair and the callback handleDeleteKeyPair gives it, which      *)
(* selects the first pair of its closure.  splice ignores an index beyond  *)
(* the end.                                                                *)
deleteKeyPair ==
    /\ Due("delete")
    /\ LET c == Head(calls)
           pairs == IF c.index \in DOMAIN c.pairs THEN RemoveAt(c.pairs, c.index) ELSE c.pairs
       IN IF Len(c.pairs) <= 1
          THEN UNCHANGED <<stored, keyPairs, localIndex, selected, publicKey, owner, store, kept>>
          ELSE /\ SaveKeyPairs(pairs, 1)
               /\ Select(c.closure, 1)
               /\ Keep(IF c.index \in DOMAIN c.closure
                       THEN kept (-) BagOf(<<c.closure[c.index]>>) ELSE kept)
    /\ calls' = Tail(calls)
    /\ UNCHANGED <<localPassword, session, generated, overlapped>>

(* Only the pairs stored already are filtered out: a pair that the file    *)
(* lists twice is added twice.                                             *)
appendKeyPairs ==
    /\ Due("append")
    /\ LET c == Head(calls)
           unique == SelectSeq(c.file, LAMBDA k : k \notin ToSet(c.pairs))
           pairs == c.pairs \o unique
       IN IF unique = <<>>
          THEN UNCHANGED <<stored, keyPairs, localIndex, selected, publicKey, owner, store, kept>>
          ELSE /\ SaveKeyPairs(pairs, Len(pairs))
               /\ Select(pairs, Len(pairs))
               /\ Keep(kept (+) BagOf(unique))
    /\ calls' = Tail(calls)
    /\ UNCHANGED <<localPassword, session, generated, overlapped>>

Next == \/ OpenPopup \/ ClosePopup
        \/ handleSignup
        \/ \E password \in Passwords : createAccount(password) \/ loginAccount(password)
        \/ removeAccount \/ back
        \/ \E i \in Indices : switchKeyPair(i)
        \/ handleGenerateKeyPair \/ handleDeleteKeyPair
        \/ \E file \in Uploads : handleKeyPairFileUpload(file)
        \/ generateKeyPair \/ keyPairGenerated \/ deleteKeyPair \/ appendKeyPairs

Spec == Init /\ [][Next]_vars

-----------------------------------------------------------------------------
(* Types; the stored index and password are ones the popup wrote.          *)
TypeOK == /\ stored.pw \in Passwords \cup {NoPassword}
          /\ store.pw \in Passwords \cup {NoPassword}
          /\ localIndex \in Indices /\ selected \in Indices
          /\ page \in {"closed", "home", "signup", "login"}
          /\ Len(calls) <= MaxCalls
          /\ generated \in 0..MaxKeys

(* The pairs the popup shows are the pairs in storage, however the         *)
(* callbacks of several clicks overlap.                                    *)
ContextIsStored == authenticated => keyPairs = stored.keys

(* The index in local storage denotes a pair of the list in sync storage:  *)
(* the two areas are written separately, and outlive the popup.            *)
IndexInRange == stored.keys # <<>> => localIndex \in DOMAIN stored.keys

(* The account stays accessible: store and encryptedKeyPairs are under one *)
(* password, and no other one is remembered, wherever the popup is closed. *)
CanLogin == store # NoStore => /\ stored.pw = store.pw
                               /\ stored.keys # <<>>
                               /\ localPassword \in {NoPassword, store.pw}

(* Unless two changes overlapped, the stored pairs are those the user      *)
(* generated or uploaded and has not deleted, copy by copy: a deletion     *)
(* removes one copy of a pair that an upload added twice.                  *)
NoKeyLost == ~overlapped => BagOf(stored.keys) = kept

(* What the comment on appendKeyPairs says of it: duplicates are prevented. *)
NoDuplicates == IsInjective(stored.keys)

(* Whoever gets into the wallet, by opening the popup, by logging in or by *)
(* signing up, sees a pair that is the selected one of the list.           *)
EntersConsistent ==
    [][~authenticated /\ authenticated' => publicKey' = keyPairs'[selected']]_vars

=============================================================================
