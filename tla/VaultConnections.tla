-------------------------- MODULE VaultConnections --------------------------
(***************************************************************************)
(* How the ResVault wallet connects a web site to a net: the popup pages   *)
(* Dashboard and Contract (src/ecosystem/tools/resvault/src/pages), which  *)
(* have the same code for it, and the background script                    *)
(* (src/ecosystem/tools/resvault/public/background.js).                    *)
(*                                                                         *)
(* Whether a site is connected is kept twice in chrome.storage.local: the  *)
(* background script writes keys and connectedNets, with which it signs;   *)
(* the popup writes connections, from which it shows the status.  Every    *)
(* write is a get whose callback sets the changed object.  The callbacks   *)
(* of one script run in the order of its requests; the two scripts, and    *)
(* the encryption before storeKeys writes, interleave freely.              *)
(***************************************************************************)
EXTENDS Naturals, FiniteSets, Sequences

CONSTANTS Domain, Net,
          MaxPending      \* bound on the requests under way

None == "none"
Manage == "Manage Nets"
Empty == [keys |-> {}, nets |-> [d \in Domain |-> None]]

VARIABLES
    local,          \* keys (the pairs <<domain, net>> that have some) and connectedNets
    connections,    \* the pairs <<domain, net>> marked as connected
    activeNet,      \* the net of activeNetUrl
    domain,         \* the site the popup is open on, or None
    selectedNet, isConnected,                \* React state of the page
    storing,        \* storeKeys requests that are encrypting
    calls,          \* gets of the background script
    replies,        \* responses to the popup
    gets,           \* gets of the popup
    unstored,       \* history: the pairs whose last storeKeys failed
    disturbed,      \* history: the service mode was changed, or something was
                    \* done with requests under way
    keysChanged     \* history: how the pair was changed since the last connect

popup == <<domain, selectedNet, isConnected>>
queues == <<storing, calls, replies, gets>>
history == <<disturbed, keysChanged>>
vars == <<local, unstored, connections, activeNet, popup, queues, history>>

Pending == Cardinality(storing) + Len(calls) + Len(replies) + Len(gets)
Settled == storing = {} /\ calls = <<>> /\ replies = <<>> /\ gets = <<>>

Init == /\ local = Empty /\ unstored = {} /\ connections = {}
        /\ activeNet \in Net
        /\ domain = None /\ selectedNet = activeNet /\ isConnected = FALSE
        /\ storing = {} /\ calls = <<>> /\ replies = <<>> /\ gets = <<>>
        /\ disturbed = FALSE /\ keysChanged = "no"

(* The other histories end when the wallet is disturbed.                   *)
Changed(how) == keysChanged' = IF disturbed THEN "no" ELSE how
Unstored(pairs) == unstored' = IF disturbed THEN {} ELSE pairs

(* setDomainConnectionStatus and getDomainConnectionStatus issue a get and *)
(* see connections as it is now.                                           *)
setDomainConnectionStatus(d, n, connected) ==
    [op |-> "set", d |-> d, n |-> n, value |-> connected, seen |-> connections]
getDomainConnectionStatus(d, n) ==
    [op |-> "status", d |-> d, n |-> n, value |-> <<d, n>> \in connections, seen |-> {}]

(***************************************************************************)
(* The popup.                                                              *)
(***************************************************************************)

(* The effects of a page that is mounted: the net is that of activeNetUrl, *)
(* and the status is read for it (twice, with the same result).            *)
Mount(d) == /\ domain' = d
            /\ selectedNet' = activeNet
            /\ isConnected' = FALSE

OpenPopup(d) ==
    /\ domain = None
    /\ Mount(d)
    /\ gets' = <<getDomainConnectionStatus(d, activeNet)>>
    /\ disturbed' = (disturbed \/ ~Settled)
    /\ UNCHANGED <<local, unstored, connections, activeNet, storing, calls, replies, keysChanged>>

(* The callbacks of the popup are lost, the requests it sent are not.      *)
ClosePopup ==
    /\ domain # None
    /\ domain' = None /\ selectedNet' = activeNet /\ isConnected' = FALSE
    /\ keysChanged' = "no"
    /\ storing' = {[r EXCEPT !.reply = "none"] : r \in storing}
    /\ calls' = [i \in DOMAIN calls |-> [calls[i] EXCEPT !.reply = "none"]]
    /\ replies' = <<>> /\ gets' = <<>>
    /\ disturbed' = (disturbed \/ ~Settled)
    /\ UNCHANGED <<local, unstored, connections, activeNet>>

Click == /\ domain # None
         /\ Pending < MaxPending
         /\ disturbed' = (disturbed \/ ~Settled)

(* The message disconnectKeys for the net shown; the background script     *)
(* starts with a get.                                                      *)
SendDisconnect(reply, to) ==
    calls' = Append(calls, [op |-> "disconnect", d |-> domain, n |-> selectedNet,
                            reply |-> reply, to |-> to, seen |-> local])

toggleConnection ==
    /\ Click
    /\ isConnected' = ~isConnected
    /\ IF isConnected
       THEN /\ SendDisconnect("status", None)
            /\ UNCHANGED <<storing, keysChanged>>
       ELSE /\ storing' = storing \cup
                   {[d |-> domain, n |-> selectedNet, reply |-> "status", to |-> None]}
            /\ keysChanged' = "no"
            /\ UNCHANGED calls
    /\ UNCHANGED <<local, unstored, connections, activeNet, domain, selectedNet, replies, gets>>

(* switchNetwork; the entry "Manage Nets" only opens a dialog.             *)
switchNetwork(to) ==
    IF to = Manage
    THEN UNCHANGED <<selectedNet, activeNet, keysChanged>>
    ELSE /\ selectedNet' = to /\ activeNet' = to
         /\ keysChanged' = "no"

StatusOf(to, d) == IF to = Manage THEN <<>> ELSE <<getDomainConnectionStatus(d, to)>>

handleNetworkChange(to) ==
    /\ Click
    /\ to # selectedNet
    /\ IF isConnected
       THEN /\ SendDisconnect("switch", to)
            /\ UNCHANGED <<selectedNet, activeNet, gets, keysChanged>>
       ELSE /\ switchNetwork(to)
            /\ gets' = gets \o StatusOf(to, domain)
            /\ UNCHANGED calls
    /\ UNCHANGED <<local, unstored, connections, domain, isConnected, storing, replies>>

(* disconnectDueToKeysChange, after another pair was selected or generated *)
(* (switchKeyPair and handleGenerateKeyPair).                              *)
disconnectDueToKeysChange ==
    /\ Click
    /\ Changed("switched")
    /\ IF isConnected THEN SendDisconnect("keys", None) ELSE UNCHANGED calls
    /\ UNCHANGED <<local, unstored, connections, activeNet, popup, storing, replies, gets>>

(* The pair shown was deleted or replaced by an uploaded one: neither      *)
(* disconnects, the site keeps the keys of the pair used before.           *)
PairReplaced ==
    /\ domain # None
    /\ Changed(IF keysChanged = "switched" THEN keysChanged ELSE "replaced")
    /\ UNCHANGED <<local, unstored, connections, activeNet, popup, queues, disturbed>>

handleDeleteKeyPair == PairReplaced
handleKeyPairFileUpload == PairReplaced

(* toggleServiceMode clears connections; the other page is mounted and     *)
(* reads its status.  Taken only when no callback of the page that goes    *)
(* away is left.                                                           *)
toggleServiceMode ==
    /\ domain # None /\ Settled
    /\ connections' = {}
    /\ Mount(domain)
    /\ gets' = <<[op |-> "status", d |-> domain, n |-> activeNet, value |-> FALSE, seen |-> {}]>>
    /\ disturbed' = TRUE
    /\ UNCHANGED <<local, unstored, activeNet, storing, calls, replies, keysChanged>>

(* The callbacks of the messages, with the domain and the net of the       *)
(* render that sent them.                                                  *)
Reply ==
    /\ replies # <<>>
    /\ LET r == Head(replies)
           set == setDomainConnectionStatus(r.d, r.n, r.value)
       IN /\ replies' = Tail(replies)
          /\ isConnected' = IF r.reply = "status" THEN isConnected ELSE FALSE
          /\ IF r.reply = "switch"
             THEN /\ switchNetwork(r.to)
                  /\ gets' = Append(gets, set) \o StatusOf(r.to, r.d)
             ELSE /\ gets' = Append(gets, set)
                  /\ UNCHANGED <<selectedNet, activeNet, keysChanged>>
    /\ UNCHANGED <<local, unstored, connections, domain, storing, calls, disturbed>>

(* The callbacks of the popup's gets.                                      *)
Got ==
    /\ gets # <<>>
    /\ LET g == Head(gets)
       IN /\ gets' = Tail(gets)
          /\ IF g.op = "set"
             THEN /\ connections' = IF g.value THEN g.seen \cup {<<g.d, g.n>>}
                                               ELSE g.seen \ {<<g.d, g.n>>}
                  /\ UNCHANGED isConnected
             ELSE /\ isConnected' = g.value
                  /\ UNCHANGED connections
    /\ UNCHANGED <<local, unstored, activeNet, domain, selectedNet, storing, calls, replies, history>>

(***************************************************************************)
(* The background script.                                                  *)
(***************************************************************************)
Respond(c, value) ==
    replies' = IF c.reply = "none" THEN replies
               ELSE Append(replies, [d |-> c.d, n |-> c.n, reply |-> c.reply,
                                     to |-> c.to, value |-> value])

(* storeKeys has generated its key and encrypted the data: its get.        *)
storeKeysEncrypted(r) ==
    /\ r \in storing
    /\ storing' = storing \ {r}
    /\ calls' = Append(calls, [op |-> "store", d |-> r.d, n |-> r.n,
                               reply |-> r.reply, to |-> r.to, seen |-> local])
    /\ UNCHANGED <<local, unstored, connections, activeNet, popup, replies, gets, history>>

(* It failed before its get: the callback of toggleConnection takes the    *)
(* answer success: false for any other.                                    *)
storeKeysFails(r) ==
    /\ r \in storing
    /\ storing' = storing \ {r}
    /\ Unstored(unstored \cup {<<r.d, r.n>>})
    /\ Respond(r, TRUE)
    /\ UNCHANGED <<local, connections, activeNet, popup, calls, gets, history>>

storeKeys ==
    /\ calls # <<>> /\ Head(calls).op = "store"
    /\ LET c == Head(calls)
       IN /\ local' = [keys |-> c.seen.keys \cup {<<c.d, c.n>>},
                       nets |-> [c.seen.nets EXCEPT ![c.d] = c.n]]
          /\ Unstored(unstored \ {<<c.d, c.n>>})
          /\ Respond(c, TRUE)
    /\ calls' = Tail(calls)
    /\ UNCHANGED <<connections, activeNet, popup, storing, gets, history>>

\* Mutant: the net the site is connected to is not forgotten.
disconnectKeysOnly ==
    /\ calls # <<>> /\ Head(calls).op = "disconnect"
    /\ LET c == Head(calls)
       IN /\ local' = [c.seen EXCEPT !.keys = @ \ {<<c.d, c.n>>}]
          /\ Unstored(unstored \ {<<c.d, c.n>>})
          /\ Respond(c, FALSE)
    /\ calls' = Tail(calls)
    /\ UNCHANGED <<connections, activeNet, popup, storing, gets, history>>

(* disconnectKeys writes nothing when there are no such keys.              *)
disconnectKeys ==
    /\ calls # <<>> /\ Head(calls).op = "disconnect"
    /\ LET c == Head(calls)
       IN /\ local' = IF <<c.d, c.n>> \notin c.seen.keys THEN local
                      ELSE [keys |-> c.seen.keys \ {<<c.d, c.n>>},
                            nets |-> IF c.seen.nets[c.d] = c.n
                                     THEN [c.seen.nets EXCEPT ![c.d] = None]
                                     ELSE c.seen.nets]
          /\ Unstored(unstored \ {<<c.d, c.n>>})
          /\ Respond(c, FALSE)
    /\ calls' = Tail(calls)
    /\ UNCHANGED <<connections, activeNet, popup, storing, gets, history>>

Next == \/ \E d \in Domain : OpenPopup(d)
        \/ ClosePopup
        \/ toggleConnection
        \/ \E to \in Net \cup {Manage} : handleNetworkChange(to)
        \/ disconnectDueToKeysChange
        \/ handleDeleteKeyPair \/ handleKeyPairFileUpload
        \/ toggleServiceMode
        \/ Reply \/ Got
        \/ \E r \in storing : storeKeysEncrypted(r) \/ storeKeysFails(r)
        \/ storeKeys \/ disconnectKeys

Spec == Init /\ [][Next]_vars

-----------------------------------------------------------------------------
(* checkConnectionStatus of content.js: the site may have transactions     *)
(* signed.                                                                 *)
checkConnectionStatus(d) == local.nets[d] # None /\ <<d, local.nets[d]>> \in local.keys

(* Types; the records name sites and nets the wallet knows.                *)
TypeOK == /\ local.keys \subseteq Domain \X Net
          /\ local.nets \in [Domain -> Net \cup {None}]
          /\ connections \subseteq Domain \X Net
          /\ unstored \subseteq Domain \X Net
          /\ activeNet \in Net /\ selectedNet \in Net
          /\ domain \in Domain \cup {None} /\ isConnected \in BOOLEAN
          /\ Pending <= 2 * MaxPending

(* keys and connectedNets stay consistent with each other, however the     *)
(* stale objects that storeKeys and disconnectKeys write overtake each     *)
(* other: the net of a connected site always has keys to sign with.        *)
ConnectedHasKeys == \A d \in Domain : local.nets[d] # None => checkConnectionStatus(d)

(* The two records agree, though two scripts write them one after the      *)
(* other: once everything is answered, the popup's connections are the     *)
(* sites and nets for which keys are kept and, because toggleConnection    *)
(* ignores the answer, those for which storeKeys failed.                   *)
ConnectionsAreKeys ==
    Settled /\ ~disturbed => connections = local.keys \cup unstored

(* After another pair was selected or generated the net shown has no keys  *)
(* for this site: it cannot go on signing with the pair used before.  A    *)
(* pair that was deleted or replaced by an upload may go on signing.       *)
KeyChangeDisconnects ==
    domain # None /\ Settled /\ ~disturbed /\ keysChanged = "switched"
        => <<domain, selectedNet>> \notin local.keys

(* What the two scripts keep about a site stays in step (background.js,    *)
(* Dashboard.jsx).                                                         *)
ConnectionsSafe == ConnectedHasKeys /\ ConnectionsAreKeys /\ KeyChangeDisconnects

=============================================================================
