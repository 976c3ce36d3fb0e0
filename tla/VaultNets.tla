------------------------------ MODULE VaultNets ------------------------------
(***************************************************************************)
(* The nets of the ResVault wallet: which net the pages Dashboard and      *)
(* Contract show as selected, and the GraphQL URL a connection is made to  *)
(* (src/ecosystem/tools/resvault/src/pages).  The two are separate React   *)
(* states, set by the handlers and by an effect that reads activeNetUrl    *)
(* from storage; its callback sees the nets of the render it belongs to.   *)
(*                                                                         *)
(* The URL of a built-in net depends on the service mode: it is the pair   *)
(* of both.  Any other URL is the pair of a host and a protocol.           *)
(***************************************************************************)
EXTENDS Naturals, Sequences, SequencesExt

CONSTANTS Name, Host,     \* names and hosts of nets the user adds
          MaxNets,        \* bound on the nets added
          MaxEffects      \* bound on the effects under way

Known == {"Mainnet", "Localnet"}
Mode == {"KV", "Contract"}
Protocol == {"http", "https"}
NoUrl == <<"none", "none">>

VARIABLES
    stored,         \* nets in localStorage, a sequence of [name, url]
    activeNetUrl,   \* in chrome.storage.local
    serviceMode,
    open,
    nets, selectedNet, completeUrl, customUrl, protocol,   \* React state of the page
    effects,        \* effects whose get of activeNetUrl is not answered
    edited          \* history: a URL was typed, or got another protocol, and
                    \* nothing was selected since

page == <<nets, selectedNet, completeUrl, customUrl, protocol>>
vars == <<stored, activeNetUrl, serviceMode, open, page, effects, edited>>

Init == /\ stored = <<>> /\ activeNetUrl = NoUrl /\ serviceMode = "KV"
        /\ open = FALSE
        /\ nets = <<>> /\ selectedNet = "" /\ completeUrl = NoUrl /\ customUrl = ""
        /\ protocol = "http"
        /\ effects = <<>> /\ edited = FALSE

(* nets.find: the first of the nets that pass its test.                    *)
FirstOf(found) == IF found = <<>> THEN {} ELSE {Head(found)}

(* The effect of [nets, serviceMode] issues its get.                       *)
FetchActiveNet(list) == [url |-> activeNetUrl, nets |-> list]

(* A page is mounted: the effect runs for the empty list and again for the *)
(* list that was loaded from localStorage.                                 *)
Mount(mode) ==
    /\ serviceMode' = mode
    /\ nets' = stored /\ selectedNet' = "" /\ completeUrl' = NoUrl /\ customUrl' = ""
    /\ protocol' = "http"
    /\ effects' = <<FetchActiveNet(<<>>), FetchActiveNet(stored)>>
    /\ edited' = FALSE

OpenPopup == /\ ~open
             /\ open' = TRUE
             /\ Mount(serviceMode)
             /\ UNCHANGED <<stored, activeNetUrl>>

ClosePopup == /\ open
              /\ open' = FALSE
              /\ nets' = <<>> /\ selectedNet' = "" /\ completeUrl' = NoUrl
              /\ customUrl' = "" /\ protocol' = "http" /\ effects' = <<>> /\ edited' = FALSE
              /\ UNCHANGED <<stored, activeNetUrl, serviceMode>>

toggleServiceMode ==
    /\ open
    /\ \E mode \in Mode \ {serviceMode} : Mount(mode)
    /\ UNCHANGED <<stored, activeNetUrl, open>>

(* The callback of the effect.                                             *)
ActiveNetFetched ==
    /\ effects # <<>>
    /\ LET url == Head(effects).url
           custom == FirstOf(SelectSeq(Head(effects).nets, LAMBDA net : net.url = url))
       IN /\ completeUrl' = IF url = NoUrl THEN <<"Mainnet", serviceMode>> ELSE url
          /\ selectedNet' = CASE url = NoUrl -> "Mainnet"
                              [] url[1] \in Known -> url[1]
                              [] custom # {} -> (CHOOSE net \in custom : TRUE).name
                              [] OTHER -> "Custom URL"
          /\ customUrl' = IF url = NoUrl \/ url[1] \in Known THEN customUrl ELSE url[1]
    /\ effects' = Tail(effects)
    /\ edited' = FALSE
    /\ UNCHANGED <<stored, activeNetUrl, serviceMode, open, nets, protocol>>

handleCustomUrlChange(host) ==
    /\ open
    /\ customUrl' = host /\ completeUrl' = <<host, protocol>>
    /\ edited' = TRUE
    /\ UNCHANGED <<stored, activeNetUrl, serviceMode, open, nets, selectedNet, protocol, effects>>

(* The lock beside the field of the URL in the dialog of the nets.         *)
toggleProtocol ==
    /\ open
    /\ protocol' \in Protocol \ {protocol}
    /\ IF selectedNet = "Custom URL" /\ customUrl # ""
       THEN completeUrl' = <<customUrl, protocol'>> /\ edited' = TRUE
       ELSE UNCHANGED <<completeUrl, edited>>
    /\ UNCHANGED <<stored, activeNetUrl, serviceMode, open, nets, selectedNet, customUrl, effects>>

setNets(list) == /\ Len(effects) < MaxEffects
                 /\ nets' = list /\ stored' = list
                 /\ effects' = Append(effects, FetchActiveNet(list))

addNet(name) ==
    /\ open /\ Len(nets) < MaxNets
    /\ customUrl # ""
    /\ setNets(Append(nets, [name |-> name, url |-> <<customUrl, protocol>>]))
    /\ selectedNet' = name /\ customUrl' = ""
    /\ UNCHANGED <<activeNetUrl, serviceMode, open, completeUrl, protocol, edited>>

removeNet(name) ==
    /\ open
    /\ \E i \in DOMAIN nets : nets[i].name = name
    /\ setNets(SelectSeq(nets, LAMBDA net : net.name # name))
    /\ UNCHANGED <<activeNetUrl, serviceMode, open, selectedNet, completeUrl, customUrl, protocol,
                   edited>>

(* switchNetwork, once a net that was connected is disconnected.           *)
switchNetwork(value) ==
    /\ open
    /\ value # selectedNet
    /\ \/ /\ value \in Known
          /\ completeUrl' = <<value, serviceMode>>
          /\ UNCHANGED customUrl
       \/ \E net \in FirstOf(SelectSeq(nets, LAMBDA n : n.name = value)) :
             completeUrl' = net.url /\ customUrl' = net.url[1]
    /\ selectedNet' = value
    /\ activeNetUrl' = completeUrl'
    /\ edited' = FALSE
    /\ UNCHANGED <<stored, serviceMode, open, nets, protocol, effects>>

Next == \/ OpenPopup \/ ClosePopup \/ toggleServiceMode \/ ActiveNetFetched
        \/ toggleProtocol
        \/ \E host \in Host \cup {""} : handleCustomUrlChange(host)
        \/ \E name \in Name : addNet(name) \/ removeNet(name)
        \/ \E value \in Known \cup Name : switchNetwork(value)

Spec == Init /\ [][Next]_vars

-----------------------------------------------------------------------------
(* Types; every stored net passed the checks of addNet.                    *)
TypeOK == /\ activeNetUrl[1] \in Known \cup Host \cup {"none"}
          /\ selectedNet \in Known \cup Name \cup {"", "Custom URL"}
          /\ customUrl \in Host \cup {""} /\ protocol \in Protocol
          /\ Len(nets) <= MaxNets
          /\ \A i \in DOMAIN stored : stored[i].url \in Host \X Protocol
          /\ serviceMode \in Mode

UrlsOf(name) == {nets[i].url : i \in {j \in DOMAIN nets : nets[j].name = name}}

(* When the effects are done and no URL has just been typed or got another *)
(* protocol, the URL a connection is made to belongs to the net shown as   *)
(* selected, and to none of the nets when "Custom URL" is shown, whatever  *)
(* nets were added, renamed over and removed in between, in this popup or  *)
(* an earlier one (Dashboard.jsx:187-216).                                 *)
UrlIsOfNet ==
    open /\ effects = <<>> /\ ~edited =>
        CASE selectedNet \in Known -> completeUrl[1] = selectedNet
          [] selectedNet \in Name -> completeUrl \in UrlsOf(selectedNet)
          [] OTHER -> \A i \in DOMAIN nets : nets[i].url # completeUrl

(* While "Custom URL" is shown, typing and the lock included, a connection *)
(* is made to the host in the field beside it (Dashboard.jsx:226-232,      *)
(* 357-362).                                                               *)
CustomUrlIsShown ==
    open /\ effects = <<>> /\ selectedNet = "Custom URL" => completeUrl[1] = customUrl

=============================================================================
