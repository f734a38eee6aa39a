-------------------------- MODULE LocalRepository --------------------------
(***************************************************************************)
(* What the commands of trdl promise to whoever uses a local repository:   *)
(* a channel goes from one whole release to the next at once, in the order *)
(* in which the server has published them, and no release is taken away    *)
(* that somebody counts on.  RepoClient does it with files and locks.      *)
(***************************************************************************)
CONSTANTS Releases, Channels, NoRelease

VARIABLES
    published,      \* the release the server has on each channel
    installed,      \* the release a command takes for each channel, or NoRelease
    coming,         \* what the update of the channel under way will install
    whole,          \* releases that are here with all their files
    pinned,         \* releases asked for by their version
    handedOut       \* releases whose path was given within a day

vars == <<published, installed, coming, whole, pinned, handedOut>>

Init ==
    /\ published \in [Channels -> Releases]
    /\ installed = [c \in Channels |-> NoRelease]
    /\ coming = [c \in Channels |-> {}]
    /\ whole = {} /\ pinned = {} /\ handedOut = {}

Publish(c, r) ==
    /\ published' = [published EXCEPT ![c] = r]
    /\ UNCHANGED <<installed, coming, whole, pinned, handedOut>>

\* One update of a channel at a time: none overtakes another.
BeginUpdate(c) ==
    /\ coming[c] = {}
    /\ coming' = [coming EXCEPT ![c] = {published[c]}]
    /\ UNCHANGED <<published, installed, whole, pinned, handedOut>>

GiveUpUpdate(c) ==
    /\ coming' = [coming EXCEPT ![c] = {}]
    /\ UNCHANGED <<published, installed, whole, pinned, handedOut>>

FinishUpdate(c) ==
    /\ \E r \in coming[c] \cap whole : installed' = [installed EXCEPT ![c] = r]
    /\ coming' = [coming EXCEPT ![c] = {}]
    /\ UNCHANGED <<published, whole, pinned, handedOut>>

Place(r) ==
    /\ whole' = whole \cup {r}
    /\ UNCHANGED <<published, installed, coming, pinned, handedOut>>

\* A release nobody counts on: not on a channel, not pinned, not in use.
Clean(r) ==
    /\ \A c \in Channels : installed[c] # r
    /\ r \notin pinned \cup handedOut
    /\ whole' = whole \ {r}
    /\ UNCHANGED <<published, installed, coming, pinned, handedOut>>

HandOut(r) ==
    /\ r \in whole
    /\ handedOut' = handedOut \cup {r}
    /\ UNCHANGED <<published, installed, coming, whole, pinned>>

Forget(r) ==
    /\ handedOut' = handedOut \ {r}
    /\ UNCHANGED <<published, installed, coming, whole, pinned>>

Pin(r) ==
    /\ r \in whole
    /\ pinned' = pinned \cup {r}
    /\ UNCHANGED <<published, installed, coming, whole, handedOut>>

\* The mark of a version may get lost.
Unpin(r) ==
    /\ pinned' = pinned \ {r}
    /\ UNCHANGED <<published, installed, coming, whole, handedOut>>

Next ==
    \/ \E r \in Releases :
          \/ Pin(r) \/ Unpin(r) \/ HandOut(r) \/ Forget(r) \/ Place(r) \/ Clean(r)
          \/ \E c \in Channels : Publish(c, r)
    \/ \E c \in Channels : BeginUpdate(c) \/ GiveUpUpdate(c) \/ FinishUpdate(c)

Spec == Init /\ [][Next]_vars
=============================================================================
