------------------------------ MODULE Catalogue ------------------------------
(***************************************************************************)
(* What the release of suites promises to those who use the registry,      *)
(* without workflow runs, concurrency groups, images in turn or failures:  *)
(* a version appears at once, with the digests of all images and its       *)
(* commit, above all versions before it, and stays as it is; latest tags   *)
(* follow the newest one.  Release implements this specification.          *)
(***************************************************************************)
CONSTANTS Images, Versions, Commits, Digests, None, Lower(_, _)

VARIABLES
    releases, \* what a version stands for, or None
    newest,   \* the release that is called latest, or None
    latest    \* tag latest of each image: a digest or None

cvars == <<releases, newest, latest>>

Entries == [commit : Commits, digests : [Images -> Digests]]

Released == {v \in Versions : releases[v] # None}

Publish(v) ==
    /\ releases[v] = None
    /\ \A u \in Released : Lower(u, v)
    /\ newest' = v
    /\ \E e \in Entries : releases' = [releases EXCEPT ![v] = e]
    /\ UNCHANGED latest

(* The latest tags are moved one by one, and may stay behind for a while. *)
Follow(i) ==
    /\ newest # None
    /\ latest' = [latest EXCEPT ![i] = releases[newest].digests[i]]
    /\ UNCHANGED <<releases, newest>>

Init ==
    /\ releases = [v \in Versions |-> None]
    /\ newest = None
    /\ latest = [i \in Images |-> None]

Next ==
    \/ \E v \in Versions : Publish(v)
    \/ \E i \in Images : Follow(i)

Spec == Init /\ [][Next]_cvars
-----------------------------------------------------------------------------
(* What is called latest is released, and the highest of all versions.      *)
NewestIsHighest ==
    /\ newest # None => newest \in Released
    /\ \A v \in Released : newest # None /\ (v = newest \/ Lower(v, newest))

(* Nobody is served a suite that was put together of several versions for   *)
(* good: each latest tag is some release's digest of that image.            *)
LatestIsReleased ==
    \A i \in Images :
        latest[i] # None => \E v \in Released : latest[i] = releases[v].digests[i]
===============================================================================
