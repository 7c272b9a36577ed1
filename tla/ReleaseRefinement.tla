-------------------------- MODULE ReleaseRefinement --------------------------
(* Release implements Catalogue: a version is what its version tags name    *)
(* from the moment its Git tag and GitHub Release exist.                    *)
EXTENDS Release

Entry(v) == [commit |-> git[v], digests |-> [i \in Images |-> stable[i][v]]]

CatalogueOf == [v \in Versions |-> IF git[v] = None THEN None ELSE Entry(v)]

C == INSTANCE Catalogue
     WITH releases <- CatalogueOf,
          newest <- current,
          latest <- latest

ASSUME EntryAssumption == None \notin C!Entries

(* Every step of builds and releases, failures and re-runs of either        *)
(* included, publishes a whole version, moves a latest tag to the newest    *)
(* one, or changes nothing that users of the registry rely on.              *)
ImplementsCatalogue == C!Spec

(* The release that GitHub calls latest, which job `latest` asks for, is    *)
(* the one whose Git tag next-version.sh takes for the current version.     *)
CurrentIsHighest ==
    /\ current # None => current \in Released
    /\ \A v \in Released : current # None /\ (v = current \/ Lower(v, current))

(* No latest tag ever names an image that is of no release.                 *)
LatestIsReleased ==
    \A i \in Images : latest[i] # None => \E v \in Released : latest[i] = stable[i][v]
===============================================================================
