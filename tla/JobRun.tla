------------------------------- MODULE JobRun -------------------------------
(***************************************************************************)
(* JobLifecycle with the check of host capacity that comes before the       *)
(* launch: ci_docker_storage.measure and storage.evaluate.  The configured  *)
(* paths are measured one after the other, a filesystem when its first path *)
(* is met, while others write to the disks.                                 *)
(*                                                                         *)
(* A path stands for the directory it resolves to.  What makes measure or   *)
(* evaluate fail otherwise (I/O errors, a clock that was set between the    *)
(* two, a result that is not what it should be) is JobLifecycle's Interrupt.*)
(***************************************************************************)
EXTENDS JobLifecycle, Integers, Sequences

CONSTANTS
    Devices,
    Paths,
    Absent,           \* a source the settings set to null
    Configurations,   \* settings["storage"]
    Fillings,         \* what statvfs can say of a filesystem
    Reserve,          \* pressure.reserve_bytes
    CriticalPercent   \* pressure.critical_percent

ASSUME StorageAssumption ==
    /\ Absent \notin Paths
    /\ Configurations \subseteq
           [docker: Paths, containerd: Paths \cup {Absent}, other: Seq(Paths)]
    /\ Fillings \subseteq [total: Nat, used: Nat, available: Nat]
    /\ Reserve \in Nat \ {0} /\ CriticalPercent \in 1..100

VARIABLES
    sources,      \* settings["storage"]
    driver, root, \* of the daemon: the storage driver, DockerRootDir
    mount,        \* the device a path is on
    disk,         \* the filesystem on a device
    filesystems,  \* measured so far
    next,         \* the path measured next; 0 before the layout is checked
    roomy         \* history: devices that had room at some time

layout == <<sources, driver, root, mount>>
storage == <<layout, disk, filesystems, next, roomy>>
runvars == <<vars, storage>>

-----------------------------------------------------------------------------
(* ci_docker_storage.measure *)

StoragePaths ==
    <<sources.docker>>
    \o (IF sources.containerd = Absent THEN <<>> ELSE <<sources.containerd>>)
    \o sources.other

CheckLayout ==
    /\ pc = "preparing" /\ next = 0
    /\ driver \in {"overlay2", "containerd"}
    /\ driver = "containerd" => sources.containerd # Absent
    /\ sources.docker = root
    /\ next' = 1
    /\ UNCHANGED <<vars, layout, disk, filesystems, roomy>>

MeasurePath ==
    /\ pc = "preparing" /\ next \in 1..Len(StoragePaths)
    /\ LET seen == DOMAIN filesystems IN
       filesystems' = [d \in seen \cup {mount[StoragePaths[next]]} |->
                           IF d \in seen THEN filesystems[d] ELSE disk[d]]
    /\ next' = next + 1
    /\ UNCHANGED <<vars, layout, disk, roomy>>

-----------------------------------------------------------------------------
(* storage.evaluate *)

Accounted(f) == f.total # 0 /\ f.used + f.available <= f.total

Critical(f) == f.used * 100 >= CriticalPercent * f.total \/ f.available < Reserve

(* Slip: only what is known to be critical is refused. *)
NotCritical ==
    /\ next > Len(StoragePaths)
    /\ (\A d \in DOMAIN filesystems : Accounted(filesystems[d])) =>
           \A d \in DOMAIN filesystems : ~Critical(filesystems[d])

(* pressure["critical"] is False; None, if the status is unknown, is not. *)
Admissible ==
    /\ next > Len(StoragePaths)
    /\ \A d \in DOMAIN filesystems :
           Accounted(filesystems[d]) /\ ~Critical(filesystems[d])

-----------------------------------------------------------------------------
(* Room by the policy, for the history and the property *)
HasRoom(f) ==
    /\ f.available >= Reserve
    /\ f.used + f.available <= f.total
    /\ 100 * f.used < CriticalPercent * f.total

(* Others write to a disk.  Later than this the property does not ask. *)
Write(d) ==
    /\ pc = "preparing"
    /\ \E f \in Fillings :
           /\ disk' = [disk EXCEPT ![d] = f]
           /\ roomy' = IF HasRoom(f) THEN roomy \cup {d} ELSE roomy
    /\ UNCHANGED <<vars, layout, filesystems, next>>

(* Everything else run() and its command do. *)
Lifecycle ==
    /\ Next
    /\ pc' = "launching" => Admissible
    /\ UNCHANGED storage

RunInit ==
    /\ Init
    /\ sources \in Configurations
    /\ driver \in {"overlay2", "containerd", "other"}
    /\ root \in Paths
    /\ mount \in [Paths -> Devices]
    /\ disk \in [Devices -> Fillings]
    /\ roomy = {d \in Devices : HasRoom(disk[d])}
    /\ filesystems = <<>> /\ next = 0

RunNext == CheckLayout \/ MeasurePath \/ Lifecycle \/ \E d \in Devices : Write(d)

RunSpec == RunInit /\ [][RunNext]_runvars
-----------------------------------------------------------------------------
(* A command is launched only if the daemon's root, the backing path of a   *)
(* containerd store and every other configured path were on filesystems     *)
(* that had the reserve and were below the critical percentage at some time *)
(* while the lease was held, however others filled the disks during the     *)
(* measurement (docs/maintenance.md: "Jobs are refused when measurements    *)
(* are unavailable, the reserve is absent or insufficient, or the critical  *)
(* threshold is reached").                                                  *)
LaunchHadRoom ==
    attempted =>
        /\ driver \in {"overlay2", "containerd"}
        /\ driver = "containerd" => sources.containerd # Absent
        /\ mount[root] \in roomy
        /\ sources.containerd # Absent => mount[sources.containerd] \in roomy
        /\ \A i \in DOMAIN sources.other : mount[sources.other[i]] \in roomy
=============================================================================
