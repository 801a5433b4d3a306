-------------------------- MODULE ContainerProofs --------------------------
(***************************************************************************)
(* The safety of run_container(), for every set of processes around the    *)
(* container and whichever of its calls may fail or processes be killed.   *)
(*                                                                         *)
(* None of the properties is inductive: each speaks of one moment (the     *)
(* child past the barrier, the parent back from waitpid()) and rests on    *)
(* how the two processes got there.  The invariant Inv says, for every     *)
(* place of the two program counters, what has been done by then.          *)
(***************************************************************************)
EXTENDS Container, TLAPS

-----------------------------------------------------------------------------
(* The inductive invariant *)

Working == {"create", "move", "enable", "mkdir", "memory", "swap", "pids", "add",
            "release"}

\* Where the other process can be.  The parent holds its write end until it
\* has released the barrier, so a child past the barrier runs beside a parent
\* that waits for it or is dead; waitpid() returns only after the child's end.
BarrierOK ==
    /\ ppc \in {"clone"} \union Working => "parent" \in writers
    /\ cpc \in Past => ppc \in {"wait", "dead"}
    /\ ppc = "clone" => cpc = "none" /\ ~owned
    /\ cpc = "none" => ppc \in {"clone", "returned"} /\ ~owned
    /\ cpc = "reaped" => ppc = "returned"
    /\ ppc = "returned" => cpc \in {"none", "reaped"}

\* Only the child is ever in the container's cgroup, and only while it lives.
CgroupOK ==
    /\ \A p \in Procs : where[p] = "mc" => p = "child"
    /\ cpc \in {"none", "exited", "reaped"} => where["child"] = "none"
    /\ ppc = "returned" /\ owned => ~cgdir

\* The user has been told, or the limits up to this point are in place; of the
\* cap on swap he is not told.
Set(l) == l \in cfg.limits => limits[LimitFile(l)] = "asked"

LimitsOK ==
    /\ ppc = "swap" => "memory" \in cfg.limits
    /\ complaint = "none" =>
          /\ ppc \in {"swap", "pids", "add", "release", "wait"} => Set("memory")
          /\ ppc \in {"pids", "add", "release", "wait"} => SwapCapped \/ swapLost
          /\ ppc \in {"add", "release", "wait"} => Set("pids")
          /\ ppc \in {"release", "wait"} /\ cfg.limits # {} =>
                where["child"] = "mc" \/ cpc = "exited"

\* What is in the root cgroup is on the list that is being moved, unless it
\* came there later or a call failed.
VacateOK ==
    /\ ppc = "move" => left \/ InRoot \subseteq listed
    /\ ppc = "enable" => left \/ InRoot = {}
    /\ complaint = "busy" => left

\* How far the child's view of the file system is from the host's.
MountsOK ==
    /\ cpc \in {"private", "bind", "pivot", "detach"} => cfg.rootfs
    /\ cfg.rootfs /\ cpc \in {"bind", "pivot", "detach", "proc", "exec"} => private
    /\ cfg.rootfs /\ cpc \in {"proc", "exec", "running"} => root = "own"
    /\ hostMounts # {} => ~cfg.rootfs /\ cfg.hostShared

\* What the child's status says about the command, and how run_container()
\* comes by its result.
Ended == {"exited", "reaped"}
BeforeCommand == {Exited(1), Exited(127), Signaled(SIGKILL)}
StatusSet == [how : {"exit"}, code : 0 .. 255] \union [how : {"signal"}, code : 1 .. 64]

StatusOK ==
    /\ ran => cpc \in {"running"} \union Ended
    /\ cpc = "running" => ran
    /\ cpc \in Ended /\ ran => status \in CommandStatus \union {Signaled(SIGKILL)}
    /\ cpc \in Ended /\ ~ran => status \in BeforeCommand
    /\ ppc = "returned" =>
          \/ cpc = "reaped" /\ ~cfg.sigchldIgnored /\ result = ReturnOf(status)
          \/ (cpc = "none" \/ cfg.sigchldIgnored) /\ result = -1

\* Where a death, a complaint or a lost cap comes from.
FailuresOK ==
    /\ ppc = "dead" => ParentMayDie
    /\ complaint = "failed" => CgroupMayFail \/ cpc \in {"exited", "reaped"}
    /\ swapLost => CgroupMayFail

Inv == /\ TypeOK
       /\ BarrierOK /\ CgroupOK /\ LimitsOK /\ VacateOK
       /\ MountsOK /\ StatusOK /\ FailuresOK

-----------------------------------------------------------------------------
(* Every step keeps it *)

\* Every status is one waitpid() can give.
LEMMA StatusTypes == CommandStatus \union BeforeCommand \subseteq StatusSet
<1>1. \A n \in 0 .. 255 : Exited(n) \in StatusSet
  BY DEF Exited, StatusSet
<1>2. Signaled(SIGKILL) \in StatusSet /\ Signaled(SIGSEGV) \in StatusSet
  BY DEF Signaled, SIGKILL, SIGSEGV, StatusSet
<1> QED
  BY <1>1, <1>2, ContainerAssumption DEF CommandStatus, BeforeCommand

\* run_container() makes a number of it that is no negative one.
LEMMA ReturnRange == \A s \in StatusSet : ReturnOf(s) \in 0 .. 255
  BY DEF StatusSet, ReturnOf

\* A child that has ended has a status.
LEMMA EndedStatus == StatusOK /\ ran \in BOOLEAN /\ cpc \in Ended => status \in StatusSet
<1>1. Signaled(SIGKILL) \in BeforeCommand
  BY DEF BeforeCommand
<1> QED
  BY <1>1, StatusTypes DEF StatusOK

\* The invariant holds when run_container() is about to call clone(), also if
\* an earlier run left its directory behind.
LEMMA InitInv == Init => Inv
<1> SUFFICES ASSUME Init PROVE Inv
  OBVIOUS
<1>1. TypeOK
  BY ContainerAssumption DEF Init, TypeOK, Configs, Procs, Unlimited
<1>2. BarrierOK /\ CgroupOK /\ LimitsOK /\ VacateOK /\ MountsOK
     /\ StatusOK /\ FailuresOK
  BY ContainerAssumption DEF Init, BarrierOK, CgroupOK, LimitsOK, VacateOK, MountsOK,
     StatusOK, FailuresOK, Set, SwapCapped, Ended, Working, Past, Procs
<1> QED
  BY <1>1, <1>2 DEF Inv

\* The steps of the parent: clone(), the set-up of the cgroup with each of its
\* failures, the release of the barrier, waitpid().
LEMMA ParentKeepsInv == Inv /\ ParentStep => Inv'
<1> SUFFICES ASSUME Inv, ParentStep PROVE Inv'
  OBVIOUS
<1> USE ContainerAssumption DEF Inv, TypeOK, BarrierOK, CgroupOK, LimitsOK, VacateOK,
        MountsOK, StatusOK, FailuresOK, Set, SwapCapped, Configs, Working, Past, Ended, Procs,
        InRoot, AllLimits, CgFiles, rootVars, cgVars, mntVars
<1>1. CASE Clone
  BY <1>1 DEF Clone
<1>2. CASE CloneFails
  BY <1>2 DEF CloneFails
<1>3. CASE ListRoot
  BY <1>3 DEF ListRoot
<1>4. CASE ListRootFails
  BY <1>4 DEF ListRootFails
<1>5. ASSUME NEW p \in Procs, MovePid(p) PROVE Inv'
  BY <1>5 DEF MovePid
<1>6. ASSUME NEW p \in Procs, MovePidFails(p) PROVE Inv'
  BY <1>6 DEF MovePidFails
<1>7. CASE EnableControllers
  BY <1>7 DEF EnableControllers
<1>8. CASE EnableBusy
  BY <1>8 DEF EnableBusy, NoCgroup
<1>9. CASE MakeCgroup
  BY <1>9 DEF MakeCgroup
<1>10. CASE CreateCgroupFails
  BY <1>10 DEF CreateCgroupFails, NoCgroup
<1>11. ASSUME NEW l \in AllLimits, SetLimit(l) PROVE Inv'
  <2>1. /\ LimitFile(l) \in CgFiles /\ LimitFile("pids") # LimitFile("memory")
        /\ LimitFile("memory") \in CgFiles /\ LimitFile("pids") \in CgFiles
    BY DEF LimitFile
  <2>2. limits' = [f \in CgFiles |-> IF f = LimitFile(l) THEN "asked" ELSE limits[f]]
    BY <1>11, <2>1, CgFiles \union {LimitFile(l)} = CgFiles DEF SetLimit, WriteLimit
  <2>3. /\ limits' \in [CgFiles -> {"max", "asked", "old"}]
        /\ limits'[LimitFile(l)] = "asked"
        /\ \A f \in CgFiles : limits[f] = "asked" => limits'[f] = "asked"
    BY <2>1, <2>2
  <2> QED
    BY <1>11, <2>1, <2>3 DEF SetLimit
<1>12. ASSUME NEW l \in AllLimits, SetLimitFails(l) PROVE Inv'
  BY <1>12 DEF SetLimitFails, AfterLimit
<1>13. ASSUME NEW l \in AllLimits, NoLimit(l) PROVE Inv'
  BY <1>13 DEF NoLimit, AfterLimit
<1>14. CASE SetSwap
  <2>1. /\ LimitFile("memory") \in CgFiles /\ LimitFile("pids") \in CgFiles
        /\ "memory.swap.max" \in CgFiles
    BY DEF LimitFile
  <2>2. limits' = [f \in CgFiles |-> IF f = "memory.swap.max" THEN "asked" ELSE limits[f]]
    BY <1>14, <2>1, CgFiles \union {"memory.swap.max"} = CgFiles DEF SetSwap, WriteLimit
  <2>3. /\ limits' \in [CgFiles -> {"max", "asked", "old"}]
        /\ limits'["memory.swap.max"] = "asked"
        /\ \A f \in CgFiles : limits[f] = "asked" => limits'[f] = "asked"
    BY <2>1, <2>2
  <2> QED
    BY <1>14, <2>1, <2>3 DEF SetSwap
<1>15. CASE SetSwapFails
  BY <1>15 DEF SetSwapFails
<1>16. CASE AddProcess
  BY <1>16 DEF AddProcess
<1>17. CASE AddProcessFails
  BY <1>17 DEF AddProcessFails
<1>18. CASE Release
  BY <1>18 DEF Release
<1>19. ASSUME NEW v \in {-1} \union 0 .. 255, ReturnAfterWait(v),
              \/ ~cfg.sigchldIgnored /\ v = ReturnOf(status)
              \/ cfg.sigchldIgnored /\ v = -1
       PROVE  Inv'
  <2>1. where' = where /\ cpc' = "reaped" /\ ppc' = "returned" /\ result' = v
    BY <1>19 DEF ReturnAfterWait
  <2>2. \A p \in Procs : where[p] # "mc"
    BY <1>19 DEF ReturnAfterWait
  <2>3. /\ owned => ~cgdir' /\ limits' = Unlimited
        /\ ~owned => cgdir' = cgdir /\ limits' = limits
    BY <1>19, <2>2 DEF ReturnAfterWait, RemoveCgroup
  <2>4. owned \in BOOLEAN /\ cgdir' \in BOOLEAN
    BY <1>19 DEF ReturnAfterWait, RemoveCgroup
  <2>5. limits' \in [CgFiles -> {"max", "asked", "old"}]
    BY <2>3, <2>4 DEF Unlimited
  <2>6. ReturnOf(status)' = ReturnOf(status)
    BY <1>19 DEF ReturnAfterWait, ReturnOf
  <2> QED
    BY <1>19, <2>1, <2>2, <2>3, <2>4, <2>5, <2>6 DEF ReturnAfterWait
<1>20. CASE Reap
  <2>1. cpc \in Ended /\ status \in StatusSet
    BY <1>20, EndedStatus DEF Reap, ReturnAfterWait
  <2> QED
    BY <1>19, <1>20, <2>1, ReturnRange DEF Reap
<1>21. CASE WaitFails
  BY <1>19, <1>21 DEF WaitFails
<1> HIDE DEF Inv
<1> QED
  BY <1>1, <1>2, <1>3, <1>4, <1>5, <1>6, <1>7, <1>8, <1>9, <1>10, <1>11, <1>12, <1>13, <1>14,
     <1>15, <1>16, <1>17, <1>18, <1>20, <1>21 DEF ParentStep

\* The steps of child_main(), failures included.
LEMMA ChildKeepsInv == Inv /\ ChildStep => Inv'
<1> SUFFICES ASSUME Inv, ChildStep PROVE Inv'
  OBVIOUS
<1> USE ContainerAssumption DEF Inv, TypeOK, BarrierOK, CgroupOK, LimitsOK, VacateOK,
        MountsOK, StatusOK, FailuresOK, Set, SwapCapped, Configs, Working, Past, Ended, Procs,
        InRoot, AllLimits, CgFiles, rootVars, cgVars, mntVars
<1>1. CASE CloseWriteEnd
  BY <1>1 DEF CloseWriteEnd
<1>2. CASE PassBarrier
  BY <1>2 DEF PassBarrier
<1>3. CASE SetHostname
  BY <1>3 DEF SetHostname
<1>4. CASE MakePrivate
  BY <1>4 DEF MakePrivate
<1>5. CASE BindRootfs
  BY <1>5 DEF BindRootfs, Propagate
<1>6. CASE PivotRoot
  BY <1>6 DEF PivotRoot
<1>7. CASE DetachOldRoot
  BY <1>7 DEF DetachOldRoot
<1>8. CASE MountProc
  BY <1>8 DEF MountProc, Propagate
<1> DEFINE Types == {NotEnded} \union [how : {"exit"}, code : 0 .. 255]
                              \union [how : {"signal"}, code : 1 .. 64]
<1>0. CommandStatus \union BeforeCommand \subseteq Types
  BY StatusTypes DEF StatusSet
<1>9. CASE SetupFails
  <2>1. Exited(1) \in BeforeCommand
    BY DEF BeforeCommand
  <2> QED
    BY <1>0, <1>9, <2>1 DEF SetupFails, Exit
<1>10. CASE Exec
  BY <1>10 DEF Exec
<1>11. CASE ExecFails
  <2>1. Exited(127) \in BeforeCommand
    BY DEF BeforeCommand
  <2> QED
    BY <1>0, <1>11, <2>1 DEF ExecFails, Exit
<1>12. CASE CommandEnds
  BY <1>0, <1>12 DEF CommandEnds, Exit
<1> HIDE DEF Inv
<1> QED
  BY <1>1, <1>2, <1>3, <1>4, <1>5, <1>6, <1>7, <1>8, <1>9, <1>10, <1>11, <1>12 DEF ChildStep

\* Processes of the host come and go, the parent or the child is killed.
LEMMA HostKeepsInv == Inv /\ (OtherStep \/ ParentDies \/ ChildDies) => Inv'
<1> SUFFICES ASSUME Inv, OtherStep \/ ParentDies \/ ChildDies PROVE Inv'
  OBVIOUS
<1> USE ContainerAssumption DEF Inv, TypeOK, BarrierOK, CgroupOK, LimitsOK, VacateOK,
        MountsOK, StatusOK, FailuresOK, Set, SwapCapped, Configs, Working, Past, Ended, Procs,
        InRoot, AllLimits, CgFiles, rootVars, cgVars, mntVars
<1>1. ASSUME NEW p \in Others, OtherExits(p) PROVE Inv'
  BY <1>1 DEF OtherExits
<1>2. ASSUME NEW p \in Others, NEW q \in Others, OtherForks(p, q) PROVE Inv'
  <2>1. /\ p \in Procs /\ q \in Procs /\ q # "child"
        /\ where' \in [Procs -> {"none", "root", "init", "mc"}]
        /\ where'["child"] = where["child"]
        /\ where'[q] \in {"root", "init"} /\ where'[q] = where[p]
        /\ \A r \in Procs \ {q} : where'[r] = where[r]
    BY <1>2 DEF OtherForks
  <2>2. left' \in BOOLEAN /\ (left => left')
    BY <1>2 DEF OtherForks
  <2>3. ppc \in {"move", "enable"} => left' \/ InRoot' \subseteq InRoot
    BY <1>2, <2>1 DEF OtherForks
  <2> QED
    BY <1>2, <2>1, <2>2, <2>3 DEF OtherForks
<1>3. CASE ParentDies
  BY <1>3 DEF ParentDies
<1>4. CASE ChildDies
  <2>1. Signaled(SIGKILL) \in BeforeCommand
    BY DEF BeforeCommand
  <2>2. BeforeCommand \subseteq {NotEnded} \union [how : {"exit"}, code : 0 .. 255]
                                           \union [how : {"signal"}, code : 1 .. 64]
    BY StatusTypes DEF StatusSet
  <2> QED
    BY <1>4, <2>1, <2>2 DEF ChildDies, Exit
<1> HIDE DEF Inv
<1> QED
  BY <1>1, <1>2, <1>3, <1>4 DEF OtherStep

\* Nothing changes once both processes are gone, or in a stuttering step.
LEMMA StutterKeepsInv == Inv /\ (Over \/ UNCHANGED vars) => Inv'
<1> SUFFICES ASSUME Inv, UNCHANGED vars PROVE Inv'
  BY DEF Over
<1> QED
  BY DEF vars, rootVars, cgVars, mntVars, Inv, TypeOK, BarrierOK, CgroupOK, LimitsOK,
     VacateOK, MountsOK, StatusOK, FailuresOK, Set, SwapCapped, Configs, InRoot

\* Inv is an invariant of run_container().
THEOREM ContainerInvariant == Spec => []Inv
<1>1. Inv /\ [Next]_vars => Inv'
  BY ParentKeepsInv, ChildKeepsInv, HostKeepsInv, StutterKeepsInv DEF Next
<1> QED
  BY InitInv, <1>1, PTL DEF Spec

-----------------------------------------------------------------------------
(* What follows *)

\* The variables of run_container() keep their types.
THEOREM TypeCorrect == Spec => []TypeOK
<1>1. Inv => TypeOK
  BY DEF Inv
<1> QED
  BY ContainerInvariant, <1>1, PTL

\* As long as the parent lives, a child past the barrier has every hard limit
\* that was asked for, or the user was told: whatever fails in Cgroup::create,
\* in the writes of the limits and in add_process, and in whatever order the
\* two processes run.  Swap is capped as well unless that very write failed,
\* which nobody is told of (cgroup.cpp:191).
THEOREM NoSilentLossHolds == Spec => []NoSilentLoss
<1>1. Inv => NoSilentLoss
  <2> SUFFICES ASSUME Inv, cpc \in Past, ppc # "dead", complaint = "none"
               PROVE  HardLimits /\ (SwapCapped \/ swapLost)
    BY DEF NoSilentLoss
  <2>1. ppc = "wait" /\ cpc # "exited"
    BY DEF Inv, BarrierOK, Past
  <2>2. cfg.limits \subseteq {"memory", "pids"}
    BY DEF Inv, TypeOK, Configs, AllLimits
  <2> QED
    BY <2>1, <2>2 DEF Inv, LimitsOK, Set, HardLimits
<1> QED
  BY ContainerInvariant, <1>1, PTL

\* When container.cpp:245 is true, "the child now runs with its limits already
\* in place", the cap on swap included: if no cgroup call fails and the parent
\* is not killed, then unless a process was forked in the root cgroup while
\* vacate_root emptied it.
THEOREM LimitsBeforeStartHolds ==
    ASSUME ~CgroupMayFail, ~ParentMayDie
    PROVE  Spec => [](left \/ LimitsBeforeStart)
<1>1. Inv => left \/ LimitsBeforeStart
  <2> SUFFICES ASSUME Inv, cpc \in Past, ~left PROVE Limited
    BY DEF LimitsBeforeStart
  <2>1. ppc = "wait" /\ cpc \notin {"exited", "reaped"}
    BY DEF Inv, BarrierOK, FailuresOK, Past
  <2>2. complaint = "none" /\ ~swapLost
    BY <2>1 DEF Inv, TypeOK, VacateOK, FailuresOK
  <2>3. cfg.limits \subseteq {"memory", "pids"}
    BY DEF Inv, TypeOK, Configs, AllLimits
  <2> QED
    BY <2>1, <2>2, <2>3 DEF Inv, LimitsOK, Set, HardLimits, Limited
<1> QED
  BY ContainerInvariant, <1>1, PTL

\* vacate_root makes room: "Device or resource busy" is reported only if a
\* process was left behind by a call that failed or forked after the listing,
\* for any number of processes in the root cgroup.
THEOREM BusyOnlyIfLeftHolds == Spec => []BusyOnlyIfLeft
<1>1. Inv => BusyOnlyIfLeft
  BY DEF Inv, VacateOK, BusyOnlyIfLeft
<1> QED
  BY ContainerInvariant, <1>1, PTL

\* With a rootfs no mount of the child ever reaches the host, and without one
\* only if the host's / is shared.
THEOREM HostUntouchedHolds == Spec => []HostUntouched
<1>1. Inv => HostUntouched
  BY DEF Inv, MountsOK, HostUntouched
<1> QED
  BY ContainerInvariant, <1>1, PTL

\* The command never runs with the host's files below /old_root.
THEOREM HostUnreachableHolds == Spec => []HostUnreachable
<1>1. Inv => HostUnreachable
  BY DEF Inv, MountsOK, HostUnreachable
<1> QED
  BY ContainerInvariant, <1>1, PTL

\* When run_container() has returned, the cgroup it made is gone.
THEOREM NoCgroupLeftHolds == Spec => []NoCgroupLeft
<1>1. Inv => NoCgroupLeft
  BY DEF Inv, CgroupOK, NoCgroupLeft
<1> QED
  BY ContainerInvariant, <1>1, PTL

\* A number other than -1, 1, 127 and 137 is the exit status, or 128 plus the
\* signal, of the command itself, for every status a command may have; and -1
\* means that clone() failed, unless SIGCHLD is ignored.
THEOREM ResultFaithfulHolds == Spec => []ResultFaithful
<1>1. Inv => ResultFaithful
  <2> SUFFICES ASSUME Inv, ppc = "returned" PROVE ResultFaithful
    BY DEF ResultFaithful
  <2>1. CASE result = -1
    <3>1. cpc = "reaped" /\ ~cfg.sigchldIgnored /\ result = ReturnOf(status) => FALSE
      BY <2>1, EndedStatus, ReturnRange DEF Inv, TypeOK, Ended
    <3> QED
      BY <2>1, <3>1 DEF Inv, StatusOK, ResultFaithful, AlsoSetup
  <2>2. CASE result # -1
    <3>1. cpc = "reaped" /\ result = ReturnOf(status)
      BY <2>2 DEF Inv, StatusOK
    <3>2. \A s \in BeforeCommand : ReturnOf(s) \in AlsoSetup
      BY DEF BeforeCommand, ReturnOf, Exited, Signaled, SIGKILL, AlsoSetup
    <3>3. Signaled(SIGKILL) \in BeforeCommand
      BY DEF BeforeCommand
    <3>4. result \notin AlsoSetup => ran /\ status \in CommandStatus
      BY <3>1, <3>2, <3>3 DEF Inv, TypeOK, StatusOK, Ended
    <3> QED
      BY <2>2, <3>1, <3>4 DEF ResultFaithful
  <2> QED
    BY <2>1, <2>2
<1> QED
  BY ContainerInvariant, <1>1, PTL
=============================================================================
