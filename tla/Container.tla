----------------------------- MODULE Container -----------------------------
(***************************************************************************)
(* minicontainer/src/container.cpp with the Cgroup object of cgroup.cpp:   *)
(* run_container() clones child_main() into new namespaces, the child      *)
(* waits at a pipe until the parent has set its limits up, then builds its *)
(* file system view and execs the command.                                 *)
(*                                                                         *)
(*   cfg       what was asked for (rootfs, limits), whether the host's /   *)
(*             has shared propagation, systemd's default, and whether the  *)
(*             launcher was started with SIGCHLD ignored                   *)
(*   ppc       the parent, in run_container(): "clone"; "create", "move",  *)
(*             "enable", "mkdir" (Cgroup::create); "memory", "swap",       *)
(*             "pids", "add" (limits), "release" (close of its write end), *)
(*             "wait" (waitpid), "returned", or "dead" (killed)            *)
(*   cpc       the child, in child_main(): "none", "close" (of its own     *)
(*             write end), "barrier", "hostname", "private", "bind",       *)
(*             "pivot", "detach", "proc", "exec", "running", "exited",     *)
(*             "reaped"                                                    *)
(*   writers   who holds a write end of ready_pipe                         *)
(*   where     the cgroup of every process: "root", "init" (the leaf the   *)
(*             root's processes are moved to), "mc", "none" if it is gone  *)
(*   listed    what vacate_root read from cgroup.procs and has not moved   *)
(*   enabled   the root's cgroup.subtree_control delegates the controllers *)
(*   cgdir     the cgroup mc-<pid> exists                                  *)
(*   owned     the Cgroup object's path_ is set: it will remove cgdir      *)
(*   limits    its files: "max", "asked" (written by this run) or "old"    *)
(*             (by an earlier one)                                         *)
(*   complaint the error about the cgroup that was printed, "none" if none *)
(*   left      history: a process came to the root cgroup after it was     *)
(*             listed, or was not listed or moved because a call failed    *)
(*   swapLost  history: the write to memory.swap.max failed                *)
(*   private   the child's mount namespace no longer propagates            *)
(*   root      the child's root: "host", "pivoted" (the host is still      *)
(*             below /old_root), "own"                                     *)
(*   hostMounts   mounts that showed up in the host's namespace            *)
(*   status    how the child ended, as waitpid() tells it                  *)
(*   result    the number run_container() returned                         *)
(*   ran       history: the command was exec'ed                            *)
(***************************************************************************)
EXTENDS Integers, FiniteSets

CONSTANTS Others,        \* PIDs of the processes around the container
          Codes,         \* the statuses the command may exit with
          CgroupMayFail, \* a cgroup call may fail, also because a file is not there
          SetupMayFail,  \* a call of the child may fail
          ParentMayDie,  \* the parent may be killed
          ChildMayDie    \* the child may be killed

AllLimits == {"memory", "pids"}

ASSUME ContainerAssumption ==
    /\ {"parent", "child"} \intersect Others = {}
    /\ Codes \subseteq 0 .. 255
    /\ {CgroupMayFail, SetupMayFail, ParentMayDie, ChildMayDie} \subseteq BOOLEAN

VARIABLES cfg, ppc, cpc, writers, where, listed, enabled, left,
          cgdir, owned, limits, complaint, swapLost,
          private, root, hostMounts, status, result, ran

rootVars == <<cfg, where, listed, enabled, left>>
cgVars == <<cgdir, owned, limits, complaint, swapLost>>
mntVars == <<private, root, hostMounts>>
vars == <<ppc, cpc, writers, rootVars, cgVars, mntVars, status, result, ran>>

Procs == Others \union {"parent", "child"}
CgFiles == {"memory.max", "memory.swap.max", "pids.max"}
Unlimited == [f \in CgFiles |-> "max"]
InRoot == {p \in Procs : where[p] = "root"}

Configs == [rootfs : BOOLEAN, limits : SUBSET AllLimits, hostShared : BOOLEAN,
            sigchldIgnored : BOOLEAN]

\* The status of a child, and what run_container makes of it.
SIGKILL == 9
SIGSEGV == 11
NotEnded == [how |-> "none", code |-> 0]
Exited(n) == [how |-> "exit", code |-> n]
Signaled(n) == [how |-> "signal", code |-> n]
ReturnOf(s) == IF s.how = "exit" THEN s.code ELSE 128 + s.code
NotReturned == -2

\* The command exits or crashes.
CommandStatus == {Exited(n) : n \in Codes} \union {Signaled(SIGSEGV)}

TypeOK ==
    /\ cfg \in Configs
    /\ ppc \in {"clone", "create", "move", "enable", "mkdir", "memory", "swap", "pids", "add",
                "release", "wait", "returned", "dead"}
    /\ cpc \in {"none", "close", "barrier", "hostname", "private", "bind", "pivot",
                "detach", "proc", "exec", "running", "exited", "reaped"}
    /\ writers \subseteq {"parent", "child"}
    /\ where \in [Procs -> {"none", "root", "init", "mc"}]
    /\ listed \subseteq Procs
    /\ {enabled, left, cgdir, owned, swapLost} \subseteq BOOLEAN
    /\ limits \in [CgFiles -> {"max", "asked", "old"}]
    /\ complaint \in {"none", "busy", "failed"}
    /\ private \in BOOLEAN /\ root \in {"host", "pivoted", "own"}
    /\ hostMounts \subseteq {"bind", "proc"}
    /\ status \in {NotEnded} \union [how : {"exit"}, code : 0 .. 255]
                            \union [how : {"signal"}, code : 1 .. 64]
    /\ result \in {NotReturned, -1} \union 0 .. 255
    /\ ran \in BOOLEAN

\* pipe() has succeeded.  Either no minicontainer ran here before, or one did
\* and moved everybody to "init"; the directory one of them made may be left if
\* it was killed, and the PID of its child has come round again.
Init ==
    /\ cfg \in Configs
    /\ ppc = "clone" /\ cpc = "none"
    /\ writers = {"parent"}
    /\ enabled \in BOOLEAN
    /\ where \in [Procs -> {"none", IF enabled THEN "init" ELSE "root"}]
    /\ where["parent"] # "none" /\ where["child"] = "none"
    /\ listed = {} /\ left = FALSE
    /\ cgdir \in {FALSE, enabled}
    /\ limits \in {Unlimited, [f \in CgFiles |-> IF cgdir THEN "old" ELSE "max"]}
    /\ owned = FALSE /\ complaint = "none" /\ swapLost = FALSE
    /\ private = FALSE /\ root = "host" /\ hostMounts = {}
    /\ status = NotEnded /\ result = NotReturned /\ ran = FALSE

-----------------------------------------------------------------------------
(* run_container *)

\* Mutant: the parent closes its write end right after clone().
CloneReleases ==
    /\ ppc = "clone"
    /\ cpc' = "close"
    /\ writers' = {"child"}
    /\ where' = [where EXCEPT !["child"] = where["parent"]]
    /\ ppc' = IF cfg.limits = {} THEN "release" ELSE "create"
    /\ UNCHANGED <<cfg, listed, enabled, left, cgVars, mntVars, status, result, ran>>

\* clone() copies the descriptor table: the child has its own write end.
Clone ==
    /\ ppc = "clone"
    /\ cpc' = "close"
    /\ writers' = {"parent", "child"}
    /\ where' = [where EXCEPT !["child"] = where["parent"]]
    /\ ppc' = IF cfg.limits = {} THEN "release" ELSE "create"
    /\ UNCHANGED <<cfg, listed, enabled, left, cgVars, mntVars, status, result, ran>>

CloneFails ==
    /\ ppc = "clone" /\ SetupMayFail
    /\ result' = -1
    /\ ppc' = "returned"
    /\ UNCHANGED <<cpc, writers, rootVars, cgVars, mntVars, status, ran>>

\* The container goes on without a cgroup.
NoCgroup(why) ==
    /\ complaint' = why
    /\ ppc' = "release"

\* Cgroup::create.  vacate_root reads the list; a root cgroup that is empty
\* needs no more.
ListRoot ==
    /\ ppc = "create"
    /\ listed' = InRoot
    /\ ppc' = IF InRoot = {} THEN "enable" ELSE "move"
    /\ UNCHANGED <<cpc, writers, cfg, where, enabled, left, cgVars, mntVars, status, result, ran>>

\* A list that cannot be read is taken for an empty one.
ListRootFails ==
    /\ ppc = "create" /\ CgroupMayFail
    /\ left' = TRUE
    /\ ppc' = "enable"
    /\ UNCHANGED <<cpc, writers, cfg, where, listed, enabled, cgVars, mntVars, status, result, ran>>

\* Mutant: the last PID, which has no newline behind it, is not moved.
MovePidNotLast(p) ==
    /\ ppc = "move" /\ p \in listed
    /\ listed' = listed \ {p}
    /\ where' = [where EXCEPT ![p] = IF @ = "root" /\ listed # {p} THEN "init" ELSE @]
    /\ ppc' = IF listed' = {} THEN "enable" ELSE "move"
    /\ UNCHANGED <<cpc, writers, cfg, enabled, left, cgVars, mntVars, status, result, ran>>

\* One PID per write.  Whoever has the PID by now is moved; nobody may.
MovePid(p) ==
    /\ ppc = "move" /\ p \in listed
    /\ listed' = listed \ {p}
    /\ where' = [where EXCEPT ![p] = IF @ = "root" THEN "init" ELSE @]
    /\ ppc' = IF listed' = {} THEN "enable" ELSE "move"
    /\ UNCHANGED <<cpc, writers, cfg, enabled, left, cgVars, mntVars, status, result, ran>>

\* The result of the write is not looked at.
MovePidFails(p) ==
    /\ ppc = "move" /\ p \in listed /\ CgroupMayFail
    /\ listed' = listed \ {p}
    /\ left' = TRUE
    /\ ppc' = IF listed' = {} THEN "enable" ELSE "move"
    /\ UNCHANGED <<cpc, writers, cfg, where, enabled, cgVars, mntVars, status, result, ran>>

\* EBUSY: the cgroup still holds processes.
EnableBusy ==
    /\ ppc = "enable" /\ InRoot # {}
    /\ NoCgroup("busy")
    /\ UNCHANGED <<cpc, writers, rootVars, cgdir, owned, limits, swapLost, mntVars, status, result, ran>>

EnableControllers ==
    /\ ppc = "enable" /\ InRoot = {}
    /\ enabled' = TRUE
    /\ ppc' = "mkdir"
    /\ UNCHANGED <<cpc, writers, cfg, where, listed, left, cgVars, mntVars, status, result, ran>>

\* kParent, its controllers and the directory mc-<pid>.  A directory that is
\* there already is no error; its files stay as they are.
MakeCgroup ==
    /\ ppc = "mkdir"
    /\ cgdir' = TRUE
    /\ owned' = TRUE
    /\ ppc' = "memory"
    /\ UNCHANGED <<cpc, writers, rootVars, limits, complaint, swapLost, mntVars, status, result, ran>>

CreateCgroupFails ==
    /\ ppc \in {"create", "enable", "mkdir"} /\ CgroupMayFail
    /\ NoCgroup("failed")
    /\ UNCHANGED <<cpc, writers, rootVars, cgdir, owned, limits, swapLost, mntVars, status, result, ran>>

\* Mutant: memory.high, the soft limit, instead of memory.max.
LimitFileSoft(l) == IF l = "memory" THEN "memory.high" ELSE "pids.max"

LimitFile(l) == IF l = "memory" THEN "memory.max" ELSE "pids.max"

WriteLimit(file) ==
    limits' = [f \in CgFiles \union {file} |-> IF f = file THEN "asked" ELSE limits[f]]

\* set_memory_limit and set_pids_limit.
SetLimit(l) ==
    /\ ppc = l /\ l \in cfg.limits
    /\ WriteLimit(LimitFile(l))
    /\ ppc' = IF l = "memory" THEN "swap" ELSE "add"
    /\ UNCHANGED <<cpc, writers, rootVars, cgdir, owned, complaint, swapLost, mntVars, status, result, ran>>

AfterLimit(l) == IF l = "memory" THEN "pids" ELSE "add"

SetLimitFails(l) ==
    /\ ppc = l /\ l \in cfg.limits /\ CgroupMayFail
    /\ complaint' = "failed"
    /\ ppc' = AfterLimit(l)
    /\ UNCHANGED <<cpc, writers, rootVars, cgdir, owned, limits, swapLost, mntVars, status, result, ran>>

NoLimit(l) ==
    /\ ppc = l /\ l \notin cfg.limits
    /\ ppc' = AfterLimit(l)
    /\ UNCHANGED <<cpc, writers, rootVars, cgVars, mntVars, status, result, ran>>

\* memory.max caps RAM only; memory.swap.max makes it a limit.
SetSwap ==
    /\ ppc = "swap"
    /\ WriteLimit("memory.swap.max")
    /\ ppc' = "pids"
    /\ UNCHANGED <<cpc, writers, rootVars, cgdir, owned, complaint, swapLost, mntVars, status, result, ran>>

\* Nobody is told.
SetSwapFails ==
    /\ ppc = "swap" /\ CgroupMayFail
    /\ swapLost' = TRUE
    /\ ppc' = "pids"
    /\ UNCHANGED <<cpc, writers, rootVars, cgdir, owned, limits, complaint, mntVars, status, result, ran>>

\* The PID of a zombie can be written, which moves nobody.
AddProcess ==
    /\ ppc = "add"
    /\ cpc = "exited" => ~cfg.sigchldIgnored
    /\ where' = IF cpc = "exited" THEN where ELSE [where EXCEPT !["child"] = "mc"]
    /\ ppc' = "release"
    /\ UNCHANGED <<cpc, writers, cfg, listed, enabled, left, cgVars, mntVars, status, result, ran>>

\* Also when the child has been killed meanwhile and nobody need reap it (ESRCH).
AddProcessFails ==
    /\ ppc = "add"
    /\ CgroupMayFail \/ (cpc = "exited" /\ cfg.sigchldIgnored)
    /\ complaint' = "failed"
    /\ ppc' = "release"
    /\ UNCHANGED <<cpc, writers, rootVars, cgdir, owned, limits, swapLost, mntVars, status, result, ran>>

\* close(ready_pipe[1])
Release ==
    /\ ppc = "release"
    /\ writers' = writers \ {"parent"}
    /\ ppc' = "wait"
    /\ UNCHANGED <<cpc, rootVars, cgVars, mntVars, status, result, ran>>

\* Mutant: the destructor removes nothing.
RemoveCgroupNever == UNCHANGED <<cgdir, limits>>

\* ~Cgroup: rmdir() of the directory create() made, which works only when no
\* process is left in it.
RemoveCgroup ==
    IF owned /\ \A p \in Procs : where[p] # "mc"
    THEN cgdir' = FALSE /\ limits' = Unlimited
    ELSE UNCHANGED <<cgdir, limits>>

\* run_container returns after waitpid(), which waits until the child, and with
\* it everything in its PID namespace, is gone; only then is the Cgroup object
\* destroyed.
ReturnAfterWait(value) ==
    /\ ppc = "wait" /\ cpc = "exited"
    /\ cpc' = "reaped"
    /\ result' = value
    /\ ppc' = "returned"
    /\ RemoveCgroup
    /\ UNCHANGED <<writers, rootVars, owned, complaint, swapLost, mntVars, status, ran>>

Reap == ~cfg.sigchldIgnored /\ ReturnAfterWait(ReturnOf(status))

\* With SIGCHLD ignored no status is kept: waitpid() fails with ECHILD.
WaitFails == cfg.sigchldIgnored /\ ReturnAfterWait(-1)

\* The kernel closes the descriptors of a process that is killed.
ParentDies ==
    /\ ParentMayDie
    /\ ppc \notin {"clone", "returned", "dead"}
    /\ ppc' = "dead"
    /\ writers' = writers \ {"parent"}
    /\ where' = [where EXCEPT !["parent"] = "none"]
    /\ UNCHANGED <<cpc, cfg, listed, enabled, left, cgVars, mntVars, status, result, ran>>

ParentStep ==
    \/ Clone \/ CloneFails
    \/ ListRoot \/ ListRootFails \/ (\E p \in Procs : MovePid(p) \/ MovePidFails(p))
    \/ EnableControllers \/ EnableBusy \/ MakeCgroup \/ CreateCgroupFails
    \/ \E l \in AllLimits : SetLimit(l) \/ SetLimitFails(l) \/ NoLimit(l)
    \/ SetSwap \/ SetSwapFails
    \/ AddProcess \/ AddProcessFails
    \/ Release \/ Reap \/ WaitFails

-----------------------------------------------------------------------------
(* child_main *)

\* Return from child_main: its status is all that is left of the child.
Exit(how) ==
    /\ cpc' = "exited"
    /\ status' = how
    /\ writers' = writers \ {"child"}
    /\ where' = [where EXCEPT !["child"] = "none"]
    /\ UNCHANGED <<cfg, listed, enabled, left>>

\* Mutant: the child keeps its own write end open.
CloseWriteEndMissing ==
    /\ cpc = "close"
    /\ cpc' = "barrier"
    /\ UNCHANGED <<ppc, writers, rootVars, cgVars, mntVars, status, result, ran>>

CloseWriteEnd ==
    /\ cpc = "close"
    /\ writers' = writers \ {"child"}
    /\ cpc' = "barrier"
    /\ UNCHANGED <<ppc, rootVars, cgVars, mntVars, status, result, ran>>

\* read() returns 0 once no process holds a write end, whatever the reason.
PassBarrier ==
    /\ cpc = "barrier" /\ writers = {}
    /\ cpc' = "hostname"
    /\ UNCHANGED <<ppc, writers, rootVars, cgVars, mntVars, status, result, ran>>

SetHostname ==
    /\ cpc = "hostname"
    /\ cpc' = IF cfg.rootfs THEN "private" ELSE "proc"
    /\ UNCHANGED <<ppc, writers, rootVars, cgVars, mntVars, status, result, ran>>

\* Mutant: the mount table stays shared with the host.
MakePrivateMissing ==
    /\ cpc = "private"
    /\ cpc' = "bind"
    /\ UNCHANGED <<ppc, writers, rootVars, cgVars, mntVars, status, result, ran>>

\* setup_rootfs, one mount call at a time.
MakePrivate ==
    /\ cpc = "private"
    /\ private' = TRUE
    /\ cpc' = "bind"
    /\ UNCHANGED <<ppc, writers, rootVars, cgVars, root, hostMounts, status, result, ran>>

\* A mount made in a shared namespace appears in the host's as well.
Propagate(m) == hostMounts' = IF cfg.hostShared /\ ~private THEN hostMounts \union {m}
                              ELSE hostMounts

BindRootfs ==
    /\ cpc = "bind"
    /\ Propagate("bind")
    /\ cpc' = "pivot"
    /\ UNCHANGED <<ppc, writers, rootVars, cgVars, private, root, status, result, ran>>

PivotRoot ==
    /\ cpc = "pivot"
    /\ root' = "pivoted"
    /\ cpc' = "detach"
    /\ UNCHANGED <<ppc, writers, rootVars, cgVars, private, hostMounts, status, result, ran>>

\* Mutant: umount2()'s result is ignored.
DetachOldRootUnchecked ==
    /\ cpc = "detach"
    /\ root' \in {"pivoted", "own"}
    /\ cpc' = "proc"
    /\ UNCHANGED <<ppc, writers, rootVars, cgVars, private, hostMounts, status, result, ran>>

DetachOldRoot ==
    /\ cpc = "detach"
    /\ root' = "own"
    /\ cpc' = "proc"
    /\ UNCHANGED <<ppc, writers, rootVars, cgVars, private, hostMounts, status, result, ran>>

MountProc ==
    /\ cpc = "proc"
    /\ Propagate("proc")
    /\ cpc' = "exec"
    /\ UNCHANGED <<ppc, writers, rootVars, cgVars, private, root, status, result, ran>>

\* Any of the calls above fails: exit status 1.
SetupFails ==
    /\ SetupMayFail
    /\ cpc \in {"hostname", "private", "bind", "pivot", "detach", "proc"}
    /\ Exit(Exited(1))
    /\ UNCHANGED <<ppc, cgVars, mntVars, result, ran>>

Exec ==
    /\ cpc = "exec"
    /\ cpc' = "running"
    /\ ran' = TRUE
    /\ UNCHANGED <<ppc, writers, rootVars, cgVars, mntVars, status, result>>

\* Mutant: child_main ends with 0 behind execvp().
ExecFailsQuietly ==
    /\ cpc = "exec" /\ SetupMayFail
    /\ Exit(Exited(0))
    /\ UNCHANGED <<ppc, cgVars, mntVars, result, ran>>

\* Exit status 127.
ExecFails ==
    /\ cpc = "exec" /\ SetupMayFail
    /\ Exit(Exited(127))
    /\ UNCHANGED <<ppc, cgVars, mntVars, result, ran>>

CommandEnds ==
    /\ cpc = "running"
    /\ \E s \in CommandStatus : Exit(s)
    /\ UNCHANGED <<ppc, cgVars, mntVars, result, ran>>

\* SIGKILL, for instance from the OOM killer: the only signal from outside that
\* kills the first process of a PID namespace.
ChildDies ==
    /\ ChildMayDie
    /\ cpc \notin {"none", "exited", "reaped"}
    /\ Exit(Signaled(SIGKILL))
    /\ UNCHANGED <<ppc, cgVars, mntVars, result, ran>>

ChildStep ==
    \/ CloseWriteEnd \/ PassBarrier \/ SetHostname
    \/ MakePrivate \/ BindRootfs \/ PivotRoot \/ DetachOldRoot \/ MountProc
    \/ SetupFails \/ Exec \/ ExecFails \/ CommandEnds

-----------------------------------------------------------------------------
(* The other processes of the host fork and exit all the time. *)

OtherForks(p, q) ==
    /\ where[p] \in {"root", "init"} /\ where[q] = "none"
    /\ where' = [where EXCEPT ![q] = where[p]]
    /\ left' = (left \/ (where[p] = "root" /\ ppc \in {"move", "enable"}))
    /\ UNCHANGED <<ppc, cpc, writers, cfg, listed, enabled, cgVars, mntVars, status, result, ran>>

OtherExits(p) ==
    /\ where[p] # "none"
    /\ where' = [where EXCEPT ![p] = "none"]
    /\ UNCHANGED <<ppc, cpc, writers, cfg, listed, enabled, left, cgVars, mntVars, status, result, ran>>

OtherStep == \E p \in Others : OtherExits(p) \/ \E q \in Others : OtherForks(p, q)

\* Once the parent is gone and the child too, nothing is left to happen.
Over ==
    /\ ppc \in {"returned", "dead"} /\ cpc \in {"none", "exited", "reaped"}
    /\ UNCHANGED vars

Next == ParentStep \/ ChildStep \/ OtherStep \/ ParentDies \/ ChildDies \/ Over

Spec == Init /\ [][Next]_vars

\* Both processes are scheduled; the command is assumed to end.
FairSpec == Spec /\ WF_vars(ParentStep) /\ WF_vars(ChildStep)

-----------------------------------------------------------------------------
(* Safety *)

Past == {"hostname", "private", "bind", "pivot", "detach", "proc", "exec", "running"}

\* The child has every hard limit that was asked for, in its cgroup.
HardLimits ==
    /\ \A l \in cfg.limits : limits[LimitFile(l)] = "asked"
    /\ cfg.limits # {} => where["child"] = "mc"

SwapCapped == "memory" \in cfg.limits => limits["memory.swap.max"] = "asked"

\* cgroup.cpp:186: without the cap on swap the memory limit bounds nothing.
Limited == HardLimits /\ SwapCapped

\* What is lost silently: while the parent lives, a child past the barrier has
\* every limit that was asked for, with the value that was asked for also in a
\* directory an earlier run left, or the user was told.  The one exception is
\* a write to memory.swap.max that failed (cgroup.cpp:191): then the user is told
\* of a memory limit that swap makes void, and of nothing else.
NoSilentLoss ==
    cpc \in Past /\ ppc # "dead" /\ complaint = "none" =>
        HardLimits /\ (SwapCapped \/ swapLost)

\* cgroup.cpp:27: moving the processes to a leaf makes room.  Enabling the
\* controllers finds the root cgroup busy only if somebody forked there after
\* it was listed or a call of vacate_root failed: neither the launcher itself nor the
\* child it has just cloned stays behind, and a process that exits does no harm.
BusyOnlyIfLeft == complaint = "busy" => left

\* container.cpp:245: "Releasing the barrier: the child now runs with its
\* limits already in place."
LimitsBeforeStart == cpc \in Past => Limited

\* container.cpp:41: "Every mount below must stay inside the container."  A
\* mount shows up on the host only without a rootfs, where nothing makes the
\* mount table private, and only if the host's is shared.
HostUntouched == hostMounts # {} => ~cfg.rootfs /\ cfg.hostShared

\* The command never runs while the host's files are reachable
\* (container.cpp:80-81), also when a step of the set-up failed.
HostUnreachable == cpc = "running" /\ cfg.rootfs => root = "own"

\* run_container leaves no cgroup behind: it returns after every process has
\* left the directory, which is when ~Cgroup can remove it.
NoCgroupLeft == ppc = "returned" /\ owned => ~cgdir

\* run_container returns one number for what the command did and for what
\* happened before it.  Against container.hpp:20, "Returns -1 if the container
\* could not be started", a failed set-up gives 1, a failed exec 127 and a child
\* that was killed 137, all of which the command can give as well.  Any other
\* number, 0 in particular, is what the command itself ended with, and -1 means
\* that nothing was started, unless SIGCHLD is ignored.
AlsoSetup == {-1, 1, 127, 128 + SIGKILL}

ResultFaithful ==
    ppc = "returned" =>
        /\ result \notin AlsoSetup =>
              ran /\ status \in CommandStatus /\ result = ReturnOf(status)
        /\ result = -1 => cpc = "none" \/ cfg.sigchldIgnored

-----------------------------------------------------------------------------
(* Liveness *)

\* Nobody waits for ever, neither the child at the barrier nor the parent in
\* waitpid(), whichever of the two is killed.
NobodyStuck ==
    <>(ppc \in {"returned", "dead"} /\ cpc \in {"none", "exited", "reaped"})
=============================================================================
