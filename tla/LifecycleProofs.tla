--------------------------- MODULE LifecycleProofs ---------------------------
(***************************************************************************)
(* Proofs about SfmcLifecycle, for any number of NICs and of queued works. *)
(***************************************************************************)
EXTENDS SfmcLifecycle, TLAPS

\* The inductive invariant holds at the start.
LEMMA InitInv == Init => IInv
<1> SUFFICES ASSUME Init PROVE IInv
  OBVIOUS
<1> USE DevAssumption DEF Init
<1>1. TypeOK
  <2>1. pc \in [Dev -> Visible \cup Ending \cup {"absent", "oops"}] OBVIOUS
  <2>2. work \in [Dev -> 0 .. MaxWork] OBVIOUS
  <2>3. cmd = NoCmd OBVIOUS
  <2> QED BY <2>1, <2>2, <2>3 DEF TypeOK
<1>2. StageInv
  <2> SUFFICES ASSUME NEW d \in Dev
               PROVE  tree[d] # "ready" /\ pc[d] \notin HasTree /\ ~(work[d] > 0)
                      /\ pc[d] \notin Published \cup {"wq", "switchdev"}
    BY DEF StageInv
  <2> QED BY DEF HasTree, Published, Visible, Starting
<1>3. CmdInv BY DEF CmdInv, NoCmd
<1>4. ChainInv /\ NoStrayUser /\ NotifiedWhileUp BY DEF ChainInv, NoStrayUser, NotifiedWhileUp
<1> QED BY <1>1, <1>2, <1>3, <1>4 DEF IInv

\* probe and the steps of sfmc_init, with its error paths, keep the invariant.
LEMMA StartStep ==
    ASSUME IInv, NEW d \in Dev, Probe(d) \/ Start(d)
    PROVE  IInv'
<1> USE DevAssumption DEF IInv
<1>1. CASE Probe(d)
  <2> USE <1>1 DEF Probe, Goto, shared
  <2>1. TypeOK' BY DEF TypeOK, User, Visible, Starting, Ending
  <2>2. StageInv' BY DEF StageInv, TypeOK, Published, HasTree, Visible, Starting, Ending
  <2>3. CmdInv' BY DEF CmdInv, TypeOK, NoCmd, Published, Visible, Starting, Ending
  <2>4. ChainInv' BY DEF ChainInv, TypeOK
  <2>5. NoStrayUser' /\ NotifiedWhileUp' BY DEF NoStrayUser, NotifiedWhileUp, ChainInv, TypeOK
  <2> QED BY <2>1, <2>2, <2>3, <2>4, <2>5
<1>2. CASE InitTree(d)
  <2> USE <1>2 DEF InitTree, Goto, shared
  <2>1. TypeOK' BY DEF TypeOK, User, Visible, Starting, Ending
  <2>2. StageInv' BY DEF StageInv, TypeOK, Published, HasTree, Visible, Starting, Ending
  <2>3. CmdInv' BY DEF CmdInv, TypeOK, NoCmd, Published, Visible, Starting, Ending
  <2>4. ChainInv' BY DEF ChainInv, TypeOK
  <2>5. NoStrayUser' /\ NotifiedWhileUp' BY DEF NoStrayUser, NotifiedWhileUp, ChainInv, TypeOK
  <2> QED BY <2>1, <2>2, <2>3, <2>4, <2>5
<1>3. CASE InitWq(d)
  <2> USE <1>3 DEF InitWq, Goto, shared
  <2>1. TypeOK' BY DEF TypeOK, User, Visible, Starting, Ending
  <2>2. StageInv' BY DEF StageInv, TypeOK, Published, HasTree, Visible, Starting, Ending
  <2>3. CmdInv' BY DEF CmdInv, TypeOK, NoCmd, Published, Visible, Starting, Ending
  <2>4. ChainInv' BY DEF ChainInv, TypeOK
  <2>5. NoStrayUser' /\ NotifiedWhileUp' BY DEF NoStrayUser, NotifiedWhileUp, ChainInv, TypeOK
  <2> QED BY <2>1, <2>2, <2>3, <2>4, <2>5
<1>4. CASE InitWqFails(d)
  <2> USE <1>4 DEF InitWqFails, Goto, own, shared
  <2>1. TypeOK' BY DEF TypeOK, User, Visible, Starting, Ending
  <2>2. StageInv' BY DEF StageInv, TypeOK, Published, HasTree, Visible, Starting, Ending
  <2>3. CmdInv' BY DEF CmdInv, TypeOK, NoCmd, Published, Visible, Starting, Ending
  <2>4. ChainInv' BY DEF ChainInv, TypeOK
  <2>5. NoStrayUser' /\ NotifiedWhileUp' BY DEF NoStrayUser, NotifiedWhileUp, ChainInv, TypeOK
  <2> QED BY <2>1, <2>2, <2>3, <2>4, <2>5
<1>5. CASE InitSwitchdev(d)
  <2> USE <1>5 DEF InitSwitchdev, Goto, shared
  <2>1. TypeOK' BY DEF TypeOK, User, Visible, Starting, Ending
  <2>2. StageInv' BY DEF StageInv, TypeOK, Published, HasTree, Visible, Starting, Ending
  <2>3. CmdInv' BY DEF CmdInv, TypeOK, NoCmd, Published, Visible, Starting, Ending
  <2>4. ChainInv' BY DEF ChainInv, TypeOK
  <2>5. NoStrayUser' /\ NotifiedWhileUp' BY DEF NoStrayUser, NotifiedWhileUp, ChainInv, TypeOK
  <2> QED BY <2>1, <2>2, <2>3, <2>4, <2>5
<1>6. CASE InitMadcap(d)
  <2> USE <1>6 DEF InitMadcap, Goto, shared
  <2>1. TypeOK' BY DEF TypeOK, User, Visible, Starting, Ending
  <2>2. StageInv' BY DEF StageInv, TypeOK, Published, HasTree, Visible, Starting, Ending
  <2>3. CmdInv' BY DEF CmdInv, TypeOK, NoCmd, Published, Visible, Starting, Ending
  <2>4. ChainInv' BY DEF ChainInv, TypeOK
  <2>5. NoStrayUser' /\ NotifiedWhileUp' BY DEF NoStrayUser, NotifiedWhileUp, ChainInv, TypeOK
  <2> QED BY <2>1, <2>2, <2>3, <2>4, <2>5
<1>7. CASE InitMadcapFails(d)
  <2> USE <1>7 DEF InitMadcapFails, Goto, own, shared
  <2>1. TypeOK' BY DEF TypeOK, User, Visible, Starting, Ending
  <2>2. StageInv' BY DEF StageInv, TypeOK, Published, HasTree, Visible, Starting, Ending
  <2>3. CmdInv' BY DEF CmdInv, TypeOK, NoCmd, Published, Visible, Starting, Ending
  <2>4. ChainInv' BY DEF ChainInv, TypeOK
  <2>5. NoStrayUser' /\ NotifiedWhileUp' BY DEF NoStrayUser, NotifiedWhileUp, ChainInv, TypeOK
  <2> QED BY <2>1, <2>2, <2>3, <2>4, <2>5
<1>8. CASE InitNotifier(d)
  <2> USE <1>8 DEF InitNotifier, Goto, own
  <2>1. TypeOK' BY DEF TypeOK, User, Visible, Starting, Ending
  <2>2. StageInv' BY DEF StageInv, TypeOK, Published, HasTree, Visible, Starting, Ending
  <2>3. CmdInv' BY DEF CmdInv, TypeOK, NoCmd, Published, Visible, Starting, Ending
  <2>4. ChainInv' BY DEF ChainInv, TypeOK
  <2>5. NoStrayUser' /\ NotifiedWhileUp' BY DEF NoStrayUser, NotifiedWhileUp, ChainInv, TypeOK
  <2> QED BY <2>1, <2>2, <2>3, <2>4, <2>5
<1>9. CASE InitRegister(d)
  <2> USE <1>9 DEF InitRegister, Goto, own
  <2>1. TypeOK' BY DEF TypeOK, User, Visible, Starting, Ending
  <2>2. StageInv' BY DEF StageInv, TypeOK, Published, HasTree, Visible, Starting, Ending
  <2>3. CmdInv' BY DEF CmdInv, TypeOK, NoCmd, Published, Visible, Starting, Ending
  <2>4. ChainInv' BY DEF ChainInv, TypeOK
  <2>5. NoStrayUser' /\ NotifiedWhileUp' BY DEF NoStrayUser, NotifiedWhileUp, ChainInv, TypeOK
  <2> QED BY <2>1, <2>2, <2>3, <2>4, <2>5
<1>10. CASE InitFlag(d)
  <2> USE <1>10 DEF InitFlag, Goto, own
  <2>1. TypeOK' BY DEF TypeOK, User, Visible, Starting, Ending
  <2>2. StageInv' BY DEF StageInv, TypeOK, Published, HasTree, Visible, Starting, Ending
  <2>3. CmdInv' BY DEF CmdInv, TypeOK, NoCmd, Published, Visible, Starting, Ending
  <2>4. ChainInv' BY DEF ChainInv, TypeOK
  <2>5. NoStrayUser' /\ NotifiedWhileUp' BY DEF NoStrayUser, NotifiedWhileUp, ChainInv, TypeOK
  <2> QED BY <2>1, <2>2, <2>3, <2>4, <2>5
<1> QED BY <1>1, <1>2, <1>3, <1>4, <1>5, <1>6, <1>7, <1>8, <1>9, <1>10 DEF Start

\* Routes, neighbour events, packets and works keep the invariant.
LEMMA UseStep ==
    ASSUME IInv, NEW d \in Dev, Use(d) \/ RunWork(d)
    PROVE  IInv'
<1> USE DevAssumption DEF IInv
<1>1. CASE Acquire(d)
  <2> USE <1>1 DEF Acquire, shared
  <2>1. TypeOK' BY DEF TypeOK
  <2>2. StageInv' BY DEF StageInv, TypeOK, Published, HasTree, Visible, Starting, Ending
  <2>3. CmdInv' /\ ChainInv' /\ NoStrayUser' /\ NotifiedWhileUp'
      BY DEF CmdInv, ChainInv, NoStrayUser, NotifiedWhileUp
  <2> QED BY <2>1, <2>2, <2>3
<1>2. CASE Route(d)
  <2> USE <1>2 DEF Route, Follows, own, shared
  <2>1. NoStrayUser' BY DEF NoStrayUser, StageInv, Published, HasTree, Visible, Starting, Ending
  <2>2. TypeOK' BY <2>1 DEF TypeOK, NoStrayUser
  <2>3. StageInv' /\ CmdInv' /\ ChainInv' /\ NotifiedWhileUp'
      BY DEF StageInv, CmdInv, ChainInv, NotifiedWhileUp
  <2> QED BY <2>1, <2>2, <2>3
<1>3. CASE NeighEvent(d)
  <2> USE <1>3 DEF NeighEvent, Follows, own, shared
  <2>1. NoStrayUser' BY DEF NoStrayUser, StageInv, Published, HasTree, Visible, Starting, Ending
  <2>2. TypeOK' BY <2>1 DEF TypeOK, NoStrayUser
  <2>3. StageInv' /\ CmdInv' /\ ChainInv' /\ NotifiedWhileUp'
      BY DEF StageInv, CmdInv, ChainInv, NotifiedWhileUp
  <2> QED BY <2>1, <2>2, <2>3
<1>4. CASE Xmit(d)
  <2> USE <1>4 DEF Xmit, Follows, VdevFound, own, shared
  <2>1. NoStrayUser' BY DEF NoStrayUser, StageInv, Published, HasTree, Visible, Starting, Ending
  <2>2. TypeOK' BY <2>1 DEF TypeOK, NoStrayUser
  <2>3. StageInv' /\ CmdInv' /\ ChainInv' /\ NotifiedWhileUp'
      BY DEF StageInv, CmdInv, ChainInv, NotifiedWhileUp
  <2> QED BY <2>1, <2>2, <2>3
<1>5. CASE XmitConnected(d)
  <2> USE <1>5 DEF XmitConnected, VdevFound, shared
  <2>1. NoStrayUser' BY DEF NoStrayUser, StageInv, Published, Visible, Starting, Ending
  <2>2. TypeOK' BY <2>1 DEF TypeOK, NoStrayUser
  <2>3. StageInv' BY DEF StageInv, TypeOK, Published, HasTree, Visible, Starting, Ending
  <2>4. CmdInv' /\ ChainInv' /\ NotifiedWhileUp' BY DEF CmdInv, ChainInv, NotifiedWhileUp
  <2> QED BY <2>1, <2>2, <2>3, <2>4
<1>6. CASE CmdFind(d)
  <2> USE <1>6 DEF CmdFind, NoCmd, own, shared
  <2>1. TypeOK' BY DEF TypeOK
  <2>2. CmdInv' BY DEF CmdInv, TypeOK
  <2>3. StageInv' /\ ChainInv' /\ NoStrayUser' /\ NotifiedWhileUp'
      BY DEF StageInv, ChainInv, NoStrayUser, NotifiedWhileUp
  <2> QED BY <2>1, <2>2, <2>3
<1>7. CASE Work(d)
  <2> USE <1>7 DEF Work, shared
  <2>1. TypeOK' BY DEF TypeOK
  <2>2. StageInv' BY DEF StageInv, TypeOK, Published, HasTree, Visible, Starting, Ending
  <2>3. CmdInv' /\ ChainInv' /\ NoStrayUser' /\ NotifiedWhileUp'
      BY DEF CmdInv, ChainInv, NoStrayUser, NotifiedWhileUp
  <2> QED BY <2>1, <2>2, <2>3
<1>8. CASE WorkDies(d)
  <2> USE <1>8 DEF WorkDies, shared
  <2>1. TypeOK' BY DEF TypeOK
  <2>2. StageInv' BY DEF StageInv, TypeOK, Published, HasTree, Visible, Starting, Ending
  <2>3. CmdInv' /\ ChainInv' /\ NoStrayUser' /\ NotifiedWhileUp'
      BY DEF CmdInv, ChainInv, NoStrayUser, NotifiedWhileUp
  <2> QED BY <2>1, <2>2, <2>3
<1> QED BY <1>1, <1>2, <1>3, <1>4, <1>5, <1>6, <1>7, <1>8 DEF Use, RunWork

\* The netlink command keeps the invariant: it finds the ops of a NIC that is
\* listed, and calls the driver of one that is there unless a removal overlapped it.
LEMMA CmdStep ==
    ASSUME IInv, Cmd
    PROVE  IInv'
<1> USE DevAssumption DEF IInv
<1>1. CASE CmdOps
  <2> USE <1>1 DEF CmdOps, NoCmd, own, shared
  <2>1. TypeOK' BY DEF TypeOK
  <2>2. CmdInv' BY DEF CmdInv, TypeOK, StageInv, Published, Visible, Starting, Ending
  <2>3. StageInv' /\ ChainInv' /\ NoStrayUser' /\ NotifiedWhileUp'
      BY DEF StageInv, ChainInv, NoStrayUser, NotifiedWhileUp
  <2> QED BY <2>1, <2>2, <2>3
<1>2. ASSUME Calls PROVE cmd.dev \in Dev /\ NoStrayUser'
  BY <1>2 DEF Calls, TypeOK, NoCmd, CmdInv, NoStrayUser
<1>3. CASE CmdEntryAdd
  <2> USE <1>2, <1>3 DEF CmdEntryAdd, Calls, NoCmd, own, shared
  <2>1. TypeOK' BY DEF TypeOK, NoStrayUser
  <2>2. CmdInv' BY DEF CmdInv, TypeOK, Published
  <2>3. StageInv' /\ ChainInv' /\ NotifiedWhileUp' BY DEF StageInv, ChainInv, NotifiedWhileUp
  <2> QED BY <2>1, <2>2, <2>3
<1>4. CASE CmdAcquire
  <2> USE <1>2, <1>4 DEF CmdAcquire, Calls, NoCmd, shared
  <2>1. TypeOK' BY DEF TypeOK, NoStrayUser
  <2>2. StageInv' BY DEF StageInv, CmdInv, TypeOK
  <2>3. CmdInv' /\ ChainInv' /\ NotifiedWhileUp' BY DEF CmdInv, ChainInv, NotifiedWhileUp, TypeOK
  <2> QED BY <2>1, <2>2, <2>3
<1> QED BY <1>1, <1>3, <1>4 DEF Cmd

\* unregister_netdev and the steps of sfmc_exit keep the invariant.
LEMMA ExitStep ==
    ASSUME IInv, NEW d \in Dev, Unregister(d) \/ Exit(d)
    PROVE  IInv'
<1> USE DevAssumption DEF IInv
<1>1. CASE Unregister(d)
  <2> USE <1>1 DEF Unregister, own
  <2>1. TypeOK' BY DEF TypeOK, User, Visible, Starting, Ending
  <2>2. StageInv' BY DEF StageInv, TypeOK, Published, HasTree, Visible, Starting, Ending
  <2>3. CmdInv' BY DEF CmdInv, TypeOK, NoCmd, Published, Visible, Starting, Ending
  <2>4. ChainInv' BY DEF ChainInv, TypeOK
  <2>5. NoStrayUser' /\ NotifiedWhileUp' BY DEF NoStrayUser, NotifiedWhileUp, ChainInv, TypeOK
  <2> QED BY <2>1, <2>2, <2>3, <2>4, <2>5
<1>2. CASE ExitNotifier(d)
  <2> USE <1>2 DEF ExitNotifier, Goto, own, shared
  <2>1. TypeOK' BY DEF TypeOK, User, Visible, Starting, Ending
  <2>2. StageInv' BY DEF StageInv, TypeOK, Published, HasTree, Visible, Starting, Ending
  <2>3. CmdInv' BY DEF CmdInv, TypeOK, NoCmd, Published, Visible, Starting, Ending
  <2>4. ChainInv' BY DEF ChainInv, TypeOK
  <2>5. NoStrayUser' /\ NotifiedWhileUp' BY DEF NoStrayUser, NotifiedWhileUp, ChainInv, TypeOK
  <2> QED BY <2>1, <2>2, <2>3, <2>4, <2>5
<1>3. CASE ExitUnregister(d)
  <2> USE <1>3 DEF ExitUnregister, Goto, own
  <2>1. TypeOK' BY DEF TypeOK, User, Visible, Starting, Ending
  <2>2. StageInv' BY DEF StageInv, TypeOK, Published, HasTree, Visible, Starting, Ending
  <2>3. CmdInv' BY DEF CmdInv, TypeOK, NoCmd, Published, Visible, Starting, Ending
  <2>4. ChainInv' BY DEF ChainInv, TypeOK
  <2>5. NoStrayUser' /\ NotifiedWhileUp' BY DEF NoStrayUser, NotifiedWhileUp, ChainInv, TypeOK
  <2> QED BY <2>1, <2>2, <2>3, <2>4, <2>5
<1>4. CASE ExitFlag(d)
  <2> USE <1>4 DEF ExitFlag, Goto, own
  <2>1. TypeOK' BY DEF TypeOK, User, Visible, Starting, Ending
  <2>2. StageInv' BY DEF StageInv, TypeOK, Published, HasTree, Visible, Starting, Ending
  <2>3. CmdInv' BY DEF CmdInv, TypeOK, NoCmd, Published, Visible, Starting, Ending
  <2>4. ChainInv' BY DEF ChainInv, TypeOK
  <2>5. NoStrayUser' /\ NotifiedWhileUp' BY DEF NoStrayUser, NotifiedWhileUp, ChainInv, TypeOK
  <2> QED BY <2>1, <2>2, <2>3, <2>4, <2>5
<1>5. CASE ExitTable(d)
  <2> USE <1>5 DEF ExitTable, Goto, own, shared
  <2>1. TypeOK' BY DEF TypeOK, User, Visible, Starting, Ending
  <2>2. StageInv' BY DEF StageInv, TypeOK, Published, HasTree, Visible, Starting, Ending
  <2>3. CmdInv' BY DEF CmdInv, TypeOK, NoCmd, Published, Visible, Starting, Ending
  <2>4. ChainInv' BY DEF ChainInv, TypeOK
  <2>5. NoStrayUser' /\ NotifiedWhileUp' BY DEF NoStrayUser, NotifiedWhileUp, ChainInv, TypeOK
  <2> QED BY <2>1, <2>2, <2>3, <2>4, <2>5
<1>6. CASE ExitFib(d)
  <2> USE <1>6 DEF ExitFib, Goto, shared
  <2>1. TypeOK' BY DEF TypeOK, User, Visible, Starting, Ending
  <2>2. StageInv' BY DEF StageInv, TypeOK, Published, HasTree, Visible, Starting, Ending
  <2>3. CmdInv' BY DEF CmdInv, TypeOK, NoCmd, Published, Visible, Starting, Ending
  <2>4. ChainInv' BY DEF ChainInv, TypeOK
  <2>5. NoStrayUser' /\ NotifiedWhileUp' BY DEF NoStrayUser, NotifiedWhileUp, ChainInv, TypeOK
  <2> QED BY <2>1, <2>2, <2>3, <2>4, <2>5
<1>7. CASE ExitWq(d)
  <2> USE <1>7 DEF ExitWq, Goto, shared, Drained
  <2>1. TypeOK' BY DEF TypeOK, User, Visible, Starting, Ending
  <2>2. StageInv' BY DEF StageInv, TypeOK, Published, HasTree, Visible, Starting, Ending
  <2>3. CmdInv' BY DEF CmdInv, TypeOK, NoCmd, Published, Visible, Starting, Ending
  <2>4. ChainInv' BY DEF ChainInv, TypeOK
  <2>5. NoStrayUser' /\ NotifiedWhileUp' BY DEF NoStrayUser, NotifiedWhileUp, ChainInv, TypeOK
  <2> QED BY <2>1, <2>2, <2>3, <2>4, <2>5
<1>8. CASE ExitWqNull(d)
  <2> USE <1>8 DEF ExitWqNull, Goto, own, shared
  <2>1. TypeOK' BY DEF TypeOK, User, Visible, Starting, Ending
  <2>2. StageInv' BY DEF StageInv, TypeOK, Published, HasTree, Visible, Starting, Ending
  <2>3. CmdInv' BY DEF CmdInv, TypeOK, NoCmd, Published, Visible, Starting, Ending
  <2>4. ChainInv' BY DEF ChainInv, TypeOK
  <2>5. NoStrayUser' /\ NotifiedWhileUp' BY DEF NoStrayUser, NotifiedWhileUp, ChainInv, TypeOK
  <2> QED BY <2>1, <2>2, <2>3, <2>4, <2>5
<1>9. CASE ExitMadcap(d)
  <2> USE <1>9 DEF ExitMadcap, Goto, shared
  <2>1. TypeOK' BY DEF TypeOK, User, Visible, Starting, Ending
  <2>2. StageInv' BY DEF StageInv, TypeOK, Published, HasTree, Visible, Starting, Ending
  <2>3. CmdInv' BY DEF CmdInv, TypeOK, NoCmd, Published, Visible, Starting, Ending
  <2>4. ChainInv' BY DEF ChainInv, TypeOK
  <2>5. NoStrayUser' /\ NotifiedWhileUp' BY DEF NoStrayUser, NotifiedWhileUp, ChainInv, TypeOK
  <2> QED BY <2>1, <2>2, <2>3, <2>4, <2>5
<1> QED BY <1>1, <1>2, <1>3, <1>4, <1>5, <1>6, <1>7, <1>8, <1>9 DEF Exit

\* Every step keeps the invariant.
LEMMA StepInv == IInv /\ [Next]_vars => IInv'
<1>1. ASSUME IInv, Next PROVE IInv'
  BY <1>1, StartStep, UseStep, CmdStep, ExitStep DEF Next
<1>2. ASSUME IInv, UNCHANGED vars PROVE IInv'
  BY <1>2 DEF vars, IInv, TypeOK, StageInv, CmdInv, ChainInv, NoStrayUser, NotifiedWhileUp
<1> QED BY <1>1, <1>2

\* The inductive invariant holds: at every step of sfmc_init and sfmc_exit of
\* every NIC exactly what was built and not yet torn down is there.
THEOREM IInvHolds == Spec => []IInv
BY InitInv, StepInv, PTL DEF Spec

\* The types hold; in particular a netlink command that goes on has found a NIC
\* (madcap_nl_cmd_llt_entry_add tests what its search by index returned).
THEOREM TypesHold == Spec => []TypeOK
<1>1. IInv => TypeOK BY DEF IInv
<1> QED BY <1>1, IInvHolds, PTL

\* No route, neighbour event, packet, queueing of a work, or netlink command that
\* the removal did not overlap, meets an sfmc that is not built or torn down.
THEOREM NoStrayUserHolds == Spec => []NoStrayUser
<1>1. IInv => NoStrayUser BY DEF IInv
<1> QED BY <1>1, IInvHolds, PTL

\* The inductive invariant gives the promise of a removal: a NIC that is absent
\* is in none of the states in which a queue, a work or a registration exists.
LEMMA LeftFact == IInv => NothingLeft
<1> SUFFICES ASSUME IInv PROVE NothingLeft
  OBVIOUS
<1>1. ASSUME NEW d \in Dev, pc[d] = "absent"
      PROVE  work[d] = 0 /\ d \notin wq \cup listed \cup swops /\ (d \in left => d \in late)
  BY <1>1, DevAssumption DEF IInv, TypeOK, StageInv, CmdInv, Published, HasTree, Visible, Starting, Ending
<1>2. (\A d \in Dev : pc[d] = "absent") => ~chain \/ mixed
  BY DEF IInv, ChainInv
<1> QED BY <1>1, <1>2 DEF NothingLeft

\* A NIC whose removal ended, after a start that succeeded or failed, leaves no
\* work queue, work or registration behind, no LLT entry but those of a command
\* that overlapped the removal; and the last one leaves no notifier, unless a
\* start registered it beside another start or removal.
THEOREM NothingLeftHolds == Spec => []NothingLeft
BY LeftFact, IInvHolds, PTL

\* A NIC that is up is notified of neighbours, unless the removal of another NIC
\* took the shared notifier away or had done so when the NIC looked at the flag
\* it had not reset yet, and as long as starts and removals have not mixed.
THEOREM NotifiedWhileUpHolds == Spec => []NotifiedWhileUp
<1>1. IInv => NotifiedWhileUp BY DEF IInv
<1> QED BY <1>1, IInvHolds, PTL
==============================================================================
