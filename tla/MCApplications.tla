--------------------------- MODULE MCApplications ---------------------------
(* Instance of Applications for TLC.  The converter sees every offset in    *)
(* use, every hour and every repeat byte; the editor writes alarms that go  *)
(* over midnight and over the end of the week, and one without a weekday.   *)
(* Of the others' records two have the same fold in their heads, and two    *)
(* differ there in one byte. *)
EXTENDS Applications

MCOffsets == -12 .. 14

MCEdits ==
    {<<10, [hour |-> 0, repeat |-> {0, 7}]>>, <<10, [hour |-> 16, repeat |-> {3, 6}]>>,
     <<-1, [hour |-> 23, repeat |-> {6}]>>, <<0, [hour |-> 9, repeat |-> {7}]>>}

MCOthers ==
    {OneShot(2, 9, 6, 7, 0), OneShot(2, 9, 7, 6, 100), OneShot(2, 9, 7, 7, 100),
     Countdown(9, 5), Transition(3, 9, 21, 0, {0, 7}, KindGradual, 4, 255)}

MCWanted == {1, 9, 255}
MCAddresses == {9, 39}
MCOtherLists == {1 .. n : n \in 0 .. 11} \union {{3, 255}}
=============================================================================
