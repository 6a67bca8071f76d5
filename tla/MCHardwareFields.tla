-------------------------- MODULE MCHardwareFields --------------------------
(***************************************************************************)
(* Two commands at once on three objects of two namespaces.                *)
(***************************************************************************)
EXTENDS HardwareFields

MCKeys == {<<"t1", "a">>, <<"t1", "b">>, <<"t2", "a">>}

Options(tenants, namespaces, clusters) ==
    [tenants |-> tenants, namespaces |-> namespaces, clusters |-> clusters]

Command(kind, args, hostname) == [kind |-> kind, args |-> args, hostname |-> hostname]

InT1 == Options(<<"t1">>, <<Blank>>, <<Blank>>)

AllCommands ==
    {Command("clean-userdata", Options(<<Blank>>, <<"t2", "t1">>, <<Blank>>), Blank),
     Command("clean-vendordata", InT1, Blank),
     Command("clean-vendordata", Options(<<Blank, "t1">>, <<"t1">>, <<Blank>>), "a"),
     Command("pxe-allow", InT1, Blank),
     Command("pxe-allow", InT1, "b"),
     Command("pxe-deny", InT1, Blank),
     Command("show", Options(<<"t1">>, <<Blank>>, <<"k1">>), Blank),
     Command("show", Options(<<"t1">>, <<Blank>>, <<"k2", Blank>>), Blank),
     Command("show", InT1, "a")}

MCCommands ==
    LET first == CHOOSE p \in Procs : TRUE
    IN  {[p \in Procs |-> IF p = first THEN c ELSE Command("pxe-allow", InT1, Blank)] : c \in AllCommands}
=============================================================================
