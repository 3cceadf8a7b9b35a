------------------------------- MODULE MCDevices -------------------------------
(***************************************************************************)
(* Four controllers: one with a disk whose first sector the parser takes   *)
(* and an empty port, one with another disk, one without a disk, and one   *)
(* with a port behind the page the driver maps.                            *)
(***************************************************************************)
EXTENDS Devices, TLC

First == <<0, 0, 1, 0>>
Second == <<0, 1, 0, 1>>
Third == <<1, 2, 0, 0>>
Fourth == <<2, 0, 0, 0>>

MCControllers == {First, Second, Third, Fourth}
MCPorts == First :> {0, 1} @@ Second :> {4} @@ Third :> {} @@ Fourth :> {30}
MCDisks == {<<First, 0>>, <<Second, 4>>}
MCTakenDisks == {<<First, 0>>}

Table(s) == [signature |-> s, segments |-> <<>>]
MCFG(segments) == [signature |-> "MCFG", segments |-> segments]
Segments(base, first, last) == [baseAddress |-> base, startBus |-> first, endBus |-> last]

AHCIs == [c \in {First, Second, Third} |-> "ahci"]
Others == <<0, 0, 0, 0>> :> "other" @@ <<0, 1, 0, 0>> :> "other"

Entry(guid, isRSDP, tables) == [guid |-> guid, isRSDP |-> isRSDP, tables |-> tables]

\* The tables of ACPI 2.0 are listed behind those of ACPI 1.0, or alone; the first
\* entry is not one of them.
Behind(tables) == <<Entry("other", FALSE, <<>>), Entry("acpi1", TRUE, <<Table("FACP")>>), Entry("acpi2", TRUE, tables)>>
Alone(tables) == <<Entry("other", FALSE, <<>>), Entry("acpi2", TRUE, tables), Entry("other", FALSE, <<>>)>>

\* All in one segment or in two, the third controller on the last bus of its
\* own; the first behind a device that does not answer; no table; the fourth.
MCMachines ==
  {[configuration |-> Behind(<<Table("FACP"), MCFG(<<Segments(0, 0, 2)>>)>>), functions |-> AHCIs @@ Others],
   [configuration |-> Alone(<<MCFG(<<Segments(0, 1, 2), Segments(1, 2, 4)>>), Table("FACP")>>),
    functions |-> AHCIs @@ Others],
   [configuration |-> Behind(<<MCFG(<<Segments(0, 0, 2), Segments(1, 0, 2)>>)>>),
    functions |-> AHCIs @@ (<<0, 1, 0, 0>> :> "other")],
   [configuration |-> Alone(<<Table("FACP")>>), functions |-> AHCIs @@ Others],
   [configuration |-> Alone(<<MCFG(<<Segments(2, 0, 1)>>)>>), functions |-> Fourth :> "ahci"]}
===============================================================================
