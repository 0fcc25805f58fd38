---------------------------- MODULE MCFwUpgrade -----------------------------
(* Devices and files for TLC.                                              *)
EXTENDS FwUpgrade

Dual == {d \in Device : d.dual /\ ~d.kernelMtd}
Single == {d \in Device : ~d.dual /\ ~d.reserve /\ (d.kernelMtd => d.storage = "nand")}
NandOnly == {d \in Dual : d.storage = "nand"}
AllDevices == Dual \cup Single

Tar(ps) == [type |-> "tar", parts |-> ps, ubifs |-> FALSE]
FullTar == {Tar(Parts)}
AnyTar == {Tar(ps) : ps \in SUBSET Parts}
AnyFile == AnyTar \cup {[type |-> "ubi", parts |-> Parts, ubifs |-> FALSE],
                        [type |-> "ubifs", parts |-> {"root"}, ubifs |-> TRUE],
                        [type |-> "tar", parts |-> Parts, ubifs |-> TRUE]}
=============================================================================
