------------------------------- MODULE MCSugov -------------------------------
(***************************************************************************)
(* Instances of Sugov for TLC.  A capacity scale of 4 stands for 1024, an  *)
(* unsigned int has 16 values, and the driver knows the frequencies 1 and  *)
(* 2.                                                                      *)
(***************************************************************************)
EXTENDS Sugov

Avg(util, cutil, mutil, rt) ==
  [util_avg |-> util, core_util_avg |-> cutil, memory_util_avg |-> mutil, rt |-> rt]

LowHigh  == {Avg(1, 1, 0, 0), Avg(4, 3, 1, 0)}
IdleBusy == {Avg(0, 0, 0, 0), Avg(2, 1, 1, 1)}

TwoFreqs  == {1, 2}
FullRange == {<<1, 2>>}
TwoLimits == {<<1, 2>>, <<1, 1>>}

Plain    == {{}}
AllFlags == {{}, {"IOWAIT"}, {"DL"}}
=============================================================================
