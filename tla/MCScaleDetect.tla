----------------------------- MODULE MCScaleDetect -----------------------------
(* Hosts and devices for TLC.                                                 *)
EXTENDS ScaleDetect

Dev(links, usb, acm) == [links |-> links, usb |-> usb, acm |-> acm]

\* Nothing; a USB adapter with its link; a link between the names of two ports;
\* a broken link.
DevDirs ==
  {Dev(<<>>, <<>>, <<>>), Dev(<<"ttyUSB0">>, <<"ttyUSB0">>, <<>>),
   Dev(<<"ttyACM0", "ttyUSB0">>, <<"ttyUSB0">>, <<"ttyACM0">>),
   Dev(<<"by-id/gone">>, <<>>, <<"ttyACM0">>)}

Bauds == {<<>>, <<9600>>, <<9600, 19200>>}
Settings == {None, "/dev/custom"}
FarEnds == {None, [kind |-> "silent", baud |-> 0], [kind |-> "noise", baud |-> 0],
            [kind |-> "scale", baud |-> 9600], [kind |-> "scale", baud |-> 19200]}
Shared == {"ttyUSB0", "ttyACM0"}
===============================================================================
