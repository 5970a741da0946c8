------------------------------- MODULE MCOta --------------------------------
(* Model-checking instance of Ota: images of two blocks; the firmware      *)
(* <<b2, b1>> is signed but cannot be started, <<b1, b2>> can be started   *)
(* but is not signed, and <<b1, b1>> is the factory's.                     *)
EXTENDS Ota

CONSTANTS b1, b2

MCImage == {<<b1, b1>>, <<b1, b2>>, <<b2, b2>>}
MCSigned == {<<b2, b2>>, <<b2, b1>>}
MCFactory == <<b1, b1>>
=============================================================================
