------------------------------ MODULE MCUsbLink ------------------------------
(* Five commands let a server be two answers behind and regain the step;    *)
(* three chunks and two starts of the firmware lose a chunk and print one   *)
(* more.                                                                    *)
EXTENDS UsbLink
=============================================================================
