------------------------------- MODULE MCRaw6Link -------------------------------
(***************************************************************************)
(* Other hosts' datagrams around the places the server looks at: too short *)
(* for ports, short, just long enough for the ports behind an IPv6 header, *)
(* and longer than the server's buffer.                                    *)
(***************************************************************************)
EXTENDS Raw6Link

MCOtherLens == {3, 43, 44, 5000}
=============================================================================
