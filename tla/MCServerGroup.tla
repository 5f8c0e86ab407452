----------------------------- MODULE MCServerGroup -----------------------------
(***************************************************************************)
(* A stdio upstream behind one and two listeners, an HTTP one behind two.  *)
(***************************************************************************)
EXTENDS ServerGroup

MCDeployment ==
    {[upstream |-> "stdio", listeners |-> {"HTTP"}],
     [upstream |-> "stdio", listeners |-> {"HTTP", "HTTPS"}],
     [upstream |-> "transparent", listeners |-> {"HTTP", "HTTPS"}]}
================================================================================
