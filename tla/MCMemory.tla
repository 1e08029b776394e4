------------------------------ MODULE MCMemory ------------------------------
(* Model-checking instance of Memory: four user pages, a text page at 0, the *)
(* stack at 2, and room for two processes and a few VMOs.                    *)
EXTENDS Memory

NoDevices == <<>>

BootPages == <<1>>

\* <<offset, size, address>>: inside the region, past its end, and a size
\* whose vector the heap cannot hold.
Asked == {<<0, 1, 1>>, <<1, 1, 0>>, <<0, 2, 3>>, <<0, 3, 0>>}
=============================================================================
