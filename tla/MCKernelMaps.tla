---------------------------- MODULE MCKernelMaps ----------------------------
(* Two kernel mappings in an address space of seven pages. *)
EXTENDS KernelMaps

CONSTANTS vvar, vdso

TwoNames == {vvar, vdso}
InOrder  == <<vvar, vdso>>
=============================================================================
