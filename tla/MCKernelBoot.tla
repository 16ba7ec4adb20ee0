---------------------------- MODULE MCKernelBoot ----------------------------
EXTENDS KernelBoot

\* spawn_thread_start with the idle process's frame: one descriptor per hart,
\* but a single value suffices since the descriptor is only carried along
MCEntries == {"spawn_thread_start"}
=============================================================================
