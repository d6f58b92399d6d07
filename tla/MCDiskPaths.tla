----------------------------- MODULE MCDiskPaths -----------------------------
(***************************************************************************)
(* VMs of up to three disks and a CDROM for DiskPaths.                     *)
(***************************************************************************)
EXTENDS DiskPaths

Named(id, cdrom, backing, addr) ==
    [id |-> id, cdrom |-> cdrom, backing |-> backing, addr |-> addr]

\* A VM without disks, and bare disks whose addresses are in the order of the disk_list,
\* with a CDROM before, between or after them.
BareLists ==
    {<<Named("c", TRUE, "none", 0)>>,
     <<Named("c", TRUE, "none", 0), Named("d1", FALSE, "bare", 1), Named("d2", FALSE, "bare", 2)>>,
     <<Named("d1", FALSE, "bare", 1), Named("c", TRUE, "none", 0), Named("d2", FALSE, "bare", 2)>>,
     <<Named("d1", FALSE, "bare", 1), Named("d2", FALSE, "bare", 2), Named("d3", FALSE, "bare", 3)>>}

\* A disk that was cloned from an image.
ImageLists == {<<Named("d1", FALSE, "image", 1), Named("d2", FALSE, "bare", 2)>>}

=============================================================================
