---------------------------- MODULE MCTreeCopy ----------------------------
(* A small distribution for TreeCopy: /, /var and /home with a file in each of the
   latter two, a file and a folder beside rootfs, and the mount point rootfs\home. *)
EXTENDS TreeCopy

CONSTANTS rootfs, var, home, mount, cache, log, user, disk

MCFolders == {rootfs, var, home, mount, cache}
MCFiles == {log, user, disk}
MCAbove == [n \in MCFolders \cup MCFiles |->
    CASE n \in {var, home, mount} -> {rootfs}
      [] n = log  -> {rootfs, var}
      [] n = user -> {rootfs, home}
      [] OTHER    -> {}]
=============================================================================
