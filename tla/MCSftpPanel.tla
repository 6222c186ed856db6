---------------------------- MODULE MCSftpPanel ----------------------------
(***************************************************************************)
(* Instances of SftpPanel for TLC.                                         *)
(***************************************************************************)
EXTENDS SftpPanel, TLC

CONSTANTS a, b, root, home, u1

OneTab  == {a}
TwoTabs == {a, b}
RootAndHome == {root, home}
OneUpload  == {u1}
NoUploads  == {}
=============================================================================
