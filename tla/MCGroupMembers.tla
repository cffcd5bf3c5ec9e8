--------------------------- MODULE MCGroupMembers ----------------------------
(* Lists that promote, demote, remove, name a user twice and cross each other. *)
EXTENDS GroupMembers

CONSTANTS a, b, c

MCLists ==
    {<< <<b, "none">> >>, << <<a, "none">> >>,
     << <<b, "member">>, <<c, "member">> >>,
     << <<b, "manager">>, <<c, "manager">> >>, << <<c, "manager">>, <<b, "manager">> >>,
     << <<b, "manager">>, <<a, "member">> >>, << <<a, "member">>, <<b, "member">> >>,
     << <<c, "member">>, <<c, "manager">> >>,
     << <<a, "member">>, <<b, "none">> >>}
=============================================================================
