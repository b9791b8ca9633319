--------------------------- MODULE MCAdministration ---------------------------
EXTENDS Administration, TLC

CONSTANTS r1, r2, r3

ThreeRequests == {r1, r2, r3}

Empty == [account    |-> [a \in Account |-> NoAccount],
          invitation |-> [i \in Invitation |-> NoInvitation],
          role       |-> [x \in Role |-> "unused"],
          contents   |-> [x \in Role |-> {}]]

Staffed == [Empty EXCEPT
  !.account[1]    = [tier |-> "ADMIN", email |-> 1, active |-> TRUE, deleted |-> FALSE],
  !.invitation[1] = [NoInvitation EXCEPT !.email = 1, !.account = 1],
  !.role[1]       = "present",
  !.contents[1]   = {"USER_READ"}]

EmptyOrStaffed == {Empty, Staffed}

RequestSymmetry == Permutations(ThreeRequests)
===============================================================================
