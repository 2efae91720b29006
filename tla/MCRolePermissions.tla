--------------------------- MODULE MCRolePermissions ---------------------------
(* Small instances of RolePermissions for TLC: stock.out needs stock.view,  *)
(* and users.view is for administrators only.                               *)
EXTENDS RolePermissions, TLC

MCCodes == {"stock.view", "stock.out", "reports.view", "users.view"}
MCAdminOnly == {"users.view"}
MCRequires == [c \in MCCodes |-> IF c = "stock.out" THEN {"stock.view"} ELSE {}]
MCDefaults == [r \in Roles |-> IF r = "user" THEN {"stock.out", "stock.view"}
                               ELSE {"reports.view"}]
MCOldCodes == MCCodes \ {"reports.view"}

EditorSymmetry == Permutations(Editors)
=============================================================================
