--------------------------- MODULE MCDbMigration ----------------------------
EXTENDS DbMigration
=============================================================================
