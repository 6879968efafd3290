----------------------------- MODULE MCMigrations -----------------------------
EXTENDS Migrations, TLC
=============================================================================
