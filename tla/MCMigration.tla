---------------------------- MODULE MCMigration ----------------------------
\* MigrationWorkflow with a small set of codes and strategies.
EXTENDS MigrationWorkflow
=============================================================================
