----------------------------- MODULE MCEditorSync -----------------------------
\* EditorSync on small instances; the windows are model values.
EXTENDS EditorSync
=============================================================================
